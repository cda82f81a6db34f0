SPECIFICATION Spec
CONSTANTS
  testapp = testapp
  kate = kate
  p = p
  q = q
  Names <- MCNames
  Testapp = testapp
  Processes <- MCProcesses
INVARIANTS
  TypeOK
  NothingUngranted
  
