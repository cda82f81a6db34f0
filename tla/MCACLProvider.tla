--------------------------- MODULE MCACLProvider ---------------------------
(* Two names and two processes, either of which may be the server.         *)
EXTENDS ACLProvider

CONSTANTS testapp, kate, p, q

MCNames == {testapp, kate}
MCProcesses == {p, q}

=============================================================================
