---------------------------- MODULE QueuesProofs ----------------------------
(* What remains of a queue from which entries are taken.  The function that  *)
(* does it is recursive, so it has to be shown to exist first; both this and *)
(* what it computes follow from the smallest counterexample.                 *)
EXTENDS Queues, SequenceTheorems, WellFoundedInduction, TLAPS

\* A set of numbers that is not empty has a smallest one.
LEMMA Smallest ==
  ASSUME NEW T, T \subseteq Nat, T # {}
  PROVE  \E n \in T : \A m \in T : n <= m
<1>1. PICK n \in T : \A m \in T : ~ (<<m, n>> \in OpToRel(<, Nat))
  BY NatLessThanWellFounded, WFMin
<1>2. \A m \in T : ~ (m < n)
  BY <1>1 DEF OpToRel
<1> QED BY <1>2

\* The places in s of the elements that are left: all the places of elements that are
\* not in S, in their order.
Places(s, S, r, at) ==
  /\ at \in [1..Len(r) -> 1..Len(s)]
  /\ \A i \in 1..Len(r) : r[i] = s[at[i]] /\ r[i] \notin S
  /\ \A i, j \in 1..Len(r) : i < j => at[i] < at[j]
  /\ \A k \in 1..Len(s) : s[k] \notin S => \E i \in 1..Len(r) : at[i] = k

\* What remains of a queue is a part of it, in its order.
LEMMA WithoutKeeps ==
  ASSUME NEW U, NEW s \in Seq(U), NEW S
  PROVE  /\ Without(s, S) \in Seq(U)
         /\ Len(Without(s, S)) \in Nat
         /\ \E at : Places(s, S, Without(s, S), at)
<1> DEFINE N == Len(s)
           Kept(f, i) == IF i = 0 THEN <<>>
                         ELSE IF s[i] \in S THEN f[i - 1] ELSE Append(f[i - 1], s[i])
           kept == CHOOSE f : f = [i \in 0..N |-> Kept(f, i)]
<1>1. N \in Nat /\ N \in 0..N
  OBVIOUS
<1>2. Without(s, S) = kept[N]
  BY DEF Without
<1>3. \A n \in 0..N : \E f : f = [i \in 0..n |-> Kept(f, i)]
  <2> DEFINE T == {n \in 0..N : ~ \E f : f = [i \in 0..n |-> Kept(f, i)]}
  <2> SUFFICES ASSUME T # {} PROVE FALSE
    OBVIOUS
  <2>0. T \subseteq Nat
    BY <1>1
  <2> HIDE DEF T
  <2>1. PICK n \in T : \A m \in T : n <= m
    BY <2>0, Smallest
  <2> USE DEF T
  <2>2. n # 0
    <3>1. [i \in 0..0 |-> <<>>] = [i \in 0..0 |-> Kept([j \in 0..0 |-> <<>>], i)]
      OBVIOUS
    <3> QED BY <3>1, <2>1
  <2>3. n \in 1..N /\ n - 1 \in 0..N /\ n - 1 \in Nat /\ ~ (n <= n - 1)
    BY <1>1, <2>1, <2>2
  <2>4. PICK g : g = [i \in 0..(n - 1) |-> Kept(g, i)]
    <3> HIDE DEF Kept
    <3> QED BY <2>1, <2>3
  <2> DEFINE f == [i \in 0..n |-> IF i = n THEN Kept(g, n) ELSE g[i]]
  <2>5. ASSUME NEW i \in 0..n PROVE f[i] = Kept(f, i)
    <3>1. i = 0 \/ (i - 1 \in 0..(n - 1) /\ i - 1 \in 0..n /\ i - 1 # n)
      BY <2>3
    <3>2. i # 0 => f[i - 1] = g[i - 1]
      BY <3>1
    <3>3. Kept(f, i) = Kept(g, i)
      BY <3>2
    <3>4. i # n => i \in 0..(n - 1)
      BY <2>3
    <3>5. i # n => g[i] = Kept(g, i)
      BY <2>4, <3>4
    <3> HIDE DEF Kept
    <3> QED BY <3>3, <3>5
  <2>6. f = [i \in 0..n |-> Kept(f, i)]
    BY <2>5
  <2> QED BY <2>1, <2>6
<1>4. kept = [i \in 0..N |-> Kept(kept, i)]
  <2>1. \E f : f = [i \in 0..N |-> Kept(f, i)]
    <3> HIDE DEF Kept
    <3> QED BY <1>1, <1>3
  <2> QED BY <2>1
<1> HIDE DEF kept
\* The places that the first n elements leave.
<1> DEFINE Left(n, at) ==
             /\ kept[n] \in Seq(U)
             /\ at \in [1..Len(kept[n]) -> 1..n]
             /\ \A i \in 1..Len(kept[n]) : kept[n][i] = s[at[i]] /\ kept[n][i] \notin S
             /\ \A i, j \in 1..Len(kept[n]) : i < j => at[i] < at[j]
             /\ \A k \in 1..n : s[k] \notin S => \E i \in 1..Len(kept[n]) : at[i] = k
<1>5. ASSUME NEW n \in 0..N, n = 0 \/ \E at : Left(n - 1, at) PROVE \E at : Left(n, at)
  <2>0. kept[n] = Kept(kept, n)
    BY <1>4
  <2>1. CASE n = 0
    <3>1. kept[n] = <<>> /\ Len(kept[n]) = 0
      BY <2>0, <2>1
    <3>2. Left(0, <<>>)
      BY <2>1, <3>1
    <3> QED BY <2>1, <3>2
  <2>2. CASE n # 0
    <3>1. PICK at : Left(n - 1, at)
      BY <1>5, <2>2
    <3> DEFINE q == kept[n - 1]
               m == Len(q)
    <3>2. n \in 1..N /\ n \in Nat /\ n - 1 \in Nat /\ m \in Nat /\ s[n] \in U /\ q \in Seq(U)
      BY <1>1, <2>2, <3>1
    <3>3. kept[n] = IF s[n] \in S THEN q ELSE Append(q, s[n])
      BY <2>0, <2>2
    <3>4. \A k \in 1..n : k = n \/ k \in 1..(n - 1)
      BY <3>2
    <3>5. CASE s[n] \in S
      <4>0. kept[n] = q
        BY <3>3, <3>5
      <4>1. at \in [1..m -> 1..n]
        BY <3>1, <3>2
      <4>2. Left(n, at)
        BY <3>1, <3>4, <3>5, <4>0, <4>1
      <4> QED BY <4>2
    <3>6. CASE s[n] \notin S
      <4> DEFINE to == [i \in 1..(m + 1) |-> IF i = m + 1 THEN n ELSE at[i]]
      <4>1. /\ kept[n] \in Seq(U) /\ Len(kept[n]) = m + 1
            /\ \A i \in 1..m : kept[n][i] = q[i]
            /\ kept[n][m + 1] = s[n]
        BY <3>2, <3>3, <3>6
      <4>2. \A i \in 1..(m + 1) : i = m + 1 \/ i \in 1..m
        BY <3>2
      <4>3. /\ to[m + 1] = n
            /\ \A i \in 1..m : to[i] = at[i] /\ at[i] \in 1..(n - 1) /\ at[i] \in 1..n
        <5>1. m + 1 \in 1..(m + 1) /\ \A i \in 1..m : i \in 1..(m + 1) /\ i # m + 1
          BY <3>2
        <5>2. \A i \in 1..m : at[i] \in 1..(n - 1)
          BY <3>1
        <5>3. \A i \in 1..(n - 1) : i \in 1..n
          BY <3>2
        <5> QED BY <5>1, <5>2, <5>3
      <4>4. to \in [1..(m + 1) -> 1..n]
        <5>1. n \in 1..n
          BY <3>2
        <5>2. \A i \in 1..(m + 1) : to[i] \in 1..n
          BY <4>2, <4>3, <5>1
        <5> QED BY <5>2
      <4> HIDE DEF to, q
      <4>5. \A i \in 1..(m + 1) : kept[n][i] = s[to[i]] /\ kept[n][i] \notin S
        BY <3>1, <3>6, <4>1, <4>2, <4>3 DEF q
      <4>6. \A i, j \in 1..(m + 1) : i < j => to[i] < to[j]
        <5> SUFFICES ASSUME NEW i \in 1..(m + 1), NEW j \in 1..(m + 1), i < j PROVE to[i] < to[j]
          OBVIOUS
        <5>1. i \in 1..m
          BY <3>2
        <5>2. CASE j \in 1..m
          BY <3>1, <4>3, <5>1, <5>2 DEF q
        <5>3. CASE j = m + 1
          BY <3>2, <4>3, <5>1, <5>3
        <5> QED BY <4>2, <5>2, <5>3
      <4>7. \A k \in 1..n : s[k] \notin S => \E i \in 1..(m + 1) : to[i] = k
        <5> SUFFICES ASSUME NEW k \in 1..n, s[k] \notin S PROVE \E i \in 1..(m + 1) : to[i] = k
          OBVIOUS
        <5>1. CASE k = n
          <6>1. m + 1 \in 1..(m + 1)
            BY <3>2
          <6> QED BY <4>3, <5>1, <6>1
        <5>2. CASE k \in 1..(n - 1)
          <6>1. PICK i \in 1..m : at[i] = k
            BY <3>1, <5>2 DEF q
          <6>2. i \in 1..(m + 1)
            BY <3>2
          <6> QED BY <4>3, <6>1, <6>2
        <5> QED BY <3>4, <5>1, <5>2
      <4>8. Left(n, to)
        BY <4>1, <4>4, <4>5, <4>6, <4>7
      <4> QED BY <4>8
    <3> QED BY <3>5, <3>6
  <2> QED BY <2>1, <2>2
<1>6. \A n \in 0..N : \E at : Left(n, at)
  <2> HIDE DEF Left
  <2> DEFINE T == {n \in 0..N : ~ \E at : Left(n, at)}
  <2> SUFFICES ASSUME T # {} PROVE FALSE
    OBVIOUS
  <2>0. T \subseteq Nat
    BY <1>1
  <2> HIDE DEF T
  <2>1. PICK n \in T : \A m \in T : n <= m
    BY <2>0, Smallest
  <2> USE DEF T
  <2>2. n # 0
    BY <1>5, <2>1
  <2>3. n - 1 \in 0..N /\ n - 1 \notin T
    BY <1>1, <2>1, <2>2
  <2> QED BY <1>5, <2>1, <2>3
<1>7. PICK at : Left(N, at)
  <2> HIDE DEF Left
  <2> QED BY <1>1, <1>6
<1>8. Places(s, S, kept[N], at)
  BY <1>7 DEF Places
<1> QED BY <1>2, <1>7, <1>8

\* And is no longer than it: the i-th place is not before i.
LEMMA WithoutShorter ==
  ASSUME NEW U, NEW s \in Seq(U), NEW S
  PROVE  Len(Without(s, S)) <= Len(s)
<1> DEFINE r == Without(s, S)
<1>1. Len(r) \in Nat /\ Len(s) \in Nat
  BY WithoutKeeps
<1>2. PICK at : Places(s, S, r, at)
  BY WithoutKeeps
<1> HIDE DEF r
<1>3. \A i \in 1..Len(r) : at[i] \in 1..Len(s)
  BY <1>2 DEF Places
<1>4. ASSUME NEW i \in 1..Len(r), at[i] < i PROVE FALSE
  <2> DEFINE T == {k \in 1..Len(r) : at[k] < k}
  <2>1. T \subseteq Nat /\ T # {}
    BY <1>1, <1>4
  <2> HIDE DEF T
  <2>2. PICK n \in T : \A m \in T : n <= m
    BY <2>1, Smallest
  <2>3. n \in 1..Len(r) /\ at[n] < n /\ at[n] \in Nat \ {0}
    BY <1>1, <1>3, <2>2 DEF T
  <2>4. n - 1 \in 1..Len(r) /\ n - 1 < n /\ ~ (n <= n - 1)
    BY <1>1, <2>3
  <2>5. at[n - 1] < at[n]
    BY <1>2, <2>3, <2>4 DEF Places
  <2>6. at[n - 1] \in Nat
    BY <1>1, <1>3, <2>4
  <2>7. at[n - 1] < n - 1
    BY <1>1, <2>3, <2>5, <2>6
  <2>8. n - 1 \in T
    BY <2>4, <2>7 DEF T
  <2> QED BY <2>2, <2>4, <2>8
<1>5. CASE Len(r) # 0
  <2>1. Len(r) \in 1..Len(r)
    BY <1>1, <1>5
  <2> QED BY <1>1, <1>3, <1>4, <2>1 DEF r
<1>6. CASE Len(r) = 0
  BY <1>1, <1>6 DEF r
<1> QED BY <1>5, <1>6

=============================================================================
