-------------------------------- MODULE Plans --------------------------------
(***************************************************************************)
(* Reasoning about what a program has still to do, given as a sequence of  *)
(* steps <<name, argument>>.  Some steps need a fact, some establish it,   *)
(* and some upset it: whether the fact has to hold now is then decided by  *)
(* the steps that are left, and these lemmas say how that changes as the   *)
(* program advances, and how it is found for a program put together from   *)
(* parts.                                                                  *)
(***************************************************************************)
EXTENDS Naturals, Sequences, SequenceTheorems, TLAPS

\* What comes after j steps, and the names of all.
NameAt(s, j) == IF j < Len(s) THEN s[j + 1][1] ELSE "end"
Names(s) == {s[i][1] : i \in DOMAIN s}

\* One of the first j steps is among those (X) that establish the fact, and none after it
\* has a name (in U) of those that upset it.
Renewed(s, j, X, U) == \E i \in 1..j : s[i] \in X /\ \A k \in (i + 1)..j : s[k][1] \notin U
Upset(s, j, U) == \E k \in 1..j : s[k][1] \in U

\* Where the fact is needed (by the steps named in N) it was established, or it was not
\* upset; and at one place, at least, it is not established before.
Sound(s, N, X, U) ==
  \A j \in 0..Len(s) : NameAt(s, j) \in N => Renewed(s, j, X, U) \/ ~Upset(s, j, U)
Relies(s, N, X, U) == \E j \in 0..Len(s) : NameAt(s, j) \in N /\ ~Renewed(s, j, X, U)

\* The fact holds when all steps are done.
Leaves(s, X, U) == Renewed(s, Len(s), X, U)

-----------------------------------------------------------------------------
(* Programs that advance.                                                  *)

\* A program that is over needs the fact if its end does.
LEMMA ReliesOver ==
  ASSUME NEW N, NEW X, NEW U
  PROVE  /\ "end" \in N => Relies(<< >>, N, X, U)
         /\ "end" \notin N => ~Relies(<< >>, N, X, U)
         /\ Sound(<< >>, N, X, U)
BY DEF Relies, Sound, NameAt, Renewed, Upset

\* A step that needs the fact finds it.
LEMMA ReliesNow ==
  ASSUME NEW S, NEW s \in Seq(S), s # << >>, NEW N, NEW X, NEW U, Head(s)[1] \in N
  PROVE  Relies(s, N, X, U)
<1>1. Len(s) \in Nat /\ 0 < Len(s) /\ Head(s) = s[1]
  OBVIOUS
<1>2. NameAt(s, 0) \in N /\ ~Renewed(s, 0, X, U)
  BY <1>1 DEF NameAt, Renewed
<1> QED BY <1>1, <1>2 DEF Relies

\* Establishing the fact before the first step or after it.
LEMMA RenewedTail ==
  ASSUME NEW S, NEW s \in Seq(S), s # << >>, NEW X, NEW U, NEW j \in 0..(Len(s) - 1)
  PROVE  /\ Tail(s) \in Seq(S) /\ Len(Tail(s)) = Len(s) - 1
         /\ \A N : NameAt(Tail(s), j) \in N <=> NameAt(s, j + 1) \in N
         /\ Renewed(Tail(s), j, X, U) => Renewed(s, j + 1, X, U)
         /\ Renewed(s, j + 1, X, U) /\ ~Renewed(Tail(s), j, X, U)
            => Head(s) \in X /\ ~Upset(Tail(s), j, U)
         /\ Upset(s, j + 1, U) <=> (Head(s)[1] \in U \/ Upset(Tail(s), j, U))
<1>1. /\ Len(s) \in Nat \ {0} /\ Head(s) = s[1]
      /\ Tail(s) \in Seq(S) /\ Len(Tail(s)) = Len(s) - 1
      /\ \A i \in 1..(Len(s) - 1) : Tail(s)[i] = s[i + 1]
  OBVIOUS
<1>2. \A N : NameAt(Tail(s), j) \in N <=> NameAt(s, j + 1) \in N
  BY <1>1 DEF NameAt
<1>3. ASSUME Renewed(Tail(s), j, X, U) PROVE Renewed(s, j + 1, X, U)
  <2>1. PICK i \in 1..j : Tail(s)[i] \in X /\ \A k \in (i + 1)..j : Tail(s)[k][1] \notin U
    BY <1>3 DEF Renewed
  <2>2. i + 1 \in 1..(j + 1) /\ s[i + 1] \in X
    BY <1>1, <2>1
  <2>3. ASSUME NEW k \in ((i + 1) + 1)..(j + 1) PROVE s[k][1] \notin U
    <3>1. k - 1 \in (i + 1)..j /\ k - 1 \in 1..(Len(s) - 1) /\ (k - 1) + 1 = k
      BY <1>1
    <3> QED BY <1>1, <2>1, <3>1
  <2> QED BY <2>2, <2>3 DEF Renewed
<1>4. ASSUME Renewed(s, j + 1, X, U), ~Renewed(Tail(s), j, X, U)
      PROVE  Head(s) \in X /\ ~Upset(Tail(s), j, U)
  <2>1. PICK i \in 1..(j + 1) : s[i] \in X /\ \A k \in (i + 1)..(j + 1) : s[k][1] \notin U
    BY <1>4 DEF Renewed
  <2>2. ASSUME i # 1 PROVE FALSE
    <3>1. i - 1 \in 1..j /\ Tail(s)[i - 1] \in X
      BY <1>1, <2>1, <2>2
    <3>2. ASSUME NEW k \in ((i - 1) + 1)..j PROVE Tail(s)[k][1] \notin U
      <4>1. k + 1 \in (i + 1)..(j + 1) /\ k \in 1..(Len(s) - 1)
        BY <1>1, <2>2
      <4> QED BY <1>1, <2>1, <4>1
    <3> QED BY <1>4, <3>1, <3>2 DEF Renewed
  <2>3. ASSUME NEW k \in 1..j PROVE Tail(s)[k][1] \notin U
    <3>1. k + 1 \in (i + 1)..(j + 1) /\ k \in 1..(Len(s) - 1)
      BY <1>1, <2>2
    <3> QED BY <1>1, <2>1, <3>1
  <2> QED BY <1>1, <2>1, <2>2, <2>3 DEF Upset
<1>5. ASSUME Upset(s, j + 1, U) PROVE Head(s)[1] \in U \/ Upset(Tail(s), j, U)
  <2>1. PICK k \in 1..(j + 1) : s[k][1] \in U
    BY <1>5 DEF Upset
  <2>2. CASE k = 1
    BY <1>1, <2>1, <2>2
  <2>3. CASE k # 1
    <3>1. k - 1 \in 1..j /\ Tail(s)[k - 1][1] \in U
      BY <1>1, <2>1, <2>3
    <3> QED BY <3>1 DEF Upset
  <2> QED BY <2>2, <2>3
<1>6. ASSUME Head(s)[1] \in U \/ Upset(Tail(s), j, U) PROVE Upset(s, j + 1, U)
  <2>1. CASE Head(s)[1] \in U
    BY <1>1, <2>1 DEF Upset
  <2>2. CASE Upset(Tail(s), j, U)
    <3>1. PICK k \in 1..j : Tail(s)[k][1] \in U
      BY <2>2 DEF Upset
    <3>2. k + 1 \in 1..(j + 1) /\ s[k + 1][1] \in U
      BY <1>1, <3>1
    <3> QED BY <3>2 DEF Upset
  <2> QED BY <1>6, <2>1, <2>2
<1> QED BY <1>1, <1>2, <1>3, <1>4, <1>5, <1>6

\* A sound program stays sound; what it relies on is what its first step established, or
\* what that step relied on and did not upset.
LEMMA ReliesNext ==
  ASSUME NEW S, NEW s \in Seq(S), s # << >>, NEW N, NEW X, NEW U, Sound(s, N, X, U)
  PROVE  /\ Sound(Tail(s), N, X, U)
         /\ Relies(Tail(s), N, X, U)
            => Head(s) \in X \/ (Relies(s, N, X, U) /\ Head(s)[1] \notin U)
<1>1. Len(s) \in Nat \ {0} /\ Len(Tail(s)) = Len(s) - 1
  OBVIOUS
<1>2. ASSUME NEW j \in 0..Len(Tail(s)), NameAt(Tail(s), j) \in N
      PROVE  Renewed(Tail(s), j, X, U) \/ ~Upset(Tail(s), j, U)
  <2>1. j \in 0..(Len(s) - 1) /\ j + 1 \in 0..Len(s)
    BY <1>1
  <2>2. NameAt(s, j + 1) \in N
    BY <1>2, <2>1, RenewedTail
  <2>3. Renewed(s, j + 1, X, U) \/ ~Upset(s, j + 1, U)
    BY <2>1, <2>2 DEF Sound
  <2> QED BY <2>1, <2>3, RenewedTail
<1>3. ASSUME NEW j \in 0..Len(Tail(s)), NameAt(Tail(s), j) \in N, ~Renewed(Tail(s), j, X, U)
      PROVE  Head(s) \in X \/ (Relies(s, N, X, U) /\ Head(s)[1] \notin U)
  <2>1. j \in 0..(Len(s) - 1) /\ j + 1 \in 0..Len(s)
    BY <1>1
  <2>2. NameAt(s, j + 1) \in N
    BY <1>3, <2>1, RenewedTail
  <2>3. CASE Renewed(s, j + 1, X, U)
    BY <1>3, <2>1, <2>3, RenewedTail
  <2>4. CASE ~Renewed(s, j + 1, X, U)
    <3>1. Relies(s, N, X, U) /\ ~Upset(s, j + 1, U)
      BY <2>1, <2>2, <2>4 DEF Relies, Sound
    <3> QED BY <2>1, <3>1, RenewedTail
  <2> QED BY <2>3, <2>4
<1> QED BY <1>2, <1>3 DEF Sound, Relies

-----------------------------------------------------------------------------
(* Programs that are put together.                                         *)

\* What comes first and what comes after.
LEMMA Positions ==
  ASSUME NEW S, NEW s \in Seq(S), NEW t \in Seq(S)
  PROVE  /\ Len(s) \in Nat /\ Len(s \o t) = Len(s) + Len(t) /\ DOMAIN (s \o t) = 1..(Len(s) + Len(t))
         /\ \A i \in DOMAIN (s \o t) :
              \/ i \in DOMAIN s /\ (s \o t)[i] = s[i]
              \/ i > Len(s) /\ i - Len(s) \in DOMAIN t /\ (s \o t)[i] = t[i - Len(s)]
<1>1. /\ s \o t \in Seq(S) /\ Len(s) \in Nat /\ Len(t) \in Nat
      /\ DOMAIN s = 1..Len(s) /\ DOMAIN t = 1..Len(t) /\ DOMAIN (s \o t) = 1..(Len(s) + Len(t))
      /\ Len(s \o t) = Len(s) + Len(t)
      /\ \A i \in 1..Len(s) : (s \o t)[i] = s[i]
      /\ \A i \in 1..Len(t) : (s \o t)[i + Len(s)] = t[i]
  BY ConcatProperties, LenProperties
<1>2. ASSUME NEW i \in 1..(Len(s) + Len(t)), i > Len(s)
      PROVE  i - Len(s) \in 1..Len(t) /\ (s \o t)[i] = t[i - Len(s)]
  <2>1. i - Len(s) \in 1..Len(t) /\ (i - Len(s)) + Len(s) = i
    BY <1>1, <1>2
  <2> QED BY <1>1, <2>1
<1>3. \A i \in 1..(Len(s) + Len(t)) : i > Len(s) \/ i \in 1..Len(s)
  BY <1>1
<1> QED BY <1>1, <1>2, <1>3

\* The steps of a whole are those of its parts.
LEMMA NamesConcat ==
  ASSUME NEW S, NEW s \in Seq(S), NEW t \in Seq(S)
  PROVE  s \o t \in Seq(S) /\ Names(s \o t) = Names(s) \cup Names(t)
<1>1. /\ s \o t \in Seq(S) /\ Len(s) \in Nat /\ Len(t) \in Nat
      /\ DOMAIN s = 1..Len(s) /\ DOMAIN t = 1..Len(t) /\ DOMAIN (s \o t) = 1..(Len(s) + Len(t))
      /\ \A i \in 1..Len(s) : (s \o t)[i] = s[i]
      /\ \A i \in 1..Len(t) : (s \o t)[i + Len(s)] = t[i]
  BY ConcatProperties, LenProperties
<1>2. ASSUME NEW i \in 1..(Len(s) + Len(t)) PROVE (s \o t)[i][1] \in Names(s) \cup Names(t)
  <2>1. CASE i <= Len(s)
    BY <1>1, <2>1 DEF Names
  <2>2. CASE i > Len(s)
    <3>1. i - Len(s) \in 1..Len(t) /\ (i - Len(s)) + Len(s) = i
      BY <1>1, <2>2
    <3> QED BY <1>1, <3>1 DEF Names
  <2> QED BY <1>1, <2>1, <2>2
<1>3. ASSUME NEW i \in 1..Len(s) PROVE s[i][1] \in Names(s \o t)
  BY <1>1 DEF Names
<1>4. ASSUME NEW i \in 1..Len(t) PROVE t[i][1] \in Names(s \o t)
  <2>1. i + Len(s) \in 1..(Len(s) + Len(t))
    BY <1>1
  <2> QED BY <1>1, <2>1 DEF Names
<1>5. Names(s \o t) \subseteq Names(s) \cup Names(t)
  BY <1>1, <1>2 DEF Names
<1>6. Names(s) \subseteq Names(s \o t) /\ Names(t) \subseteq Names(s \o t)
  BY <1>1, <1>3, <1>4 DEF Names
<1> QED BY <1>1, <1>5, <1>6

\* What comes before the last part is in the first one.
LEMMA Preceded ==
  ASSUME NEW S, NEW s \in Seq(S), NEW t \in Seq(S), NEW i \in DOMAIN (s \o t), i + Len(t) <= Len(s \o t)
  PROVE  (s \o t)[i][1] \in Names(s)
<1>1. Len(s) \in Nat /\ Len(t) \in Nat /\ Len(s \o t) = Len(s) + Len(t) /\ i \in Nat
  BY Positions
<1>2. ~(i > Len(s))
  BY <1>1
<1>3. i \in DOMAIN s /\ (s \o t)[i] = s[i]
  BY <1>2, Positions
<1> QED BY <1>3 DEF Names

\* A step that only the last part has, a single one, comes last.
LEMMA ComesLast ==
  ASSUME NEW S, NEW s \in Seq(S), NEW t \in Seq(S), Len(t) = 1,
         NEW n, n \notin Names(s), NEW i \in DOMAIN (s \o t), (s \o t)[i][1] = n
  PROVE  i = Len(s \o t)
<1>1. Len(s) \in Nat /\ Len(s \o t) = Len(s) + 1 /\ i \in 1..(Len(s) + 1)
  BY Positions
<1>2. i > Len(s)
  <2>1. i \in DOMAIN s /\ (s \o t)[i] = s[i] => FALSE
    BY DEF Names
  <2> QED BY <2>1, Positions
<1> QED BY <1>1, <1>2

\* A step that the second part has not, and the first one at its start, comes first.
LEMMA ComesFirst ==
  ASSUME NEW S, NEW s \in Seq(S), NEW t \in Seq(S), NEW n, n \notin Names(t),
         NEW x, \A i \in DOMAIN s : s[i][1] = n => i = 1 /\ s[i] = x
  PROVE  \A i \in DOMAIN (s \o t) : (s \o t)[i][1] = n => i = 1 /\ (s \o t)[i] = x
<1>1. ASSUME NEW i \in DOMAIN (s \o t), (s \o t)[i][1] = n
      PROVE  i = 1 /\ (s \o t)[i] = x
  <2>1. CASE i \in DOMAIN s /\ (s \o t)[i] = s[i]
    BY <1>1, <2>1
  <2>2. CASE i - Len(s) \in DOMAIN t /\ (s \o t)[i] = t[i - Len(s)]
    BY <1>1, <2>2 DEF Names
  <2> QED BY <2>1, <2>2, Positions
<1> QED BY <1>1

\* A step that neither part has is not in the whole.
LEMMA Without ==
  ASSUME NEW S, NEW s \in Seq(S), NEW t \in Seq(S), NEW n, n \notin Names(s), n \notin Names(t)
  PROVE  s \o t \in Seq(S) /\ n \notin Names(s \o t)
BY NamesConcat

\* The places of the first part, and those of the second.
LEMMA PlacesConcat ==
  ASSUME NEW S, NEW s \in Seq(S), NEW t \in Seq(S), NEW X, NEW U
  PROVE  /\ Len(s) \in Nat /\ Len(t) \in Nat /\ Len(s \o t) = Len(s) + Len(t)
         /\ \A j \in 0..Len(s) :
              /\ Renewed(s \o t, j, X, U) <=> Renewed(s, j, X, U)
              /\ Upset(s \o t, j, U) <=> Upset(s, j, U)
         /\ \A j \in 0..(Len(s) - 1) : \A N : NameAt(s \o t, j) \in N <=> NameAt(s, j) \in N
         /\ \A j \in 0..Len(t) : \A N : NameAt(s \o t, Len(s) + j) \in N <=> NameAt(t, j) \in N
         /\ \A j \in 0..Len(t) :
              /\ Renewed(s \o t, Len(s) + j, X, U)
                 <=> Renewed(t, j, X, U) \/ (Leaves(s, X, U) /\ ~Upset(t, j, U))
              /\ Upset(s \o t, Len(s) + j, U) <=> Upset(s, Len(s), U) \/ Upset(t, j, U)
<1> DEFINE n == Len(s)
<1>1. /\ n \in Nat /\ Len(t) \in Nat /\ Len(s \o t) = n + Len(t)
      /\ \A i \in 1..n : (s \o t)[i] = s[i]
      /\ \A i \in 1..Len(t) : (s \o t)[n + i] = t[i]
      /\ \A i \in (n + 1)..(n + Len(t)) : (s \o t)[i] = t[i - n]
  BY ConcatProperties, LenProperties
<1> HIDE DEF n
<1>2. ASSUME NEW j \in 0..n
      PROVE  /\ Renewed(s \o t, j, X, U) <=> Renewed(s, j, X, U)
             /\ Upset(s \o t, j, U) <=> Upset(s, j, U)
  <2>1. 1..j \subseteq 1..n /\ \A i \in 1..j : (i + 1)..j \subseteq 1..n
    BY <1>1
  <2>2. \A i \in 1..j : (s \o t)[i] = s[i]
    BY <1>1, <2>1
  <2>3. \A i \in 1..j : \A k \in (i + 1)..j : (s \o t)[k] = s[k]
    BY <1>1, <2>1
  <2> QED BY <2>2, <2>3 DEF Renewed, Upset
<1>3. ASSUME NEW j \in 0..(n - 1), NEW N
      PROVE  NameAt(s \o t, j) \in N <=> NameAt(s, j) \in N
  BY <1>1 DEF NameAt, n
<1>4. ASSUME NEW j \in 0..Len(t), NEW N PROVE NameAt(s \o t, n + j) \in N <=> NameAt(t, j) \in N
  <2>1. (n + j) + 1 = n + (j + 1) /\ (n + j < n + Len(t) <=> j < Len(t))
    BY <1>1
  <2>2. j < Len(t) => (s \o t)[n + (j + 1)] = t[j + 1]
    BY <1>1
  <2> QED BY <1>1, <2>1, <2>2 DEF NameAt
<1>5. ASSUME NEW j \in 0..Len(t)
      PROVE  Upset(s \o t, n + j, U) <=> Upset(s, n, U) \/ Upset(t, j, U)
  <2>1. ASSUME NEW k \in 1..(n + j), (s \o t)[k][1] \in U PROVE Upset(s, n, U) \/ Upset(t, j, U)
    <3>1. CASE k <= n
      BY <1>1, <2>1, <3>1 DEF Upset
    <3>2. CASE k > n
      <4>1. k - n \in 1..j /\ t[k - n][1] \in U
        BY <1>1, <2>1, <3>2
      <4> QED BY <4>1 DEF Upset
    <3> QED BY <1>1, <3>1, <3>2
  <2>2. ASSUME NEW k \in 1..n, s[k][1] \in U PROVE Upset(s \o t, n + j, U)
    <3>1. k \in 1..(n + j)
      BY <1>1
    <3> QED BY <1>1, <2>2, <3>1 DEF Upset
  <2>3. ASSUME NEW k \in 1..j, t[k][1] \in U PROVE Upset(s \o t, n + j, U)
    <3>1. n + k \in 1..(n + j) /\ (s \o t)[n + k] = t[k]
      BY <1>1
    <3> QED BY <2>3, <3>1 DEF Upset
  <2> QED BY <2>1, <2>2, <2>3 DEF Upset
<1>6. ASSUME NEW j \in 0..Len(t), Renewed(s \o t, n + j, X, U)
      PROVE  Renewed(t, j, X, U) \/ (Leaves(s, X, U) /\ ~Upset(t, j, U))
  <2>1. PICK i \in 1..(n + j) : (s \o t)[i] \in X /\ \A k \in (i + 1)..(n + j) : (s \o t)[k][1] \notin U
    BY <1>6 DEF Renewed
  <2>2. CASE i <= n
    <3>1. \A k \in 1..j : n + k \in (i + 1)..(n + j) /\ (s \o t)[n + k] = t[k]
      BY <1>1, <2>2
    <3>2. \A k \in (i + 1)..n : k \in (i + 1)..(n + j) /\ (s \o t)[k] = s[k]
      BY <1>1, <2>2
    <3>3. i \in 1..n /\ s[i] \in X
      BY <1>1, <2>1, <2>2
    <3>4. \A k \in (i + 1)..n : s[k][1] \notin U
      BY <2>1, <3>2
    <3>5. \A k \in 1..j : t[k][1] \notin U
      BY <2>1, <3>1
    <3> QED BY <3>3, <3>4, <3>5 DEF Leaves, Renewed, Upset, n
  <2>3. CASE i > n
    <3>1. i - n \in 1..j /\ t[i - n] \in X
      BY <1>1, <2>1, <2>3
    <3>2. ASSUME NEW k \in ((i - n) + 1)..j PROVE t[k][1] \notin U
      <4>1. n + k \in (i + 1)..(n + j) /\ (s \o t)[n + k] = t[k]
        BY <1>1, <2>3
      <4> QED BY <2>1, <4>1
    <3> QED BY <3>1, <3>2 DEF Renewed
  <2> QED BY <1>1, <2>2, <2>3
<1>7. ASSUME NEW j \in 0..Len(t), Renewed(t, j, X, U) PROVE Renewed(s \o t, n + j, X, U)
  <2>1. PICK i \in 1..j : t[i] \in X /\ \A k \in (i + 1)..j : t[k][1] \notin U
    BY <1>7 DEF Renewed
  <2>2. n + i \in 1..(n + j) /\ (s \o t)[n + i] \in X
    BY <1>1, <2>1
  <2>3. ASSUME NEW k \in ((n + i) + 1)..(n + j) PROVE (s \o t)[k][1] \notin U
    <3>1. k - n \in (i + 1)..j /\ (s \o t)[k] = t[k - n]
      BY <1>1
    <3> QED BY <2>1, <3>1
  <2> QED BY <2>2, <2>3 DEF Renewed
<1>8. ASSUME NEW j \in 0..Len(t), Leaves(s, X, U), ~Upset(t, j, U) PROVE Renewed(s \o t, n + j, X, U)
  <2>1. PICK i \in 1..n : s[i] \in X /\ \A k \in (i + 1)..n : s[k][1] \notin U
    BY <1>8 DEF Leaves, Renewed, n
  <2>2. i \in 1..(n + j) /\ (s \o t)[i] \in X
    BY <1>1, <2>1
  <2>3. ASSUME NEW k \in (i + 1)..(n + j) PROVE (s \o t)[k][1] \notin U
    <3>1. CASE k <= n
      <4>1. k \in (i + 1)..n /\ (s \o t)[k] = s[k]
        BY <1>1, <3>1
      <4> QED BY <2>1, <4>1
    <3>2. CASE k > n
      <4>1. k - n \in 1..j /\ (s \o t)[k] = t[k - n]
        BY <1>1, <3>2
      <4> QED BY <1>8, <4>1 DEF Upset
    <3> QED BY <1>1, <3>1, <3>2
  <2> QED BY <2>2, <2>3 DEF Renewed
<1> QED BY <1>1, <1>2, <1>3, <1>4, <1>5, <1>6, <1>7, <1>8 DEF n

\* No step is named like the end, which is that of the second part.
LEMMA NeededConcat ==
  ASSUME NEW S, NEW s \in Seq(S), NEW t \in Seq(S), NEW N, "end" \notin Names(s)
  PROVE  /\ \A j \in 0..(Len(s) - 1) : NameAt(s \o t, j) \in N <=> NameAt(s, j) \in N \ {"end"}
         /\ \A j \in 0..Len(s \o t) : j \in 0..(Len(s) - 1) \/ \E i \in 0..Len(t) : j = Len(s) + i
         /\ \A N2 : NameAt(s, Len(s)) \notin N2 \ {"end"}
<1>1. ASSUME NEW j \in 0..(Len(s) - 1)
      PROVE  NameAt(s \o t, j) \in N <=> NameAt(s, j) \in N \ {"end"}
  <2>1. NameAt(s, j) \in Names(s)
    BY LenProperties DEF NameAt, Names
  <2> QED BY <2>1, PlacesConcat
<1>2. ASSUME NEW j \in 0..Len(s \o t), j \notin 0..(Len(s) - 1)
      PROVE  \E i \in 0..Len(t) : j = Len(s) + i
  <2>1. j - Len(s) \in 0..Len(t) /\ j = Len(s) + (j - Len(s))
    BY <1>2, PlacesConcat
  <2> QED BY <2>1
<1>3. \A N2 : NameAt(s, Len(s)) \notin N2 \ {"end"}
  BY PlacesConcat DEF NameAt
<1> QED BY <1>1, <1>2, <1>3

\* The parts are sound, and the first establishes what the second relies on or leaves it
\* alone.
LEMMA SoundConcat ==
  ASSUME NEW S, NEW s \in Seq(S), NEW t \in Seq(S), NEW N, NEW X, NEW U,
         "end" \notin Names(s), Sound(s, N \ {"end"}, X, U), Sound(t, N, X, U),
         Leaves(s, X, U) \/ Names(s) \cap U = {} \/ ~Relies(t, N, X, U)
  PROVE  Sound(s \o t, N, X, U)
<1>1. ASSUME NEW j \in 0..(Len(s) - 1), NameAt(s \o t, j) \in N
      PROVE  Renewed(s \o t, j, X, U) \/ ~Upset(s \o t, j, U)
  <2>1. NameAt(s, j) \in N \ {"end"}
    BY <1>1, NeededConcat
  <2>2. j \in 0..Len(s)
    BY LenProperties
  <2>3. Renewed(s, j, X, U) \/ ~Upset(s, j, U)
    BY <2>1, <2>2 DEF Sound
  <2> QED BY <2>2, <2>3, PlacesConcat
<1>2. ASSUME NEW j \in 0..Len(t), NameAt(s \o t, Len(s) + j) \in N
      PROVE  Renewed(s \o t, Len(s) + j, X, U) \/ ~Upset(s \o t, Len(s) + j, U)
  <2>1. NameAt(t, j) \in N
    BY <1>2, PlacesConcat
  <2>2. Renewed(t, j, X, U) \/ (~Upset(t, j, U) /\ Relies(t, N, X, U))
    BY <2>1 DEF Sound, Relies
  <2>3. Names(s) \cap U = {} => ~Upset(s, Len(s), U)
    BY LenProperties DEF Upset, Names
  <2> QED BY <2>2, <2>3, PlacesConcat
<1> QED BY <1>1, <1>2, NeededConcat DEF Sound

\* The whole does not rely on a fact that the first part does not need and leaves to the
\* second, or that neither relies on.
LEMMA ReliesConcat ==
  ASSUME NEW S, NEW s \in Seq(S), NEW t \in Seq(S), NEW N, NEW X, NEW U,
         "end" \notin Names(s), ~Relies(s, N \ {"end"}, X, U),
         ~Relies(t, N, X, U) \/ (Leaves(s, X, U) /\ Sound(t, N, X, U))
  PROVE  ~Relies(s \o t, N, X, U)
<1>1. ASSUME NEW j \in 0..(Len(s) - 1), NameAt(s \o t, j) \in N
      PROVE  Renewed(s \o t, j, X, U)
  <2>1. NameAt(s, j) \in N \ {"end"}
    BY <1>1, NeededConcat
  <2>2. j \in 0..Len(s)
    BY LenProperties
  <2> QED BY <2>1, <2>2, PlacesConcat DEF Relies
<1>2. ASSUME NEW j \in 0..Len(t), NameAt(s \o t, Len(s) + j) \in N
      PROVE  Renewed(s \o t, Len(s) + j, X, U)
  <2>1. NameAt(t, j) \in N
    BY <1>2, PlacesConcat
  <2>2. Renewed(t, j, X, U) \/ (Leaves(s, X, U) /\ ~Upset(t, j, U))
    BY <2>1 DEF Sound, Relies
  <2> QED BY <2>2, PlacesConcat
<1> QED BY <1>1, <1>2, NeededConcat DEF Relies

\* What the whole establishes: the second part does, or the first does and the second does
\* not upset it.
LEMMA LeavesConcat ==
  ASSUME NEW S, NEW s \in Seq(S), NEW t \in Seq(S), NEW X, NEW U,
         Leaves(t, X, U) \/ (Leaves(s, X, U) /\ Names(t) \cap U = {})
  PROVE  Leaves(s \o t, X, U)
<1>1. Names(t) \cap U = {} => ~Upset(t, Len(t), U)
  BY LenProperties DEF Upset, Names
<1>2. Len(t) \in 0..Len(t)
  BY LenProperties
<1>3. /\ Len(s \o t) = Len(s) + Len(t)
      /\ Renewed(s \o t, Len(s) + Len(t), X, U)
         <=> Renewed(t, Len(t), X, U) \/ (Leaves(s, X, U) /\ ~Upset(t, Len(t), U))
  BY <1>2, PlacesConcat
<1> QED BY <1>1, <1>3 DEF Leaves

\* A program that needs the fact nowhere, and one that upsets it nowhere.
LEMMA NothingNeeded ==
  ASSUME NEW S, NEW s \in Seq(S), NEW N, NEW X, NEW U, Names(s) \cap N = {}, "end" \notin N
  PROVE  Sound(s, N, X, U) /\ ~Relies(s, N, X, U)
<1>1. ASSUME NEW j \in 0..Len(s) PROVE NameAt(s, j) \notin N
  BY LenProperties DEF NameAt, Names
<1> QED BY <1>1 DEF Sound, Relies

\* A program that upsets a fact nowhere is sound about it.
LEMMA NothingUpset ==
  ASSUME NEW S, NEW s \in Seq(S), NEW N, NEW X, NEW U, Names(s) \cap U = {}
  PROVE  Sound(s, N, X, U)
<1>1. ASSUME NEW j \in 0..Len(s) PROVE ~Upset(s, j, U)
  BY LenProperties DEF Upset, Names
<1> QED BY <1>1 DEF Sound
-----------------------------------------------------------------------------
(* What a part of a program does to a number of facts at once.             *)

\* F names the facts, and gives the steps that need, establish and upset each.  A part of
\* a program is sound; it relies on no fact but those in needs, it leaves those in gives,
\* and upsets no others than those in upsets.
Summary(F, s, needs, gives, upsets) ==
  /\ "end" \notin Names(s)
  /\ \A k \in DOMAIN F :
       /\ Sound(s, F[k][1] \ {"end"}, F[k][2], F[k][3])
       /\ Relies(s, F[k][1] \ {"end"}, F[k][2], F[k][3]) => k \in needs
       /\ k \in gives => Leaves(s, F[k][2], F[k][3])
       /\ k \notin upsets => Names(s) \cap F[k][3] = {}

\* One part after another: what the second relies on is given by the first, or was not
\* upset by it.
LEMMA SummaryConcat ==
  ASSUME NEW S, NEW s \in Seq(S), NEW t \in Seq(S), NEW F,
         NEW n1, NEW g1, NEW u1, Summary(F, s, n1, g1, u1),
         NEW n2, NEW g2, NEW u2, Summary(F, t, n2, g2, u2),
         n2 \cap u1 \subseteq g1,
         NEW n, NEW g, NEW u, n1 \cup (n2 \ g1) \subseteq n, g \subseteq g2 \cup (g1 \ u2), u1 \cup u2 \subseteq u
  PROVE  s \o t \in Seq(S) /\ Summary(F, s \o t, n, g, u)
<1>1. s \o t \in Seq(S) /\ Names(s \o t) = Names(s) \cup Names(t)
  BY NamesConcat
<1>2. "end" \notin Names(s) /\ "end" \notin Names(s \o t)
  BY <1>1 DEF Summary
<1>3. ASSUME NEW k \in DOMAIN F
      PROVE  /\ Sound(s \o t, F[k][1] \ {"end"}, F[k][2], F[k][3])
             /\ Relies(s \o t, F[k][1] \ {"end"}, F[k][2], F[k][3]) => k \in n1 \cup (n2 \ g1)
             /\ k \in g2 \cup (g1 \ u2) => Leaves(s \o t, F[k][2], F[k][3])
             /\ k \notin u1 \cup u2 => Names(s \o t) \cap F[k][3] = {}
  <2> DEFINE N == F[k][1] \ {"end"}
             X == F[k][2]
             U == F[k][3]
  <2>1. /\ Sound(s, N, X, U) /\ (Relies(s, N, X, U) => k \in n1)
        /\ k \in g1 => Leaves(s, X, U)
        /\ k \notin u1 => Names(s) \cap U = {}
    BY DEF Summary
  <2>2. /\ Sound(t, N, X, U) /\ (Relies(t, N, X, U) => k \in n2)
        /\ k \in g2 => Leaves(t, X, U)
        /\ k \notin u2 => Names(t) \cap U = {}
    BY DEF Summary
  <2>3. N \ {"end"} = N
    OBVIOUS
  <2> HIDE DEF N, X, U
  <2>4. Sound(s \o t, N, X, U)
    BY <1>2, <2>1, <2>2, <2>3, SoundConcat
  <2>5. Relies(s \o t, N, X, U) => k \in n1 \cup (n2 \ g1)
    <3>1. SUFFICES ASSUME k \notin n1 \cup (n2 \ g1) PROVE ~Relies(s \o t, N, X, U)
      OBVIOUS
    <3> QED BY <1>2, <2>1, <2>2, <2>3, <3>1, ReliesConcat
  <2>6. k \in g2 \cup (g1 \ u2) => Leaves(s \o t, X, U)
    BY <2>1, <2>2, LeavesConcat
  <2> QED BY <1>1, <2>1, <2>2, <2>4, <2>5, <2>6 DEF N, X, U
<1>4. ASSUME NEW k \in DOMAIN F
      PROVE  /\ Sound(s \o t, F[k][1] \ {"end"}, F[k][2], F[k][3])
             /\ Relies(s \o t, F[k][1] \ {"end"}, F[k][2], F[k][3]) => k \in n
             /\ k \in g => Leaves(s \o t, F[k][2], F[k][3])
             /\ k \notin u => Names(s \o t) \cap F[k][3] = {}
  BY <1>3
<1> QED BY <1>1, <1>2, <1>4 DEF Summary

\* What is said of a part can be said more loosely.
LEMMA SummaryWeaker ==
  ASSUME NEW F, NEW s, NEW n1, NEW g1, NEW u1, Summary(F, s, n1, g1, u1),
         NEW n, NEW g, NEW u, n1 \subseteq n, g \subseteq g1, u1 \subseteq u
  PROVE  Summary(F, s, n, g, u)
BY DEF Summary

\* No step.
LEMMA SummaryNone ==
  ASSUME NEW F
  PROVE  Summary(F, << >>, {}, {}, {})
<1>1. ASSUME NEW k \in DOMAIN F
      PROVE  Sound(<< >>, F[k][1] \ {"end"}, F[k][2], F[k][3]) /\ ~Relies(<< >>, F[k][1] \ {"end"}, F[k][2], F[k][3])
  BY ReliesOver
<1>2. Names(<< >>) = {}
  BY DEF Names
<1> QED BY <1>1, <1>2 DEF Summary

\* A single step.
LEMMA SummaryOne ==
  ASSUME NEW F, NEW n, NEW a, n # "end", NEW needs, NEW gives, NEW upsets,
         \A k \in DOMAIN F :
           /\ n \in F[k][1] => k \in needs
           /\ k \in gives => <<n, a>> \in F[k][2]
           /\ n \in F[k][3] => k \in upsets
  PROVE  Summary(F, << <<n, a>> >>, needs, gives, upsets)
<1> DEFINE s == << <<n, a>> >>
<1>1. Names(s) = {n} /\ Len(s) = 1 /\ s[1] = <<n, a>> /\ s[1][1] = n
  BY DEF Names
<1> HIDE DEF s
<1>2. ASSUME NEW k \in DOMAIN F
      PROVE  /\ Sound(s, F[k][1] \ {"end"}, F[k][2], F[k][3])
             /\ Relies(s, F[k][1] \ {"end"}, F[k][2], F[k][3]) => n \in F[k][1]
             /\ <<n, a>> \in F[k][2] => Leaves(s, F[k][2], F[k][3])
             /\ n \notin F[k][3] => Names(s) \cap F[k][3] = {}
  <2>1. \A j \in 0..1 :
          /\ NameAt(s, j) \in F[k][1] \ {"end"} => j = 0 /\ n \in F[k][1]
          /\ j = 0 => ~Upset(s, j, F[k][3])
    BY <1>1 DEF NameAt, Upset
  <2>2. <<n, a>> \in F[k][2] => Renewed(s, 1, F[k][2], F[k][3])
    BY <1>1 DEF Renewed
  <2> QED BY <1>1, <2>1, <2>2 DEF Sound, Relies, Leaves
<1>3. ASSUME NEW k \in DOMAIN F
      PROVE  /\ Sound(s, F[k][1] \ {"end"}, F[k][2], F[k][3])
             /\ Relies(s, F[k][1] \ {"end"}, F[k][2], F[k][3]) => k \in needs
             /\ k \in gives => Leaves(s, F[k][2], F[k][3])
             /\ k \notin upsets => Names(s) \cap F[k][3] = {}
  <2>1. /\ n \in F[k][1] => k \in needs
        /\ k \in gives => <<n, a>> \in F[k][2]
        /\ n \in F[k][3] => k \in upsets
    OBVIOUS
  <2> QED BY <1>2, <2>1
<1>4. "end" \notin Names(s)
  BY <1>1
<1> QED BY <1>3, <1>4 DEF Summary, s

\* The same step for each of a sequence of arguments.
LEMMA SummaryEach ==
  ASSUME NEW F, NEW n, n # "end", NEW S, NEW s \in Seq(S), \A i \in DOMAIN s : s[i][1] = n,
         NEW w, \E i \in DOMAIN s : s[i] = <<n, w>>,
         NEW needs, NEW gives, NEW upsets,
         \A k \in DOMAIN F :
           /\ n \notin F[k][1] \/ n \notin F[k][3]
           /\ n \in F[k][1] => k \in needs
           /\ k \in gives => n \notin F[k][3] /\ <<n, w>> \in F[k][2]
           /\ n \in F[k][3] => k \in upsets
  PROVE  Summary(F, s, needs, gives, upsets)
<1>1. Len(s) \in Nat /\ DOMAIN s = 1..Len(s)
  BY LenProperties
<1>2. Names(s) \subseteq {n}
  BY <1>1 DEF Names
<1>3. ASSUME NEW k \in DOMAIN F
      PROVE  /\ Sound(s, F[k][1] \ {"end"}, F[k][2], F[k][3])
             /\ Relies(s, F[k][1] \ {"end"}, F[k][2], F[k][3]) => n \in F[k][1]
             /\ n \notin F[k][3] /\ <<n, w>> \in F[k][2]
                => Leaves(s, F[k][2], F[k][3])
             /\ n \notin F[k][3] => Names(s) \cap F[k][3] = {}
  <2> DEFINE N == F[k][1] \ {"end"}
             X == F[k][2]
             U == F[k][3]
  <2>0. n \notin F[k][1] \/ n \notin F[k][3]
    OBVIOUS
  <2>4. n \notin N \/ n \notin U
    BY <2>0
  <2> HIDE DEF N, X, U
  <2>1. n \notin N => Sound(s, N, X, U) /\ ~Relies(s, N, X, U)
    <3>1. "end" \notin N
      BY DEF N
    <3> QED BY <1>1, <1>2, <3>1, NothingNeeded
  <2>2. n \notin U => Sound(s, N, X, U)
    BY <1>1, <1>2, NothingUpset
  <2>3. ASSUME n \notin U, NEW i \in DOMAIN s, s[i] = <<n, w>>, <<n, w>> \in X PROVE Renewed(s, Len(s), X, U)
    <3>1. i \in 1..Len(s) /\ s[i] \in X
      BY <1>1, <2>3
    <3>2. \A j \in (i + 1)..Len(s) : j \in DOMAIN s
      BY <1>1, <3>1
    <3> QED BY <1>1, <2>3, <3>1, <3>2 DEF Renewed
  <2> QED BY <1>2, <2>1, <2>2, <2>3, <2>4 DEF Leaves, N, X, U
<1>4. ASSUME NEW k \in DOMAIN F
      PROVE  /\ Sound(s, F[k][1] \ {"end"}, F[k][2], F[k][3])
             /\ Relies(s, F[k][1] \ {"end"}, F[k][2], F[k][3]) => k \in needs
             /\ k \in gives => Leaves(s, F[k][2], F[k][3])
             /\ k \notin upsets => Names(s) \cap F[k][3] = {}
  <2>1. /\ n \in F[k][1] => k \in needs
        /\ k \in gives => n \notin F[k][3] /\ <<n, w>> \in F[k][2]
        /\ n \in F[k][3] => k \in upsets
    OBVIOUS
  <2> QED BY <1>3, <2>1
<1>5. "end" \notin Names(s)
  BY <1>2
<1> QED BY <1>4, <1>5 DEF Summary

\* A whole program: also what has to hold at its end is left, or not upset.
LEMMA SummaryWhole ==
  ASSUME NEW S, NEW s \in Seq(S), NEW F, NEW needs, NEW gives, NEW upsets,
         Summary(F, s, needs, gives, upsets), NEW k \in DOMAIN F,
         "end" \in F[k][1] => k \in gives \/ k \notin upsets
  PROVE  /\ Sound(s, F[k][1], F[k][2], F[k][3])
         /\ Relies(s, F[k][1], F[k][2], F[k][3]) => k \in needs \/ ("end" \in F[k][1] /\ k \notin gives)
<1> DEFINE N == F[k][1]
           X == F[k][2]
           U == F[k][3]
<1>1. /\ Sound(s, N \ {"end"}, X, U) /\ (Relies(s, N \ {"end"}, X, U) => k \in needs)
      /\ k \in gives => Renewed(s, Len(s), X, U)
      /\ k \notin upsets => Names(s) \cap U = {}
      /\ "end" \notin Names(s)
  BY DEF Summary, Leaves
<1>2. "end" \in N => k \in gives \/ k \notin upsets
  OBVIOUS
<1> HIDE DEF N, X, U
<1>3. Names(s) \cap U = {} => ~Upset(s, Len(s), U)
  BY LenProperties DEF Upset, Names
<1>4. ASSUME NEW j \in 0..Len(s), NameAt(s, j) \in N
      PROVE  NameAt(s, j) \in N \ {"end"} \/ (j = Len(s) /\ "end" \in N)
  BY <1>4, LenProperties, <1>1 DEF NameAt, Names
<1>5. Sound(s, N, X, U)
  BY <1>1, <1>2, <1>3, <1>4 DEF Sound
<1>6. Relies(s, N, X, U) => k \in needs \/ ("end" \in N /\ k \notin gives)
  BY <1>1, <1>4 DEF Relies
<1> QED BY <1>5, <1>6 DEF N, X, U
=============================================================================
