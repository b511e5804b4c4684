-------------------------------- MODULE Counting --------------------------------
(***************************************************************************)
(* Lemmas on natural numbers which the proofs of several components cite:  *)
(* remainders, which is what invoke ids are, and least members, which is   *)
(* how a fact about a list or a set is carried from one length to the      *)
(* next.                                                                   *)
(***************************************************************************)
EXTENDS Naturals, Integers, WellFoundedInduction, TLAPS

\* Dividing: what is left over is less than the divisor.
LEMMA Division ==
  ASSUME NEW M \in Nat \ {0}, NEW k \in Nat
  PROVE  /\ k % M \in 0..(M - 1)
         /\ \E a \in Int : M * a \in Int /\ k = M * a + (k % M)
<1>1. k = M * (k \div M) + (k % M) /\ k \div M \in Int /\ M * (k \div M) \in Int
  OBVIOUS
<1>2. k % M \in 0..(M - 1)
  OBVIOUS
<1>3. QED
  BY <1>1, <1>2

\* The only multiple of M between -M and M is 0.
LEMMA SmallMultiple ==
  ASSUME NEW M \in Nat \ {0}, NEW x \in Int, -M < M * x, M * x < M
  PROVE  M * x = 0
<1>1. M * x \in Int
  OBVIOUS
<1>2. CASE x >= 1
  <2>1. M * x >= M * 1
    BY <1>2
  <2>2. QED
    BY <2>1, <1>1
<1>3. CASE x <= -1
  <2>1. M * x <= M * (-1)
    BY <1>3
  <2>2. QED
    BY <2>1, <1>1
<1>4. CASE x = 0
  BY <1>4
<1>5. QED
  BY <1>2, <1>3, <1>4

\* Within a round of invoke ids, two requests with the same id are one.
LEMMA SameIdSameRequest ==
  ASSUME NEW M \in Nat \ {0}, NEW k \in Nat, NEW m \in Nat,
         k <= m, m < k + M, k % M = m % M
  PROVE  k = m
<1>1. PICK a \in Int : M * a \in Int /\ k = M * a + (k % M)
  BY Division
<1>2. PICK b \in Int : M * b \in Int /\ m = M * b + (m % M)
  BY Division
<1>3. M * (b - a) = M * b - M * a
  OBVIOUS
<1>4. M * (b - a) = 0
  BY <1>1, <1>2, <1>3, SmallMultiple
<1>5. k % M \in Int /\ m % M \in Int
  BY Division
<1>6. QED
  BY <1>1, <1>2, <1>3, <1>4, <1>5

\* Counting on within the ids is counting on among the requests.
LEMMA NextId ==
  ASSUME NEW M \in Nat \ {0}, NEW k \in Nat
  PROVE  ((k % M) + 1) % M = (k + 1) % M
<1> DEFINE r == k % M
           s == (r + 1) % M
           t == (k + 1) % M
<1>1. r \in 0..(M - 1) /\ r + 1 \in Nat /\ k + 1 \in Nat
  BY Division
<1>2. s \in 0..(M - 1) /\ t \in 0..(M - 1)
  BY <1>1, Division
<1>3. PICK a \in Int : M * a \in Int /\ k = M * a + r
  BY Division
<1>4. PICK b \in Int : M * b \in Int /\ r + 1 = M * b + s
  <2> HIDE DEF r
  <2>1. QED
    BY <1>1, Division
<1>5. PICK d \in Int : M * d \in Int /\ k + 1 = M * d + t
  BY <1>1, Division
<1> HIDE DEF r, s, t
<1>6. M * (d - a - b) = M * d - M * a - M * b
  OBVIOUS
<1>7. M * (d - a - b) = s - t
  BY <1>1, <1>2, <1>3, <1>4, <1>5, <1>6
<1>8. M * (d - a - b) = 0
  <2>1. -M < M * (d - a - b) /\ M * (d - a - b) < M
    BY <1>2, <1>7
  <2>2. QED
    BY <2>1, SmallMultiple
<1>9. s = t
  BY <1>2, <1>7, <1>8
<1>10. QED
  BY <1>9 DEF r, s, t

-----------------------------------------------------------------------------

\* A set of natural numbers that is not empty has a least member.
LEMMA LeastMember ==
  ASSUME NEW S, S \subseteq Nat, S # {}
  PROVE  \E k \in S : \A m \in S : k <= m
<1> DEFINE R == OpToRel(<, Nat)
<1>1. IsWellFoundedOn(R, Nat)
  BY NatLessThanWellFounded
<1>2. \A x, y \in Nat : y < x => <<y, x>> \in R
  BY DEF OpToRel
<1> HIDE DEF R
<1>3. PICK k \in S : \A m \in S : ~(<<m, k>> \in R)
  BY <1>1, WFMin
<1>4. ASSUME NEW m \in S PROVE k <= m
  <2>1. k \in Nat /\ m \in Nat
    OBVIOUS
  <2>2. ~(m < k)
    BY <2>1, <1>2, <1>3
  <2>3. QED
    BY <2>1, <2>2
<1>5. QED
  BY <1>4

\* Induction up to a bound: what 0 has, and k has whenever k - 1 has it, all
\* the numbers up to the bound have.
LEMMA UpTo ==
  ASSUME NEW N \in Nat, NEW S, 0 \in S,
         \A k \in 1..N : k - 1 \in S => k \in S
  PROVE  0..N \subseteq S
<1> DEFINE Rest == {k \in 0..N : k \notin S}
<1>1. SUFFICES ASSUME Rest # {} PROVE FALSE
  OBVIOUS
<1>2. PICK k \in Rest : \A m \in Rest : k <= m
  <2>1. Rest \subseteq Nat
    OBVIOUS
  <2> HIDE DEF Rest
  <2>2. QED
    BY <1>1, <2>1, LeastMember
<1>3. k \in 1..N
  OBVIOUS
<1>4. k - 1 \in 0..N /\ ~(k <= k - 1)
  BY <1>3
<1>5. k - 1 \in S
  BY <1>2, <1>4
<1>6. QED
  BY <1>3, <1>5
=============================================================================
