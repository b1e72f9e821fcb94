--------------------------- MODULE AscendingProofs ---------------------------
(***************************************************************************)
(* Induction over numbers, and what the operator of Ascending gives.  The   *)
(* induction theorems of the library take the formula as an operator; here  *)
(* it is a set, and the proof is by its least element, from the library's   *)
(* theorem on well-founded relations.                                       *)
(***************************************************************************)
EXTENDS Ascending, FiniteSetTheorems, TLAPS

LEMMA Below == \E R : IsWellFoundedOn(R, Nat) /\ \A x, y \in Nat : y < x => <<y, x>> \in R
<1>1. \A x, y \in Nat : y < x => <<y, x>> \in OpToRel(<, Nat)
  BY DEF OpToRel
<1> QED BY <1>1, NatLessThanWellFounded, Zenon

LEMMA LeastNumber ==
  ASSUME NEW T, T \subseteq Nat, T # {}
  PROVE  \E x \in T : \A y \in T : x <= y
<1>1. PICK R : IsWellFoundedOn(R, Nat) /\ \A x, y \in Nat : y < x => <<y, x>> \in R
  BY Below
<1>2. PICK x \in T : \A y \in T : ~ (<<y, x>> \in R)
  BY <1>1, WFMin
<1>3. \A y \in T : x \in Nat /\ y \in Nat /\ ~(y < x)
  BY <1>1, <1>2
<1> QED BY <1>3

LEMMA Induction ==
  ASSUME NEW S, 0 \in S, \A n \in Nat : n \in S => n + 1 \in S
  PROVE  Nat \subseteq S
<1>1. CASE Nat \ S # {}
  <2>1. PICK x \in Nat \ S : \A y \in Nat \ S : x <= y
    BY <1>1, LeastNumber
  <2>2. x - 1 \in Nat /\ x - 1 \in S
    BY <2>1
  <2> QED BY <2>1, <2>2
<1> QED BY <1>1
-----------------------------------------------------------------------------
(* o lists the members of T from the least to the greatest. *)
Lists(o, k, T) ==
  /\ o \in [1..k -> T]
  /\ \A a, b \in 1..k : a < b => o[a] < o[b]
  /\ \A x \in T : \E a \in 1..k : o[a] = x

LEMMA Listed == \A n \in Nat : \A T \in SUBSET (1..n) : \E k \in Nat : \E o : Lists(o, k, T)
<1> DEFINE S == {n \in Nat : \A T \in SUBSET (1..n) : \E k \in Nat : \E o : Lists(o, k, T)}
<1>1. 0 \in S
  <2> SUFFICES ASSUME NEW T \in SUBSET (1..0) PROVE \E k \in Nat : \E o : Lists(o, k, T)
    OBVIOUS
  <2>1. T = {}
    OBVIOUS
  <2>2. Lists([a \in 1..0 |-> 0], 0, T)
    BY <2>1 DEF Lists
  <2> QED BY <2>2
<1>2. ASSUME NEW n \in Nat, n \in S PROVE n + 1 \in S
  <2> SUFFICES ASSUME NEW T \in SUBSET (1..(n + 1)) PROVE \E k \in Nat : \E o : Lists(o, k, T)
    OBVIOUS
  <2> DEFINE R == T \ {n + 1}
  <2>1. R \in SUBSET (1..n) /\ R \subseteq T
    OBVIOUS
  <2>2. PICK k \in Nat : \E o : Lists(o, k, R)
    BY <1>2, <2>1
  <2>o. PICK o : Lists(o, k, R)
    BY <2>2
  <2>3. CASE n + 1 \notin T
    <3>1. R = T
      BY <2>3
    <3> QED BY <2>o, <3>1
  <2>4. CASE n + 1 \in T
    <3> DEFINE q == [a \in 1..(k + 1) |-> IF a = k + 1 THEN n + 1 ELSE o[a]]
    <3> DEFINE I == 1..k
               J == 1..(k + 1)
    <3>i. \A a \in J : a \in I \/ a = k + 1
      OBVIOUS
    <3>j. \A a \in I : a \in J /\ a # k + 1
      OBVIOUS
    <3>k. q = [a \in J |-> IF a = k + 1 THEN n + 1 ELSE o[a]] /\ k + 1 \in J
      OBVIOUS
    <3>o. o \in [I -> R]
      BY <2>o DEF Lists
    <3>1. \A a \in 1..k : q[a] = o[a] /\ o[a] \in R /\ o[a] \in 1..n /\ a \in 1..(k + 1)
      <4> HIDE DEF I, J, q, R
      <4>1. \A a \in I : q[a] = o[a] /\ o[a] \in R /\ a \in J
        BY <3>j, <3>k, <3>o
      <4> QED BY <2>1, <4>1 DEF I, J
    <3>2. q[k + 1] = n + 1 /\ k + 1 \in 1..(k + 1)
      OBVIOUS
    <3>3. q \in [1..(k + 1) -> T]
      <4>1. R \subseteq T
        OBVIOUS
      <4> HIDE DEF I, J, q, R
      <4>2. \A a \in J : (IF a = k + 1 THEN n + 1 ELSE o[a]) \in T
        BY <2>4, <3>i, <3>o, <4>1
      <4> QED BY <3>k, <4>2 DEF J
    <3>4. ASSUME NEW a \in 1..(k + 1), NEW b \in 1..(k + 1), a < b PROVE q[a] < q[b]
      <4> HIDE DEF q
      <4>1. a \in 1..k
        BY <3>4
      <4>2. q[a] \in 1..n
        BY <3>1, <4>1
      <4>3. CASE b = k + 1
        BY <3>2, <4>2, <4>3
      <4>4. CASE b # k + 1
        <5>1. b \in 1..k
          BY <4>4
        <5>2. o[a] < o[b]
          BY <2>o, <3>4, <4>1, <5>1 DEF Lists
        <5> QED BY <3>1, <4>1, <5>1, <5>2
      <4> QED BY <4>3, <4>4
    <3>5. ASSUME NEW x \in T PROVE \E a \in 1..(k + 1) : q[a] = x
      <4>1. CASE x = n + 1
        BY <3>2, <4>1
      <4>2. CASE x # n + 1
        <5>1. PICK a \in 1..k : o[a] = x
          BY <2>o, <4>2 DEF Lists
        <5> QED BY <3>1, <5>1
      <4> QED BY <4>1, <4>2
    <3>6. Lists(q, k + 1, T)
      <4> HIDE DEF q
      <4> QED BY <3>3, <3>4, <3>5 DEF Lists
    <3> HIDE DEF q
    <3> QED BY <3>6
  <2> QED BY <2>3, <2>4
<1> HIDE DEF S
<1>3. Nat \subseteq S
  BY <1>1, <1>2, Induction
<1> QED BY <1>3 DEF S

(* A list in ascending order is a bijection. *)
LEMMA CountOf ==
  ASSUME NEW k \in Nat, NEW T \in SUBSET Nat, NEW o, Lists(o, k, T)
  PROVE  IsFiniteSet(T) /\ Cardinality(T) = k
<1>1. o \in Bijection(1..k, T)
  <2>1. \A a, b \in 1..k : o[a] = o[b] => a = b
    <3> SUFFICES ASSUME NEW a \in 1..k, NEW b \in 1..k, o[a] = o[b], a # b PROVE FALSE
      OBVIOUS
    <3>1. o[a] \in Nat /\ o[b] \in Nat
      BY DEF Lists
    <3>2. CASE a < b
      BY <3>1, <3>2 DEF Lists
    <3>3. CASE b < a
      BY <3>1, <3>3 DEF Lists
    <3> QED BY <3>2, <3>3
  <2> QED BY <2>1 DEF Lists, Bijection, Injection, Surjection, IsInjective
<1>2. IsFiniteSet(1..k) /\ Cardinality(1..k) = k
  BY FS_Interval
<1>3. ExistsBijection(1..k, T)
  BY <1>1 DEF ExistsBijection
<1> QED BY <1>2, <1>3, FS_Bijection

(* The list is the one that InOrder gives. *)
LEMMA InOrderIs ==
  ASSUME NEW k \in Nat, NEW T \in SUBSET Nat, NEW o, Lists(o, k, T)
  PROVE  Cardinality(T) = k /\ InOrder(T) = o
<1>1. Cardinality(T) = k
  BY CountOf
<1>2. ASSUME NEW a \in 1..k PROVE Cardinality({y \in T : y < o[a]}) = a - 1
  <2> DEFINE B == {y \in T : y < o[a]}
             p == [c \in 1..(a - 1) |-> o[c]]
  <2>1. B \in SUBSET Nat /\ a - 1 \in Nat
    <3>1. B \subseteq T
      OBVIOUS
    <3>2. a - 1 \in Nat
      OBVIOUS
    <3> QED BY <3>1, <3>2
  <2>2. \A c \in 1..(a - 1) : c \in 1..k /\ c < a
    OBVIOUS
  <2>3. p \in [1..(a - 1) -> B]
    BY <2>2 DEF Lists
  <2>4. \A c, d \in 1..(a - 1) : c < d => p[c] < p[d]
    BY <2>2 DEF Lists
  <2>5. ASSUME NEW x \in B PROVE \E c \in 1..(a - 1) : p[c] = x
    <3>1. PICK c \in 1..k : o[c] = x
      BY <2>5 DEF Lists
    <3>2. o[c] \in Nat /\ o[a] \in Nat /\ o[c] < o[a]
      BY <3>1 DEF Lists
    <3>3. c # a /\ ~(a < c)
      BY <3>2 DEF Lists
    <3>4. c \in 1..(a - 1)
      BY <3>3
    <3> QED BY <3>1, <3>4
  <2>6. Lists(p, a - 1, B)
    <3> HIDE DEF p, B
    <3> QED BY <2>3, <2>4, <2>5 DEF Lists
  <2> HIDE DEF p, B
  <2>7. Cardinality(B) = a - 1
    BY <2>1, <2>6, CountOf
  <2> QED BY <2>7 DEF B
<1>3. ASSUME NEW a \in 1..k
      PROVE (CHOOSE x \in T : Cardinality({y \in T : y < x}) = a - 1) = o[a]
  <2> DEFINE Under(x) == Cardinality({y \in T : y < x})
  <2>1. o[a] \in T /\ Under(o[a]) = a - 1
    BY <1>2 DEF Lists
  <2>2. ASSUME NEW x \in T, Under(x) = a - 1 PROVE x = o[a]
    <3>1. PICK b \in 1..k : o[b] = x
      BY DEF Lists
    <3>2. Under(x) = b - 1
      BY <1>2, <3>1
    <3> HIDE DEF Under
    <3>3. b = a
      BY <2>2, <3>2
    <3> QED BY <3>1, <3>3
  <2> HIDE DEF Under
  <2>3. (CHOOSE x \in T : Under(x) = a - 1) = o[a]
    BY <2>1, <2>2
  <2> QED BY <2>3 DEF Under
<1> DEFINE C(a) == CHOOSE x \in T : Cardinality({y \in T : y < x}) = a - 1
<1>4. InOrder(T) = [a \in 1..k |-> C(a)]
  BY <1>1, Zenon DEF InOrder
<1>5. \A a \in 1..k : C(a) = o[a]
  BY <1>3
<1> HIDE DEF C
<1>6. o = [a \in 1..k |-> o[a]]
  BY DEF Lists
<1> QED BY <1>1, <1>4, <1>5, <1>6

LEMMA InOrderLists ==
  ASSUME NEW n \in Nat, NEW T \in SUBSET (1..n)
  PROVE  Cardinality(T) \in Nat /\ Lists(InOrder(T), Cardinality(T), T)
<1>1. PICK k \in Nat : \E o : Lists(o, k, T)
  BY Listed
<1>o. PICK o : Lists(o, k, T)
  BY <1>1
<1>2. T \in SUBSET Nat
  OBVIOUS
<1>3. Cardinality(T) = k /\ InOrder(T) = o
  BY <1>o, <1>2, InOrderIs
<1> QED BY <1>o, <1>3
=============================================================================
