------------------------------ MODULE Counting ------------------------------
(***************************************************************************)
(* Facts about numbers and sequences that the proofs share.  The induction *)
(* over data is in LeastNumber: UpTo carries a fact through a loop, and    *)
(* Iterated says that a loop has a run, from which a recursive function is *)
(* known by its equations.                                                 *)
(***************************************************************************)
EXTENDS Integers, SequencesExt, FiniteSetTheorems, WellFoundedInduction, TLAPS

(* A set of natural numbers that is not empty has a least element.         *)
LEMMA LeastNumber ==
  ASSUME NEW T \in SUBSET Nat, T # {}
  PROVE  \E n \in T : \A m \in T : n <= m
<1>1. IsWellFoundedOn(OpToRel(<, Nat), Nat)
  BY NatLessThanWellFounded
<1>2. PICK n \in T : \A m \in T : ~(<<m, n>> \in OpToRel(<, Nat))
  BY <1>1, WFMin, Zenon
<1>3. \A m \in T : ~(m < n)
  BY <1>2 DEF OpToRel
<1> QED
  BY <1>3

LEMMA LeastIsThere ==
  ASSUME NEW S \in SUBSET Nat, S # {}
  PROVE  Min(S) \in S /\ \A m \in S : Min(S) <= m
BY LeastNumber DEF Min

LEMMA LesserOfTwo ==
  ASSUME NEW a \in Int, NEW b \in Int
  PROVE  Min({a, b}) = IF a < b THEN a ELSE b
BY SMT DEF Min

LEMMA GreaterOfTwo ==
  ASSUME NEW a \in Int, NEW b \in Int
  PROVE  Max({a, b}) = IF a < b THEN b ELSE a
BY SMT DEF Max

(* Remainders.                                                             *)

LEMMA Division ==
  ASSUME NEW a \in Int, NEW n \in Nat \ {0}
  PROVE  /\ a = n * (a \div n) + (a % n)
         /\ a % n \in 0..(n - 1) /\ a \div n \in Int
BY SMT

(* There is one quotient and one remainder only.                           *)
LEMMA Remainder ==
  ASSUME NEW n \in Nat \ {0}, NEW q \in Int, NEW r \in 0..(n - 1), NEW a \in Int, a = n * q + r
  PROVE  a % n = r
<1> DEFINE p == a \div n
           s == a % n
<1>1. n * p + s = n * q + r /\ s \in 0..(n - 1) /\ p \in Int
  BY Division
<1> HIDE DEF p, s
<1>2. n * (p - q) = r - s
  BY <1>1, SMT
<1>3. p - q <= 0
  <2>1. p - q >= 1 => n * (p - q) >= n
    BY <1>1, SMT
  <2> QED
    BY <1>1, <1>2, <2>1, SMT
<1>4. p - q >= 0
  <2>1. p - q <= -1 => n * (p - q) <= -n
    BY <1>1, SMT
  <2> QED
    BY <1>1, <1>2, <2>1, SMT
<1>5. p = q
  BY <1>1, <1>3, <1>4, SMT
<1>6. s = r
  BY <1>1, <1>2, <1>5, SMT
<1> QED
  BY <1>6 DEF s

(* What holds at 0 and goes on to the next number up to n holds up to n.   *)
LEMMA UpTo ==
  ASSUME NEW n \in Nat, NEW S, 0 \in S,
         \A k \in 1..n : k - 1 \in S => k \in S
  PROVE  \A k \in 0..n : k \in S
<1> DEFINE T == {k \in 0..n : k \notin S}
<1> SUFFICES ASSUME T # {} PROVE FALSE
  OBVIOUS
<1>1. T \in SUBSET Nat
  OBVIOUS
<1>2. PICK k \in T : \A m \in T : k <= m
  <2> HIDE DEF T
  <2> QED
    BY <1>1, LeastNumber
<1>3. k \in 1..n /\ k - 1 \notin T
  BY <1>2
<1> QED
  BY <1>3

\* A loop of n rounds, each of which makes a value of S of the one before.
Rounded(n, S) == [(1..n) \X S -> S]

\* A run of the first n rounds, from a.
Run(f, n, S, a, step) ==
  /\ f \in [0..n -> S] /\ f[0] = a
  /\ \A k \in 1..n : f[k] = step[<<k, f[k - 1]>>]

LEMMA Iterated ==
  ASSUME NEW n \in Nat, NEW S, NEW a \in S, NEW step \in Rounded(n, S)
  PROVE  \E f : Run(f, n, S, a, step)
<1> DEFINE Runs == {m \in 0..n : \E f : Run(f, m, S, a, step)}
<1>1. 0 \in Runs
  <2> DEFINE f == [k \in 0..0 |-> a]
  <2>1. Run(f, 0, S, a, step)
    BY DEF Run
  <2> HIDE DEF f
  <2> QED
    BY <2>1
<1>2. ASSUME NEW m \in 1..n, m - 1 \in Runs PROVE m \in Runs
  <2>1. PICK f : Run(f, m - 1, S, a, step)
    BY <1>2
  <2> DEFINE g == [k \in 0..m |-> IF k = m THEN step[<<m, f[m - 1]>>] ELSE f[k]]
  <2>2. f[m - 1] \in S /\ step[<<m, f[m - 1]>>] \in S /\ \A k \in 0..(m - 1) : f[k] \in S
    BY <2>1 DEF Run, Rounded
  <2>3. g \in [0..m -> S] /\ g[0] = a
    BY <2>1, <2>2 DEF Run
  <2>4. ASSUME NEW k \in 1..m PROVE g[k] = step[<<k, g[k - 1]>>]
    <3>1. k - 1 \in 0..m /\ k - 1 # m /\ g[k - 1] = f[k - 1]
      OBVIOUS
    <3>2. CASE k = m
      BY <3>1, <3>2
    <3>3. CASE k # m
      <4>1. k \in 1..(m - 1) /\ g[k] = f[k]
        BY <3>3
      <4> QED
        BY <2>1, <3>1, <4>1 DEF Run
    <3> QED
      BY <3>2, <3>3
  <2> HIDE DEF g
  <2>5. Run(g, m, S, a, step)
    BY <2>3, <2>4 DEF Run
  <2> QED
    BY <2>5
<1> HIDE DEF Runs
<1>3. n \in Runs
  BY <1>1, <1>2, UpTo
<1> QED
  BY <1>3 DEF Runs
-----------------------------------------------------------------------------
(* Sequences.                                                              *)

LEMMA SameSequence ==
  ASSUME NEW S, NEW s \in Seq(S), NEW t \in Seq(S), Len(s) = Len(t),
         \A k \in 1..Len(s) : s[k] = t[k]
  PROVE  s = t
<1>1. s = [k \in 1..Len(s) |-> s[k]] /\ t = [k \in 1..Len(s) |-> t[k]]
  BY SMT
<1> QED
  BY <1>1

LEMMA Removed ==
  ASSUME NEW S, NEW s \in Seq(S), NEW i \in 1..Len(s)
  PROVE  /\ RemoveAt(s, i) \in Seq(S) /\ Len(RemoveAt(s, i)) = Len(s) - 1
         /\ \A k \in 1..(Len(s) - 1) :
              RemoveAt(s, i)[k] = IF k < i THEN s[k] ELSE s[k + 1]
<1> DEFINE a == SubSeq(s, 1, i - 1)
           b == SubSeq(s, i + 1, Len(s))
<1>1. a \in Seq(S) /\ Len(a) = i - 1 /\ \A k \in 1..(i - 1) : a[k] = s[k]
  BY SMT
<1>2. b \in Seq(S) /\ Len(b) = Len(s) - i /\ \A k \in 1..(Len(s) - i) : b[k] = s[k + i]
  BY SMT
<1>3. RemoveAt(s, i) = a \o b
  BY DEF RemoveAt
<1> HIDE DEF a, b
<1> DEFINE l == Len(s)
<1>0. l \in Nat /\ i \in 1..l
  OBVIOUS
<1>4. a \o b \in Seq(S) /\ Len(a \o b) = Len(s) - 1
  <2>1. a \o b \in Seq(S) /\ Len(a \o b) = Len(a) + Len(b)
    <3>1. a \in Seq(S) /\ b \in Seq(S)
      BY <1>1, <1>2
    <3> QED
      BY <3>1
  <2>2. Len(a) + Len(b) = l - 1
    <3>1. Len(a) = i - 1 /\ Len(b) = l - i
      BY <1>1, <1>2
    <3> HIDE DEF l
    <3> QED
      BY <1>0, <3>1
  <2> QED
    BY <2>1, <2>2
<1>5. \A k \in 1..(Len(s) - 1) : (a \o b)[k] = IF k < i THEN a[k] ELSE b[k - (i - 1)]
  BY <1>1, <1>2, SMT
<1>6. ASSUME NEW k \in 1..(Len(s) - 1), ~(k < i) PROVE b[k - (i - 1)] = s[k + 1]
  <2>1. k - (i - 1) \in 1..(Len(s) - i) /\ (k - (i - 1)) + i = k + 1
    BY <1>6, SMT
  <2> QED
    BY <1>2, <2>1
<1> QED
  BY <1>1, <1>3, <1>4, <1>5, <1>6
=============================================================================
