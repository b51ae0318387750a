------------------------------- MODULE Induction -------------------------------
(***************************************************************************)
(* Induction over the natural numbers and functions defined by recursion,  *)
(* stated with sets and functions in the place of predicates, so that a    *)
(* proof cites them with the set of numbers it is about.                   *)
(***************************************************************************)
EXTENDS Integers, Sequences, SequenceTheorems, WellFoundedInduction, TLAPS

\* Every set of naturals has a least element.
LEMMA LeastNatural ==
  ASSUME NEW T, T \subseteq Nat, T # {}
  PROVE  \E least \in T : \A n \in T : least <= n
<1> DEFINE Below == {pair \in Nat \X Nat : pair[1] < pair[2]}
<1>1. IsWellFoundedOn(OpToRel(<, Nat), Nat)
  BY NatLessThanWellFounded
<1>2. OpToRel(<, Nat) = Below
  BY DEF OpToRel
<1> HIDE DEF Below
<1>3. PICK least \in T : \A n \in T : ~(<<n, least>> \in Below)
  BY <1>1, <1>2, WFMin
<1>4. \A n \in T : ~(n < least)
  <2> SUFFICES ASSUME NEW n \in T, n < least
               PROVE  <<n, least>> \in Below
    BY <1>3
  <2>1. <<n, least>> \in Nat \X Nat /\ <<n, least>>[1] = n /\ <<n, least>>[2] = least
    OBVIOUS
  <2> QED
    BY <2>1 DEF Below
<1>5. \A n \in T : n \in Nat /\ least \in Nat
  OBVIOUS
<1> QED
  BY <1>4, <1>5

LEMMA NaturalInduction ==
  ASSUME NEW T, 0 \in T, \A n \in Nat : n \in T => n + 1 \in T
  PROVE  Nat \subseteq T
<1> SUFFICES ASSUME Nat \ T # {}
             PROVE  FALSE
  OBVIOUS
<1>1. PICK least \in Nat \ T : \A n \in Nat \ T : least <= n
  BY LeastNatural
<1> QED
  BY <1>1

\* Induction up to a bound.
LEMMA BoundedInduction ==
  ASSUME NEW bound \in Nat, NEW T, 0 \in T, \A n \in 0..bound - 1 : n \in T => n + 1 \in T
  PROVE  0..bound \subseteq T
<1> DEFINE Reached == {n \in Nat : n <= bound => n \in T}
<1>1. 0 \in Reached
  OBVIOUS
<1>2. \A n \in Nat : n \in Reached => n + 1 \in Reached
  OBVIOUS
<1> HIDE DEF Reached
<1>3. Nat \subseteq Reached
  BY <1>1, <1>2, NaturalInduction
<1> QED
  BY <1>3 DEF Reached

\* Induction over sequences that grow at their end.
LEMMA SequenceInduction ==
  ASSUME NEW S, NEW Q, << >> \in Q, \A s \in Seq(S) : \A e \in S : s \in Q => Append(s, e) \in Q
  PROVE  Seq(S) \subseteq Q
<1> DEFINE T == {n \in Nat : \A s \in Seq(S) : Len(s) = n => s \in Q}
<1>1. 0 \in T
  <2>1. \A s \in Seq(S) : Len(s) = 0 => s = << >>
    BY EmptySeq
  <2> QED
    BY <2>1
<1>2. \A n \in Nat : n \in T => n + 1 \in T
  <2> SUFFICES ASSUME NEW n \in Nat, n \in T, NEW s \in Seq(S), Len(s) = n + 1
               PROVE  s \in Q
    OBVIOUS
  <2>1. s # << >>
    BY EmptySeq
  <2>2. PICK front \in Seq(S), e \in S : s = Append(front, e)
    BY <2>1, SequenceEmptyOrAppend
  <2>3. Len(s) = Len(front) + 1 /\ Len(front) \in Nat
    BY <2>2, AppendProperties, LenProperties
  <2>4. Len(front) = n
    BY <2>3
  <2> QED
    BY <2>2, <2>4
<1> HIDE DEF T
<1>3. Nat \subseteq T
  BY <1>1, <1>2, NaturalInduction
<1>4. \A s \in Seq(S) : Len(s) \in Nat
  BY LenProperties
<1> QED
  BY <1>3, <1>4 DEF T

\* One more at the end of the second is one more at the end of both.
LEMMA AppendAssociative ==
  ASSUME NEW T, NEW s \in Seq(T), NEW t \in Seq(T), NEW e \in T
  PROVE  s \o Append(t, e) = Append(s \o t, e)
<1>1. /\ <<e>> \in Seq(T) /\ s \o t \in Seq(T)
  BY ConcatProperties
<1>2. Append(t, e) = t \o <<e>> /\ Append(s \o t, e) = (s \o t) \o <<e>>
  BY <1>1, AppendIsConcat
<1> QED
  BY <1>1, <1>2, ConcatAssociative

\* What a recursive definition over 0..bound is made from, and its function.
Steps(bound, X) == [(1..bound) \X X -> X]

Recursive(f, bound, X, start, step) ==
  /\ f \in [0..bound -> X] /\ f[0] = start
  /\ \A i \in 1..bound : f[i] = step[<<i, f[i - 1]>>]

\* A function that is defined by recursion from 0 up to a bound exists.
LEMMA RecursionExists ==
  ASSUME NEW bound \in Nat, NEW X, NEW start \in X, NEW step \in Steps(bound, X)
  PROVE  \E f : Recursive(f, bound, X, start, step)
<1> DEFINE Follows(f, n) == /\ f \in [0..n -> X] /\ f[0] = start
                            /\ \A i \in 1..n : f[i] = step[<<i, f[i - 1]>>]
           Defined == {n \in 0..bound : \E f : Follows(f, n)}
<1>1. 0 \in Defined
  <2>1. Follows([i \in 0..0 |-> start], 0)
    OBVIOUS
  <2> HIDE DEF Follows
  <2>2. \E f : Follows(f, 0)
    BY <2>1
  <2> QED
    BY <2>2
<1>2. ASSUME NEW n \in 0..bound - 1, n \in Defined
      PROVE  n + 1 \in Defined
  <2>1. PICK f : Follows(f, n)
    BY <1>2
  <2> DEFINE g == [i \in 0..n + 1 |-> IF i <= n THEN f[i] ELSE step[<<n + 1, f[n]>>]]
  <2>2. f[n] \in X /\ <<n + 1, f[n]>> \in (1..bound) \X X
    BY <2>1
  <2>3. step[<<n + 1, f[n]>>] \in X
    BY <2>2 DEF Steps
  <2>4. g \in [0..n + 1 -> X]
    BY <2>1, <2>3
  <2>5. g[0] = start
    BY <2>1
  <2>6. ASSUME NEW i \in 1..n + 1
        PROVE  g[i] = step[<<i, g[i - 1]>>]
    <3>1. CASE i <= n
      <4>1. i \in 1..n /\ i \in 0..n + 1 /\ i - 1 \in 0..n + 1 /\ i - 1 <= n
        BY <3>1
      <4>2. g[i] = f[i] /\ g[i - 1] = f[i - 1]
        BY <3>1, <4>1
      <4> QED
        BY <2>1, <4>1, <4>2
    <3>2. CASE i = n + 1
      <4>1. g[n + 1] = step[<<n + 1, f[n]>>] /\ g[n] = f[n] /\ i - 1 = n
        BY <3>2
      <4> QED
        BY <3>2, <4>1
    <3> QED
      BY <3>1, <3>2
  <2>7. Follows(g, n + 1)
    BY <2>4, <2>5, <2>6
  <2> HIDE DEF Follows, g
  <2>8. \E h : Follows(h, n + 1)
    BY <2>7
  <2> QED
    BY <2>8
<1> HIDE DEF Defined
<1>3. bound \in Defined
  BY <1>1, <1>2, BoundedInduction
<1>4. PICK f : Follows(f, bound)
  BY <1>3 DEF Defined
<1> QED
  BY <1>4 DEF Recursive
===============================================================================
