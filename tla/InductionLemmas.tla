--------------------------- MODULE InductionLemmas ---------------------------
(***************************************************************************)
(* Induction principles and sequence facts used by the proofs about the   *)
(* recursive functions of the models (the group stack mapping and the hex *)
(* byte automaton), stated over sets so that the provers can instantiate  *)
(* them.                                                                   *)
(***************************************************************************)
EXTENDS WellFoundedInduction, SequenceTheorems, TLAPS

\* Every non-empty set of naturals has a least element (the well-foundedness
\* of < on Nat, used for induction over depths and lengths).
LEMMA LeastNat ==
    ASSUME NEW T \in SUBSET Nat, T # {}
    PROVE  \E m \in T : \A k \in T : m <= k
<1>1. \E x \in T : \A y \in T : ~(<<y, x>> \in OpToRel(<, Nat))
    BY NatLessThanWellFounded, WFMin, Zenon
<1>2. PICK x \in T : \A y \in T : ~(<<y, x>> \in OpToRel(<, Nat))
    BY <1>1, Zenon
<1>3. \A y \in T : ~(y < x)
    BY <1>2, Zenon DEF OpToRel
<1>4. QED
    BY <1>3

\* A set Q that holds the empty sequence and is closed under appending an
\* element of S holds every sequence over S.
LEMMA AppendInduction ==
    ASSUME NEW S, NEW Q, <<>> \in Q,
           \A s \in Seq(S), c \in S : s \in Q => Append(s, c) \in Q
    PROVE  Seq(S) \subseteq Q
<1> DEFINE Bad == {n \in Nat : \E s \in Seq(S) : Len(s) = n /\ s \notin Q}
<1> SUFFICES Bad = {}
    OBVIOUS
<1>1. ASSUME Bad # {} PROVE FALSE
    <2>1. PICK m \in Bad : \A k \in Bad : m <= k
        BY <1>1, LeastNat
    <2>2. PICK s \in Seq(S) : Len(s) = m /\ s \notin Q
        BY <2>1
    <2>3. s # <<>>
        BY <2>2
    <2>4. PICK u \in Seq(S), c \in S : s = Append(u, c)
        BY <2>3, SequenceEmptyOrAppend
    <2>5. Len(u) = m - 1 /\ m - 1 \in Nat /\ ~(m <= m - 1)
        BY <2>2, <2>4, AppendProperties
    <2>6. u \in Q
        BY <2>1, <2>5
    <2>7. QED
        BY <2>2, <2>4, <2>6
<1>2. QED
    BY <1>1

\* Appending after a concatenation.
LEMMA ConcatAppend ==
    ASSUME NEW S, NEW a \in Seq(S), NEW b \in Seq(S), NEW x \in S
    PROVE  a \o (b \o <<x>>) = Append(a \o b, x)
<1>1. <<x>> \in Seq(S) /\ a \o b \in Seq(S)
    BY ConcatProperties
<1>2. a \o (b \o <<x>>) = (a \o b) \o <<x>>
    BY <1>1, ConcatAssociative
<1>3. QED
    BY <1>1, <1>2, AppendIsConcat

\* Dropping the last element of an appended sequence gives it back.
LEMMA FrontAppend ==
    ASSUME NEW S, NEW s \in Seq(S), NEW c \in S
    PROVE  /\ SubSeq(Append(s, c), 1, Len(s)) = s
           /\ Append(s, c)[Len(s) + 1] = c
           /\ Len(Append(s, c)) = Len(s) + 1
BY AppendProperties
=============================================================================
