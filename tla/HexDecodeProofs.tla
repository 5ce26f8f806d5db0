--------------------------- MODULE HexDecodeProofs ---------------------------
(***************************************************************************)
(* Proof that the hex decoding of rtf_object_process, however its input is *)
(* cut into runs, yields the hex decoding of everything fed (RoundTrip),   *)
(* for every set of input bytes and every bound.  The byte automaton and   *)
(* the hex-only filter are recursive functions on the length; their        *)
(* equations are derived first, then the decoding of a whole input is      *)
(* characterised by induction over its length.                             *)
(***************************************************************************)
EXTENDS HexDecode, InductionLemmas

\* A hex digit's table value is a nibble.
LEMMA HexValue ==
    ASSUME NEW c, isxdigit(c) PROVE hextable(c) \in 0..15
<1>1. \E k \in 1..22 : HexDigits[k] = c
    BY DEF isxdigit
<1>2. (CHOOSE k \in 1..22 : HexDigits[k] = c) \in 1..22
    BY <1>1
<1>3. QED
    BY <1>2 DEF hextable

\* One byte of input takes a decoder state to a decoder state.
LEMMA StepType ==
    ASSUME NEW st \in DState, NEW c PROVE Step(st, c) \in DState
<1>1. CASE isxdigit(c)
    <2>1. hextable(c) \in 0..15
        BY <1>1, HexValue
    <2>2. st[1] \in Seq(Nat) /\ st[2] \in BOOLEAN /\ st[3] \in Nat
        BY DEF DState
    <2>3. CASE st[2]
        <3>1. Append(st[1], st[3] + hextable(c)) \in Seq(Nat)
            BY <2>1, <2>2, AppendProperties
        <3>2. QED
            BY <1>1, <2>3, <3>1 DEF Step, DState
    <2>4. CASE ~st[2]
        <3>1. Step(st, c) = <<st[1], TRUE, hextable(c) * 16>>
            BY <1>1, <2>4, Zenon DEF Step
        <3>2. hextable(c) * 16 \in Nat
            BY <2>1
        <3>3. <<st[1], TRUE, hextable(c) * 16>> \in DState
            BY <2>2, <3>2, Zenon DEF DState
        <3>4. QED
            BY <3>1, <3>3
    <2>5. QED
        BY <2>3, <2>4
<1>2. CASE ~isxdigit(c)
    BY <1>2 DEF Step
<1>3. QED
    BY <1>1, <1>2

\* Dropping the last byte of a sequence of bytes leaves one.
LEMMA FrontType ==
    ASSUME NEW S, NEW s \in Seq(S) PROVE SubSeq(s, 1, Len(s) - 1) \in Seq(S)
<1>1. CASE Len(s) = 0
    BY <1>1, SubSeqEmpty
<1>2. CASE Len(s) >= 1
    BY <1>2, SubSeqProperties
<1>3. QED
    BY <1>1, <1>2

(***************************************************************************)
(* The recursion of Scan, as an operator of the value at the smaller      *)
(* length.                                                                 *)
(***************************************************************************)
ScanBase == [s \in Seq(Chars) |-> [st \in DState |-> st]]
ScanDef(v, n) ==
    [s \in Seq(Chars) |-> [st \in DState |->
        Step(v[SubSeq(s, 1, Len(s) - 1)][st], s[Len(s)])]]

LEMMA ScanFix ==
    Scan = [n \in Nat |-> IF n = 0 THEN ScanBase ELSE ScanDef(Scan[n - 1], n)]
<1>1. NatInductiveDefHypothesis(Scan, ScanBase, ScanDef)
    BY DEF NatInductiveDefHypothesis, Scan, ScanBase, ScanDef
<1>2. NatInductiveDefConclusion(Scan, ScanBase, ScanDef)
    BY <1>1, NatInductiveDef
<1>3. QED
    BY <1>2 DEF NatInductiveDefConclusion

LEMMA ScanType ==
    Scan \in [Nat -> [Seq(Chars) -> [DState -> DState]]]
<1>1. ScanBase \in [Seq(Chars) -> [DState -> DState]]
    BY DEF ScanBase
<1>2. ASSUME NEW v \in [Seq(Chars) -> [DState -> DState]], NEW n
      PROVE  ScanDef(v, n) \in [Seq(Chars) -> [DState -> DState]]
    <2>1. ASSUME NEW st \in DState, NEW s \in Seq(Chars)
          PROVE  Step(v[SubSeq(s, 1, Len(s) - 1)][st], s[Len(s)]) \in DState
        <3>1. v[SubSeq(s, 1, Len(s) - 1)][st] \in DState
            BY FrontType
        <3>2. QED
            BY <3>1, StepType
    <2>2. QED
        BY <2>1 DEF ScanDef
<1>3. \A n \in Nat : Scan[n] \in [Seq(Chars) -> [DState -> DState]]
    <2> DEFINE Bad == {n \in Nat : Scan[n] \notin [Seq(Chars) -> [DState -> DState]]}
    <2> SUFFICES Bad = {}
        OBVIOUS
    <2>1. ASSUME Bad # {} PROVE FALSE
        <3>1. PICK m \in Bad : \A k \in Bad : m <= k
            BY <2>1, LeastNat
        <3>2. m # 0
            BY <1>1, <3>1, ScanFix
        <3>3. m - 1 \in Nat /\ m - 1 \notin Bad
            BY <3>1, <3>2
        <3>4. Scan[m] = ScanDef(Scan[m - 1], m)
            BY <3>2, ScanFix
        <3>5. QED
            BY <1>2, <3>1, <3>3, <3>4
    <2>2. QED
        BY <2>1
<1>4. QED
    BY <1>3, ScanFix

\* The decoding of a sequence of bytes is a decoder state.
LEMMA DecodeType ==
    ASSUME NEW st \in DState, NEW s \in Seq(Chars) PROVE Decode(st, s) \in DState
BY ScanType DEF Decode

\* Decoding nothing leaves the state.
LEMMA DecodeEmpty ==
    ASSUME NEW st \in DState PROVE Decode(st, <<>>) = st
BY ScanFix DEF Decode, ScanBase

\* Decoding one more byte is one more step of the automaton.
LEMMA DecodeAppend ==
    ASSUME NEW st \in DState, NEW s \in Seq(Chars), NEW c \in Chars
    PROVE  Decode(st, Append(s, c)) = Step(Decode(st, s), c)
<1> DEFINE a == Append(s, c)
<1>1. /\ SubSeq(a, 1, Len(a) - 1) = s
      /\ a[Len(a)] = c
      /\ Len(a) = Len(s) + 1
      /\ a \in Seq(Chars)
    BY FrontAppend, AppendProperties
<1>2. Len(s) + 1 \in Nat \ {0} /\ Len(s) + 1 - 1 = Len(s)
    OBVIOUS
<1>3. Scan[Len(a)] = ScanDef(Scan[Len(s)], Len(a))
    BY <1>1, <1>2, ScanFix
<1>4. Scan[Len(a)][a]
        = [t \in DState |-> Step(Scan[Len(s)][SubSeq(a, 1, Len(a) - 1)][t], a[Len(a)])]
    BY <1>1, <1>3 DEF ScanDef
<1>5. Scan[Len(a)][a][st] = Step(Scan[Len(s)][s][st], c)
    BY <1>1, <1>4
<1>6. QED
    BY <1>5 DEF Decode

(***************************************************************************)
(* The recursion of the hex-only filter HexF, and its equations.           *)
(***************************************************************************)
\* The hex digits among the input bytes.
HexChars == {d \in Chars : isxdigit(d)}
HexBase == [s \in Seq(Chars) |-> <<>>]
HexDef(v, n) ==
    [s \in Seq(Chars) |->
        LET h == v[SubSeq(s, 1, Len(s) - 1)]
        IN  IF s = <<>> THEN <<>>
            ELSE IF isxdigit(s[Len(s)]) THEN Append(h, s[Len(s)]) ELSE h]

LEMMA HexFix ==
    HexF = [n \in Nat |-> IF n = 0 THEN HexBase ELSE HexDef(HexF[n - 1], n)]
<1>1. NatInductiveDefHypothesis(HexF, HexBase, HexDef)
    BY DEF NatInductiveDefHypothesis, HexF, HexBase, HexDef
<1>2. NatInductiveDefConclusion(HexF, HexBase, HexDef)
    BY <1>1, NatInductiveDef
<1>3. QED
    BY <1>2 DEF NatInductiveDefConclusion

LEMMA HexFType ==
    HexF \in [Nat -> [Seq(Chars) -> Seq(HexChars)]]
<1>1. HexBase \in [Seq(Chars) -> Seq(HexChars)]
    BY DEF HexBase
<1>2. ASSUME NEW v \in [Seq(Chars) -> Seq(HexChars)], NEW n
      PROVE  HexDef(v, n) \in [Seq(Chars) -> Seq(HexChars)]
    <2>1. ASSUME NEW s \in Seq(Chars)
          PROVE  (IF s = <<>> THEN <<>>
                  ELSE IF isxdigit(s[Len(s)])
                  THEN Append(v[SubSeq(s, 1, Len(s) - 1)], s[Len(s)])
                  ELSE v[SubSeq(s, 1, Len(s) - 1)]) \in Seq(HexChars)
        <3>1. v[SubSeq(s, 1, Len(s) - 1)] \in Seq(HexChars)
            BY FrontType
        <3>2. CASE s # <<>> /\ isxdigit(s[Len(s)])
            <4>1. Len(s) # 0
                BY <3>2
            <4>2. s[Len(s)] \in HexChars
                BY <3>2, <4>1 DEF HexChars
            <4>3. QED
                BY <3>1, <3>2, <4>2, AppendProperties
        <3>3. QED
            BY <3>1, <3>2
    <2>2. QED
        BY <2>1, Zenon DEF HexDef
<1>3. \A n \in Nat : HexF[n] \in [Seq(Chars) -> Seq(HexChars)]
    <2> DEFINE Bad == {n \in Nat : HexF[n] \notin [Seq(Chars) -> Seq(HexChars)]}
    <2> SUFFICES Bad = {}
        OBVIOUS
    <2>1. ASSUME Bad # {} PROVE FALSE
        <3>1. PICK m \in Bad : \A k \in Bad : m <= k
            BY <2>1, LeastNat
        <3>2. m # 0
            BY <1>1, <3>1, HexFix
        <3>3. m - 1 \in Nat /\ m - 1 \notin Bad
            BY <3>1, <3>2
        <3>4. HexF[m] = HexDef(HexF[m - 1], m)
            BY <3>2, HexFix
        <3>5. QED
            BY <1>2, <3>1, <3>3, <3>4
    <2>2. QED
        BY <2>1
<1>4. QED
    BY <1>3, HexFix

\* The hex-only filter keeps hex digits only.
LEMMA HexOnlyType ==
    ASSUME NEW s \in Seq(Chars) PROVE HexOnly(s) \in Seq(HexChars)
BY HexFType DEF HexOnly

\* Nothing fed: no hex digit.
LEMMA HexOnlyEmpty == HexOnly(<<>>) = <<>>
BY HexFix DEF HexOnly, HexBase

\* One more byte adds itself to the hex digits if it is one.
LEMMA HexOnlyAppend ==
    ASSUME NEW s \in Seq(Chars), NEW c \in Chars
    PROVE  HexOnly(Append(s, c))
             = IF isxdigit(c) THEN Append(HexOnly(s), c) ELSE HexOnly(s)
<1> DEFINE a == Append(s, c)
<1>1. /\ SubSeq(a, 1, Len(a) - 1) = s
      /\ a[Len(a)] = c
      /\ Len(a) = Len(s) + 1
      /\ a \in Seq(Chars)
    BY FrontAppend, AppendProperties
<1>2. Len(s) + 1 \in Nat \ {0} /\ Len(s) + 1 - 1 = Len(s)
    OBVIOUS
<1>3. HexF[Len(a)] = HexDef(HexF[Len(s)], Len(a))
    BY <1>1, <1>2, HexFix
<1>4. HexF[Len(a)][a]
        = IF a = <<>> THEN <<>>
          ELSE IF isxdigit(a[Len(a)]) THEN Append(HexF[Len(s)][SubSeq(a, 1, Len(a) - 1)], a[Len(a)])
          ELSE HexF[Len(s)][SubSeq(a, 1, Len(a) - 1)]
    BY <1>1, <1>3, Zenon DEF HexDef
<1>5. QED
    <2>1. a # <<>>
        BY AppendProperties
    <2>2. QED
        BY <1>1, <1>4, <2>1 DEF HexOnly

(***************************************************************************)
(* The decoding of a sequence h of hex digits read as a decoder state:    *)
(* its digits paired, a pending nibble exactly when h is of odd length,   *)
(* holding the last digit.                                                 *)
(***************************************************************************)
Pairs(h) == [k \in 1..(Len(h) \div 2) |-> hextable(h[2 * k - 1]) * 16 + hextable(h[2 * k])]
Abs(h) ==
    <<Pairs(h), Len(h) % 2 = 1,
      IF Len(h) % 2 = 1 THEN hextable(h[Len(h)]) * 16 ELSE 0>>

\* The digits of a sequence of hex digits are nibbles.
LEMMA HexSeqValues ==
    ASSUME NEW h \in Seq(HexChars) PROVE \A i \in 1..Len(h) : hextable(h[i]) \in 0..15
<1> SUFFICES ASSUME NEW i \in 1..Len(h) PROVE hextable(h[i]) \in 0..15
    OBVIOUS
<1>1. isxdigit(h[i])
    BY DEF HexChars
<1>2. QED
    BY <1>1, HexValue

LEMMA PairsType ==
    ASSUME NEW h \in Seq(HexChars)
    PROVE  Pairs(h) \in Seq(Nat) /\ Len(Pairs(h)) = Len(h) \div 2
<1>1. ASSUME NEW k \in 1..(Len(h) \div 2)
      PROVE  hextable(h[2 * k - 1]) * 16 + hextable(h[2 * k]) \in Nat
    <2>1. 2 * k - 1 \in 1..Len(h) /\ 2 * k \in 1..Len(h)
        OBVIOUS
    <2>2. hextable(h[2 * k - 1]) \in 0..15 /\ hextable(h[2 * k]) \in 0..15
        BY <2>1, HexSeqValues
    <2>3. \A x, y \in 0..15 : x * 16 + y \in Nat
        OBVIOUS
    <2>4. QED
        BY <2>2, <2>3, Zenon
<1>2. Len(h) \div 2 \in Nat
    OBVIOUS
<1>3. Pairs(h) \in [1..(Len(h) \div 2) -> Nat]
    BY <1>1 DEF Pairs
<1>4. QED
    BY <1>2, <1>3

\* The automaton's step on a hex digit: with no nibble pending it becomes
\* the pending one, with one pending they make a byte.
LEMMA StepHigh ==
    ASSUME NEW o, NEW p, NEW c, isxdigit(c)
    PROVE  Step(<<o, FALSE, p>>, c) = <<o, TRUE, hextable(c) * 16>>
BY Zenon DEF Step

LEMMA StepLow ==
    ASSUME NEW o, NEW p, NEW c, isxdigit(c)
    PROVE  Step(<<o, TRUE, p>>, c) = <<Append(o, p + hextable(c)), FALSE, 0>>
BY Zenon DEF Step

\* The automaton passes over a byte that is no hex digit.
LEMMA StepSkip ==
    ASSUME NEW st, NEW c, ~isxdigit(c) PROVE Step(st, c) = st
BY DEF Step

\* Abs of an even and of an odd number of digits.
LEMMA AbsEven ==
    ASSUME NEW h \in Seq(HexChars), Len(h) % 2 = 0
    PROVE  Abs(h) = <<Pairs(h), FALSE, 0>>
<1>1. ~(Len(h) % 2 = 1)
    OBVIOUS
<1>2. (IF Len(h) % 2 = 1 THEN hextable(h[Len(h)]) * 16 ELSE 0) = 0
    BY <1>1
<1>3. QED
    BY <1>1, <1>2, Zenon DEF Abs

LEMMA AbsOdd ==
    ASSUME NEW h \in Seq(HexChars), Len(h) % 2 = 1
    PROVE  Abs(h) = <<Pairs(h), TRUE, hextable(h[Len(h)]) * 16>>
<1>1. (IF Len(h) % 2 = 1 THEN hextable(h[Len(h)]) * 16 ELSE 0) = hextable(h[Len(h)]) * 16
    OBVIOUS
<1>2. QED
    BY <1>1, Zenon DEF Abs

\* A hex digit appended to h is the automaton's step on Abs(h).
LEMMA AbsStep ==
    ASSUME NEW h \in Seq(HexChars), NEW c \in HexChars
    PROVE  Abs(Append(h, c)) = Step(Abs(h), c)
<1> DEFINE L == Len(h)
           a == Append(h, c)
<1>1. /\ a \in Seq(HexChars) /\ Len(a) = L + 1 /\ a[L + 1] = c
      /\ \A i \in 1..L : a[i] = h[i]
    BY AppendProperties
<1>2. isxdigit(c) /\ hextable(c) \in 0..15
    BY HexValue DEF HexChars
<1>3. \A k \in 1..(L \div 2) : Pairs(a)[k] = Pairs(h)[k]
    <2> SUFFICES ASSUME NEW k \in 1..(L \div 2) PROVE Pairs(a)[k] = Pairs(h)[k]
        OBVIOUS
    <2>1. 2 * k - 1 \in 1..L /\ 2 * k \in 1..L /\ k \in 1..((L + 1) \div 2)
        OBVIOUS
    <2>2. QED
        BY <1>1, <2>1 DEF Pairs
<1>4. CASE L % 2 = 0
    <2>1. Abs(h) = <<Pairs(h), FALSE, 0>>
        BY <1>4, AbsEven
    <2>2. Step(Abs(h), c) = <<Pairs(h), TRUE, hextable(c) * 16>>
        BY <1>2, <2>1, StepHigh
    <2>3. (L + 1) \div 2 = L \div 2 /\ Len(a) % 2 = 1
        BY <1>1, <1>4
    <2>4. Pairs(a) = Pairs(h)
        BY <1>1, <1>3, <2>3 DEF Pairs
    <2>5. Abs(a) = <<Pairs(a), TRUE, hextable(a[Len(a)]) * 16>>
        BY <1>1, <2>3, AbsOdd
    <2>6. QED
        BY <1>1, <2>2, <2>4, <2>5
<1>5. CASE L % 2 = 1
    <2>1. Abs(h) = <<Pairs(h), TRUE, hextable(h[L]) * 16>>
        BY <1>5, AbsOdd
    <2>2. Step(Abs(h), c) = <<Append(Pairs(h), hextable(h[L]) * 16 + hextable(c)), FALSE, 0>>
        <3> DEFINE p == hextable(h[L]) * 16
        <3>1. Step(<<Pairs(h), TRUE, p>>, c) = <<Append(Pairs(h), p + hextable(c)), FALSE, 0>>
            <4> HIDE DEF p
            <4> QED
                BY <1>2, StepLow
        <3>2. QED
            BY <2>1, <3>1, Zenon
    <2>3. (L + 1) \div 2 = L \div 2 + 1 /\ Len(a) % 2 = 0 /\ L >= 1
        BY <1>1, <1>5
    <2>4. Pairs(a)[L \div 2 + 1] = hextable(h[L]) * 16 + hextable(c)
        <3>1. 2 * (L \div 2 + 1) - 1 = L /\ 2 * (L \div 2 + 1) = L + 1
            BY <1>5
        <3>2. QED
            BY <1>1, <2>3, <3>1 DEF Pairs
    <2>5. Pairs(h) \in Seq(Nat) /\ Len(Pairs(h)) = L \div 2
        BY PairsType
    <2>6. Pairs(a) = Append(Pairs(h), hextable(h[L]) * 16 + hextable(c))
        BY <1>3, <2>3, <2>4, <2>5 DEF Pairs
    <2>7. Abs(a) = <<Pairs(a), FALSE, 0>>
        BY <1>1, <2>3, AbsEven
    <2>8. QED
        BY <2>2, <2>6, <2>7
<1>6. QED
    BY <1>4, <1>5

\* The state of a decoder that has seen nothing (rtf_object_begin).
Init0 == <<<<>>, FALSE, 0>>

LEMMA Init0Type == Init0 \in DState
<1>1. <<>> \in Seq(Nat) /\ 0 \in Nat /\ FALSE \in BOOLEAN
    OBVIOUS
<1>2. QED
    BY <1>1, Zenon DEF Init0, DState

(***************************************************************************)
(* From scratch, the automaton's state after any input is Abs of the hex   *)
(* digits of that input: by induction on the input, one byte at a time.    *)
(***************************************************************************)
LEMMA DecodeAbs ==
    ASSUME NEW s \in Seq(Chars) PROVE Decode(Init0, s) = Abs(HexOnly(s))
<1> DEFINE Q == {u \in Seq(Chars) : Decode(Init0, u) = Abs(HexOnly(u))}
<1>1. Init0 \in DState
    BY Init0Type
<1>2. <<>> \in Q
    <2>1. Decode(Init0, <<>>) = Init0
        BY <1>1, DecodeEmpty
    <2>2. Abs(HexOnly(<<>>)) = <<Pairs(<<>>), FALSE, 0>>
        <3>1. <<>> \in Seq(HexChars) /\ Len(<<>>) % 2 = 0
            OBVIOUS
        <3>2. QED
            BY <3>1, HexOnlyEmpty, AbsEven
    <2>3. Pairs(<<>>) = <<>>
        BY DEF Pairs
    <2>4. <<>> \in Seq(Chars)
        OBVIOUS
    <2>5. QED
        BY <2>1, <2>2, <2>3, <2>4, Zenon DEF Init0
<1>3. ASSUME NEW u \in Seq(Chars), NEW c \in Chars, u \in Q
      PROVE  Append(u, c) \in Q
    <2>1. Decode(Init0, Append(u, c)) = Step(Abs(HexOnly(u)), c)
        BY <1>1, <1>3, DecodeAppend
    <2>2. HexOnly(u) \in Seq(HexChars)
        BY HexOnlyType
    <2>3. CASE isxdigit(c)
        <3>1. HexOnly(Append(u, c)) = Append(HexOnly(u), c)
            BY <2>3, HexOnlyAppend
        <3>2. c \in HexChars
            BY <2>3 DEF HexChars
        <3>3. Abs(Append(HexOnly(u), c)) = Step(Abs(HexOnly(u)), c)
            BY <2>2, <3>2, AbsStep
        <3>4. Append(u, c) \in Seq(Chars)
            BY AppendProperties
        <3>5. QED
            BY <2>1, <3>1, <3>3, <3>4, Zenon
    <2>4. CASE ~isxdigit(c)
        <3>1. HexOnly(Append(u, c)) = HexOnly(u)
            BY <2>4, HexOnlyAppend
        <3>2. Append(u, c) \in Seq(Chars)
            BY AppendProperties
        <3>3. QED
            BY <1>3, <2>1, <2>4, <3>1, <3>2, StepSkip
    <2>5. QED
        BY <2>3, <2>4
<1> HIDE DEF Q
<1>4. Seq(Chars) \subseteq Q
    BY <1>2, <1>3, AppendInduction
<1>5. QED
    BY <1>4 DEF Q

\* The decoded bytes of a later run follow those already in outdata.
Join(o, r) == <<o \o r[1], r[2], r[3]>>

LEMMA JoinTuple ==
    ASSUME NEW o, NEW x, NEW b, NEW p PROVE Join(o, <<x, b, p>>) = <<o \o x, b, p>>
BY DEF Join

LEMMA StepJoin ==
    ASSUME NEW o \in Seq(Nat), NEW r \in DState, NEW c
    PROVE  Step(Join(o, r), c) = Join(o, Step(r, c))
<1>1. PICK x \in Seq(Nat), b \in BOOLEAN, p \in Nat : r = <<x, b, p>>
    BY DEF DState
<1>2. Join(o, r) = <<o \o x, b, p>>
    BY <1>1 DEF Join
<1>3. CASE ~isxdigit(c)
    BY <1>2, <1>3, StepSkip
<1>4. CASE isxdigit(c) /\ b = FALSE
    <2>1. Step(r, c) = <<x, TRUE, hextable(c) * 16>>
        BY <1>1, <1>4, StepHigh
    <2>2. Step(Join(o, r), c) = <<o \o x, TRUE, hextable(c) * 16>>
        BY <1>2, <1>4, StepHigh
    <2>3. Join(o, <<x, TRUE, hextable(c) * 16>>) = <<o \o x, TRUE, hextable(c) * 16>>
        BY JoinTuple
    <2>4. QED
        BY <2>1, <2>2, <2>3, Zenon
<1>5. CASE isxdigit(c) /\ b = TRUE
    <2>1. p + hextable(c) \in Nat
        BY <1>5, HexValue
    <2>2. Step(r, c) = <<Append(x, p + hextable(c)), FALSE, 0>>
        BY <1>1, <1>5, StepLow
    <2>3. Step(Join(o, r), c) = <<Append(o \o x, p + hextable(c)), FALSE, 0>>
        BY <1>2, <1>5, StepLow
    <2>4. o \o Append(x, p + hextable(c)) = Append(o \o x, p + hextable(c))
        BY <2>1, ConcatAppend, AppendIsConcat
    <2>5. Join(o, <<Append(x, p + hextable(c)), FALSE, 0>>)
            = <<o \o Append(x, p + hextable(c)), FALSE, 0>>
        BY JoinTuple
    <2>6. QED
        BY <2>2, <2>3, <2>4, <2>5, Zenon
<1>6. QED
    BY <1>3, <1>4, <1>5

\* Decoding after bytes o are already out: o followed by the decoding from
\* an empty outdata.
LEMMA DecodePrefix ==
    ASSUME NEW o \in Seq(Nat), NEW b \in BOOLEAN, NEW p \in Nat, NEW s \in Seq(Chars)
    PROVE  Decode(<<o, b, p>>, s) = Join(o, Decode(<<<<>>, b, p>>, s))
<1> DEFINE Q == {u \in Seq(Chars) : Decode(<<o, b, p>>, u) = Join(o, Decode(<<<<>>, b, p>>, u))}
<1>1. <<o, b, p>> \in DState /\ <<<<>>, b, p>> \in DState
    <2>1. <<>> \in Seq(Nat)
        OBVIOUS
    <2>2. QED
        BY <2>1, Zenon DEF DState
<1>2. <<>> \in Q
    <2>1. Decode(<<o, b, p>>, <<>>) = <<o, b, p>> /\ Decode(<<<<>>, b, p>>, <<>>) = <<<<>>, b, p>>
        BY <1>1, DecodeEmpty
    <2>2. Join(o, <<<<>>, b, p>>) = <<o \o <<>>, b, p>>
        BY JoinTuple
    <2>3. o \o <<>> = o /\ <<>> \in Seq(Chars)
        BY ConcatEmptySeq
    <2>4. QED
        BY <2>1, <2>2, <2>3, Zenon
<1>3. ASSUME NEW u \in Seq(Chars), NEW c \in Chars, u \in Q
      PROVE  Append(u, c) \in Q
    <2>1. Decode(<<o, b, p>>, Append(u, c)) = Step(Join(o, Decode(<<<<>>, b, p>>, u)), c)
        BY <1>1, <1>3, DecodeAppend
    <2>2. Decode(<<<<>>, b, p>>, u) \in DState
        BY <1>1, DecodeType
    <2>3. Step(Join(o, Decode(<<<<>>, b, p>>, u)), c)
            = Join(o, Step(Decode(<<<<>>, b, p>>, u), c))
        BY <2>2, StepJoin
    <2>4. Step(Decode(<<<<>>, b, p>>, u), c) = Decode(<<<<>>, b, p>>, Append(u, c))
        BY <1>1, DecodeAppend
    <2>5. Append(u, c) \in Seq(Chars)
        BY AppendProperties
    <2>6. QED
        BY <2>1, <2>3, <2>4, <2>5
<1> HIDE DEF Q
<1>4. Seq(Chars) \subseteq Q
    BY <1>2, <1>3, AppendInduction
<1>5. QED
    BY <1>4 DEF Q

\* Decoding s then t, from the state s leaves, is decoding s \o t.
LEMMA DecodeConcat ==
    ASSUME NEW st \in DState, NEW s \in Seq(Chars), NEW t \in Seq(Chars)
    PROVE  Decode(st, s \o t) = Decode(Decode(st, s), t)
<1> DEFINE Q == {u \in Seq(Chars) : Decode(st, s \o u) = Decode(Decode(st, s), u)}
<1>1. Decode(st, s) \in DState
    BY DecodeType
<1>2. <<>> \in Q
    BY <1>1, DecodeEmpty, ConcatEmptySeq
<1>3. ASSUME NEW u \in Seq(Chars), NEW c \in Chars, u \in Q
      PROVE  Append(u, c) \in Q
    <2>1. s \o Append(u, c) = Append(s \o u, c)
        BY ConcatAppend, AppendIsConcat
    <2>2. s \o u \in Seq(Chars) /\ Append(u, c) \in Seq(Chars)
        BY ConcatProperties, AppendProperties
    <2>3. Decode(st, Append(s \o u, c)) = Step(Decode(st, s \o u), c)
        BY <2>2, DecodeAppend
    <2>4. Decode(Decode(st, s), Append(u, c)) = Step(Decode(Decode(st, s), u), c)
        BY <1>1, DecodeAppend
    <2>5. QED
        BY <1>3, <2>1, <2>2, <2>3, <2>4
<1> HIDE DEF Q
<1>4. Seq(Chars) \subseteq Q
    BY <1>2, <1>3, AppendInduction
<1>5. QED
    BY <1>4 DEF Q

(***************************************************************************)
(* The inductive invariant: the decoder's state is the automaton run from  *)
(* scratch over everything fed.  It holds because a Process step decodes   *)
(* its run from the state the earlier runs left (DecodeConcat) and appends *)
(* the bytes to outdata (DecodePrefix).                                    *)
(***************************************************************************)
HexInv == fed \in Seq(Chars) /\ <<out, has_partial, partial>> = Decode(Init0, fed)

LEMMA HexInit == Init => HexInv
<1> SUFFICES ASSUME Init PROVE HexInv
    OBVIOUS
<1>1. fed = <<>> /\ <<>> \in Seq(Chars)
    BY DEF Init
<1>2. Decode(Init0, <<>>) = Init0
    BY Init0Type, DecodeEmpty
<1>3. <<out, has_partial, partial>> = Init0
    BY Zenon DEF Init, Init0
<1>4. QED
    BY <1>1, <1>2, <1>3 DEF HexInv

\* The decoder's state components have their types.
LEMMA StateParts ==
    ASSUME NEW o, NEW b, NEW p, <<o, b, p>> \in DState
    PROVE  o \in Seq(Nat) /\ b \in BOOLEAN /\ p \in Nat
BY Zenon DEF DState

LEMMA HexStep == HexInv /\ [Next]_vars => HexInv'
<1> SUFFICES ASSUME HexInv, [Next]_vars PROVE HexInv'
    OBVIOUS
<1>1. CASE UNCHANGED vars
    BY <1>1 DEF HexInv, vars
<1>2. CASE Process
    <2>1. PICK n \in 1..ChunkMax, in \in [1..ChunkMax -> Chars] :
              /\ out' = out \o DecodeRun(SubSeq(in, 1, n))[1]
              /\ has_partial' = DecodeRun(SubSeq(in, 1, n))[2]
              /\ partial' = DecodeRun(SubSeq(in, 1, n))[3]
              /\ fed' = fed \o SubSeq(in, 1, n)
        BY <1>2, Zenon DEF Process
    <2> DEFINE run == SubSeq(in, 1, n)
    <2>2. run \in Seq(Chars)
        <3>1. \A i \in 1..n : in[i] \in Chars
            BY HexAssumption
        <3>2. QED
            BY <3>1, SubSeqProperties
    <2>3. Decode(Init0, fed) \in DState /\ Init0 \in DState
        BY Init0Type, DecodeType DEF HexInv
    <2>4. out \in Seq(Nat) /\ has_partial \in BOOLEAN /\ partial \in Nat
        BY <2>3, StateParts DEF HexInv
    <2>5. Decode(Init0, fed \o run) = Decode(<<out, has_partial, partial>>, run)
        BY <2>2, <2>3, DecodeConcat DEF HexInv
    <2>6. Decode(<<out, has_partial, partial>>, run)
            = Join(out, Decode(<<<<>>, has_partial, partial>>, run))
        BY <2>2, <2>4, DecodePrefix
    <2>7. Join(out, Decode(<<<<>>, has_partial, partial>>, run))
            = <<out', has_partial', partial'>>
        BY <2>1 DEF Join, DecodeRun
    <2>8. fed' \in Seq(Chars)
        BY <2>1, <2>2, ConcatProperties DEF HexInv
    <2>9. QED
        BY <2>1, <2>5, <2>6, <2>7, <2>8 DEF HexInv
<1>3. QED
    BY <1>1, <1>2 DEF Next

LEMMA HexInvRoundTrip == HexInv => RoundTrip
<1> SUFFICES ASSUME HexInv PROVE RoundTrip
    OBVIOUS
<1> DEFINE h == HexOnly(fed)
<1>1. h \in Seq(HexChars)
    BY HexOnlyType DEF HexInv
<1>2. <<out, has_partial, partial>> = Abs(h)
    BY DecodeAbs DEF HexInv
<1>3. Reference(fed) = Pairs(h)
    BY DEF Reference, Pairs
<1>4. CASE Len(h) % 2 = 0
    <2>1. <<out, has_partial, partial>> = <<Pairs(h), FALSE, 0>>
        BY <1>1, <1>2, <1>4, AbsEven
    <2>2. out = Pairs(h) /\ has_partial = FALSE
        BY <2>1, Zenon
    <2>3. ~(Len(h) % 2 = 1)
        BY <1>4
    <2>4. QED
        BY <1>3, <2>2, <2>3, Zenon DEF RoundTrip
<1>5. CASE Len(h) % 2 = 1
    <2>1. <<out, has_partial, partial>> = <<Pairs(h), TRUE, hextable(h[Len(h)]) * 16>>
        BY <1>1, <1>2, <1>5, AbsOdd
    <2>2. out = Pairs(h) /\ has_partial = TRUE /\ partial = hextable(h[Len(h)]) * 16
        BY <2>1, Zenon
    <2>3. QED
        BY <1>3, <1>5, <2>2, Zenon DEF RoundTrip
<1>6. QED
    BY <1>1, <1>4, <1>5

(***************************************************************************)
(* Hex-decode round trip, for every set of input bytes and every bound:    *)
(* however the text reaching rtf_object_process is cut into runs, the      *)
(* bytes decoded are the hex decoding of everything fed, and a nibble is   *)
(* pending in data->partial exactly when an odd number of hex digits has   *)
(* been fed, holding the last of them.                                     *)
(***************************************************************************)
THEOREM HexRoundTrip == Spec => []RoundTrip
<1>1. Init => HexInv
    BY HexInit
<1>2. HexInv /\ [Next]_vars => HexInv'
    BY HexStep
<1>3. HexInv => RoundTrip
    BY HexInvRoundTrip
<1>4. QED
    BY <1>1, <1>2, <1>3, PTL DEF Spec
=============================================================================
