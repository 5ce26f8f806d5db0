--------------------------- MODULE RtfParserBounds ---------------------------
(***************************************************************************)
(* Proofs of the two bounds of the parser's integers: the overflow test of *)
(* controlword_param is exact, and push_state never stores a frame beyond  *)
(* the storage it allocated.  They rest on the invariant IInv proved in    *)
(* RtfParserProofs.                                                        *)
(***************************************************************************)
EXTENDS RtfParserProofs, TLAPS

(***************************************************************************)
(* The test `x > MAX / 10 || x * 10 > MAX - d` of cli_scanrtf is the exact *)
(* test `x * 10 + d > MAX`, for every bound MAX, parameter x and digit d:  *)
(* its first half is what keeps x * 10 from overflowing, and whenever it   *)
(* fires the sum is over the bound anyway.                                 *)
(***************************************************************************)
LEMMA OverflowTestExact ==
    ASSUME NEW M \in Nat, NEW x \in Nat, NEW d \in 0..9
    PROVE  (x > M \div 10 \/ x * 10 > M - d) <=> x * 10 + d > M
<1>1. M < 10 * (M \div 10) + 10
    OBVIOUS
<1>2. x > M \div 10 => x * 10 + d > M
    BY <1>1
<1>3. QED
    BY <1>2


\* The actions a digit in CONTROL_WORD_PARAM can take: store it or reject it.
LEMMA DigitActions ==
    ASSUME IInv, Next,
           phase = "scan", state.parse_state = "CONTROL_WORD_PARAM", byte \in Digits
    PROVE  ParamDigit \/ ParamOverflow
<1>1. byte \notin Letters /\ byte # EOF
    BY ConstantsAssumption
<1>2. /\ ~Start /\ ~StartStackFails /\ ~StartGentempFails /\ ~StartMkdirFails
      /\ ~StartActionsFail
    BY DEF Start, StartStackFails, StartGentempFails, StartMkdirFails, StartActionsFail
<1>3. /\ ~PushDefault /\ ~PushFrame /\ ~PushGrowFails /\ ~PopGroup
      /\ ~PopGroupEndFails /\ ~Backslash
    BY DEF PushDefault, PushFrame, PushGrowFails, PopGroup, PopGroupEndFails,
           Backslash, InMain
<1>4. /\ ~TextSkip /\ ~TextProcess /\ ~TextBeginFails /\ ~TextProcessFails
    BY DEF TextSkip, TextProcess, TextBeginFails, TextProcessFails
<1>5. /\ ~ControlLetter /\ ~ControlSymbol /\ ~SymbolSkip /\ ~WordTooLong
      /\ ~WordLetter /\ ~WordSpace /\ ~WordDigit /\ ~WordMinus /\ ~WordOther
    BY DEF ControlLetter, ControlSymbol, SymbolSkip, WordTooLong, WordLetter,
           WordSpace, WordDigit, WordMinus, WordOther, InState
<1>6. /\ ~ParamLetter /\ ~ParamEnd /\ ~InterpretUnknown /\ ~InterpretAction
    BY <1>1 DEF ParamLetter, ParamEnd, InterpretUnknown, InterpretAction, InState
<1>7. ~Finish
    BY <1>1 DEF Finish
<1>8. QED
    BY <1>2, <1>3, <1>4, <1>5, <1>6, <1>7, Zenon DEF Next

\* A step of the parser from a state of IInv satisfies DigitStep.
LEMMA DigitStepOK == IInv /\ [Next]_vars => [DigitStep]_vars
<1> SUFFICES ASSUME IInv, [Next]_vars PROVE [DigitStep]_vars
    OBVIOUS
<1>1. CASE UNCHANGED vars
    BY <1>1
<1>2. CASE Next
    <2> SUFFICES ASSUME phase = "scan", state.parse_state = "CONTROL_WORD_PARAM",
                        byte \in Digits
                 PROVE  state'.parse_state = "CONTROL_WORD_PARAM"
                          <=> param * 10 + DigitValue(byte) <= ParamMax
        BY DEF DigitStep
    <2>1. /\ ParamMax \in Nat /\ param \in Nat /\ DigitValue(byte) \in 0..9
          /\ state \in Frame
        BY ConstNums, DigitValueType, IInvSplit DEF ParseOK, TypeData
    <2>2. ParamOverflows(byte) <=> param * 10 + DigitValue(byte) > ParamMax
        BY <2>1, OverflowTestExact DEF ParamOverflows
    <2>3. CASE ParamDigit
        <3>1. state' = state /\ ~ParamOverflows(byte)
            BY <2>3 DEF ParamDigit
        <3>2. QED
            BY <2>1, <2>2, <3>1
    <2>4. CASE ParamOverflow
        <3>1. state'.parse_state = "MAIN" /\ ParamOverflows(byte)
            BY <2>1, <2>4 DEF ParamOverflow, Goto, Frame
        <3>2. QED
            BY <2>1, <2>2, <3>1
    <2>5. QED
        BY <1>2, <2>3, <2>4, DigitActions
<1>3. QED
    BY <1>1, <1>2

(***************************************************************************)
(* For every INT64_MAX, a digit of a control-word parameter is stored      *)
(* exactly when the parameter stays within the bound, and otherwise the    *)
(* parser goes back to MAIN (cli_scanrtf's overflow test).                 *)
(***************************************************************************)
THEOREM ParserDigitAcceptedExactly == Spec => DigitAcceptedExactly
BY ParserInvariant, DigitStepOK, PTL DEF DigitAcceptedExactly, Spec


(***************************************************************************)
(* The storage bound, strengthened: no frame is stored before the stack    *)
(* storage is allocated at the start of cli_scanrtf.                       *)
(***************************************************************************)
StorageInv ==
    /\ stackSize \in Nat
    /\ StorageBound
    /\ phase = "start" => stack = <<>>

\* What a step that neither pushes nor pops does to the storage.
KeepOrDone == UNCHANGED <<stack, stackSize>> /\ (phase' = phase \/ phase' = "done")
\* What SCAN_CLEANUP does to it: every frame is popped, the storage freed.
Dropped == stack' = <<>> /\ stackSize' = stackSize /\ phase' = "done"

LEMMA CleanupDrops ==
    ASSUME NEW s, NEW r, NEW lv, NEW cf, NEW det, Cleanup(s, r, lv, cf, det)
    PROVE  Dropped
BY Zenon DEF Cleanup, Dropped

\* The steps other than Start, PushFrame and PopGroup.
LEMMA StorageKinds ==
    ASSUME Next, ~Start, ~PushFrame, ~PopGroup
    PROVE  KeepOrDone \/ Dropped
<1>1. CASE StartStackFails \/ StartGentempFails \/ StartMkdirFails \/ StartActionsFail
    BY <1>1, Zenon DEF StartStackFails, StartGentempFails, StartMkdirFails,
                       StartActionsFail, KeepOrDone
<1>2. CASE PushDefault \/ Backslash \/ TextSkip \/ TextProcess
    BY <1>2, Zenon DEF PushDefault, Backslash, TextSkip, TextProcess, KeepOrDone
<1>3. CASE PushGrowFails
    BY <1>3, CleanupDrops DEF PushGrowFails
<1>4. CASE PopGroupEndFails
    <2>1. PICK rc \in EndResults(state.cb_data) \ {CLEAN} :
              Cleanup([state EXCEPT !.cb_data = NULL], rc, live \ {state.cb_data},
                      [ctxFile EXCEPT ![state.cb_data] = FALSE],
                      detected \/ rc = "VIRUS")
        BY <1>4 DEF PopGroupEndFails
    <2>2. QED
        BY <2>1, Zenon DEF Cleanup, Dropped
<1>5. CASE TextBeginFails
    BY <1>5, CleanupDrops DEF TextBeginFails
<1>6. CASE TextProcessFails
    <2>1. PICK k \in ProcessCtxs, o \in ProcessOutcomes :
              Cleanup([state EXCEPT !.cb_data = k], o[1], live \cup {k},
                      [ctxFile EXCEPT ![k] = o[2]], detected \/ o[1] = "VIRUS")
        BY <1>6, Zenon DEF TextProcessFails
    <2>2. QED
        BY <2>1, Zenon DEF Cleanup, Dropped
<1>7. CASE ControlLetter \/ ControlSymbol \/ SymbolSkip \/ WordTooLong \/ WordSpace
           \/ WordDigit \/ WordMinus \/ WordOther \/ ParamOverflow \/ ParamEnd
           \/ InterpretUnknown
    BY <1>7, Zenon DEF ControlLetter, ControlSymbol, SymbolSkip, WordTooLong,
                       WordSpace, WordDigit, WordMinus, WordOther, ParamOverflow,
                       ParamEnd, InterpretUnknown, Goto, KeepOrDone
<1>8. CASE WordLetter \/ ParamDigit \/ ParamLetter \/ InterpretAction
    BY <1>8, Zenon DEF WordLetter, ParamDigit, ParamLetter, InterpretAction, KeepOrDone
<1>9. CASE Finish
    BY <1>9, CleanupDrops DEF Finish
<1>10. QED
    BY <1>1, <1>2, <1>3, <1>4, <1>5, <1>6, <1>7, <1>8, <1>9 DEF Next

\* Every step keeps StorageInv.
LEMMA StorageStep == IInv /\ StorageInv /\ [Next]_vars => StorageInv'
<1> SUFFICES ASSUME IInv, StorageInv, [Next]_vars PROVE StorageInv'
    OBVIOUS
<1>1. stack \in Seq(Frame) /\ StackGrow \in Nat \ {0} /\ StackInit \in Nat
    BY ConstNums, IInvSplit DEF TypeData
<1>2. CASE UNCHANGED vars
    BY <1>2 DEF StorageInv, StorageBound, vars
<1>3. CASE Start
    <2>1. stack = <<>> /\ stack' = stack /\ stackSize' = StackInit /\ phase' = "scan"
        BY <1>3 DEF Start, StorageInv
    <2>2. QED
        BY <1>1, <2>1 DEF StorageInv, StorageBound
<1>4. CASE PushFrame
    <2>1. /\ stack' = Append(stack, state)
          /\ stackSize' = IF Len(stack) >= stackSize THEN stackSize + StackGrow
                                                      ELSE stackSize
          /\ phase' = phase /\ phase = "scan"
        BY <1>4 DEF PushFrame, InMain
    <2>2. QED
        BY <1>1, <2>1 DEF StorageInv, StorageBound
<1>5. CASE PopGroup
    <2>1. stack' = PopState(state, stack)[2] /\ stackSize' = stackSize /\ phase' = phase
          /\ phase = "scan"
        BY <1>5 DEF PopGroup, InMain
    <2>2. Len(PopState(state, stack)[2]) <= Len(stack)
        <3>1. CASE state.default_elements > 0 \/ stack = <<>>
            BY <3>1 DEF PopState
        <3>2. CASE ~(state.default_elements > 0) /\ stack # <<>>
            <4>1. Len(stack) >= 1
                BY <1>1, <3>2
            <4>2. PopState(state, stack)[2] = SubSeq(stack, 1, Len(stack) - 1)
                BY <3>2 DEF PopState
            <4>3. QED
                BY <1>1, <4>1, <4>2, PopSeq
        <3>3. QED
            BY <3>1, <3>2
    <2>3. QED
        BY <1>1, <2>1, <2>2 DEF StorageInv, StorageBound
<1>6. CASE Next /\ ~Start /\ ~PushFrame /\ ~PopGroup
    <2>1. CASE KeepOrDone
        BY <2>1 DEF KeepOrDone, StorageInv, StorageBound
    <2>2. CASE Dropped
        BY <2>2 DEF Dropped, StorageInv, StorageBound
    <2>3. QED
        BY <1>6, <2>1, <2>2, StorageKinds
<1>7. QED
    BY <1>2, <1>3, <1>4, <1>5, <1>6

(***************************************************************************)
(* For every initial size and growth of the stack storage, push_state      *)
(* never stores a frame beyond the storage allocated for it.               *)
(***************************************************************************)
THEOREM ParserStorageBound == Spec => []StorageBound
<1>1. Init => StorageInv
    BY DEF Init, StorageInv, StorageBound
<1>2. StorageInv => StorageBound
    BY DEF StorageInv
<1>3. QED
    BY <1>1, <1>2, ParserInvariant, StorageStep, PTL DEF Spec

=============================================================================
