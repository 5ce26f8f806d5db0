-------------------------- MODULE RtfParserProofs ---------------------------
(***************************************************************************)
(* Proofs about the RTF tokenizer and group stack (RtfParser) for every    *)
(* value of the constants.                                                 *)
(***************************************************************************)
EXTENDS RtfParser, SequenceTheorems, TLAPS

\* A frame's callbacks: begin and end are bound and cleared together, and a
\* context is only ever held by a frame whose cb_end will free it.
FrameOK(f) == f.cb_begin = f.cb_end /\ (f.cb_data # NULL => f.cb_end)

\* Before parsing starts nothing is allocated or created.
StartClean ==
    phase = "start" => live = {} /\ ~tmpdirExists /\ \A c \in CtxIds : ~ctxFile[c]

\* While in a parameter the accumulated value is not negative, and every
\* saved frame was saved in MAIN (push_state runs only on a '{' there).
ParseOK ==
    /\ state.parse_state = "CONTROL_WORD_PARAM" => param \in 0..ParamMax
    /\ \A i \in 1..Len(stack) : stack[i].parse_state = "MAIN"

IInv ==
    /\ TypeOK
    /\ ContextOwnership
    /\ NoLeakAtReturn
    /\ FrameOK(state) /\ \A i \in 1..Len(stack) : FrameOK(stack[i])
    /\ StartClean
    /\ ParseOK

\* TypeOK split into its data and its Boolean parts, for SMT and Zenon.
TypeData ==
    /\ state \in Frame /\ stack \in Seq(Frame) /\ stackSize \in Nat
    /\ controlword \in Seq(Letters \cup {Space}) /\ Len(controlword) <= MaxWord
    /\ param \in -ParamMax..ParamMax /\ paramSign \in {-1, 0, 1}
    /\ byte \in Bytes \cup {EOF}
    /\ live \subseteq CtxIds
    /\ phase \in {"start", "scan", "done"} /\ ret \in Results
    /\ objScope \in Seq(BOOLEAN) /\ Len(objScope) >= 1

TypeFlags ==
    /\ ctxFile \in [CtxIds -> BOOLEAN]
    /\ stackAlloc \in BOOLEAN /\ tmpdirExists \in BOOLEAN /\ detected \in BOOLEAN

\* The typing of the control-word variables alone.
CWType ==
    /\ controlword \in Seq(Letters \cup {Space}) /\ Len(controlword) <= MaxWord
    /\ param \in -ParamMax..ParamMax /\ paramSign \in {-1, 0, 1}

\* The part of IInv about contexts, files and the temp directory.
OwnPart ==
    /\ ContextOwnership /\ NoLeakAtReturn
    /\ FrameOK(state) /\ \A i \in 1..Len(stack) : FrameOK(stack[i])
    /\ StartClean

\* The facts about the constants the proofs use, one backend at a time.
LEMMA ConstNums ==
    /\ MaxWord \in Nat \ {0} /\ ParamMax \in Nat \ {0}
    /\ StackInit \in Nat /\ StackGrow \in Nat \ {0} /\ MaxDepth \in Nat
BY ConstantsAssumption, Zenon

LEMMA ConstSets ==
    /\ Digits \subseteq DecimalDigits
    /\ NULL \notin CtxIds
    /\ KeepTmp \in BOOLEAN /\ HostFails \in BOOLEAN
BY ConstantsAssumption, Zenon

LEMMA DigitValueType ==
    ASSUME NEW d \in Digits PROVE DigitValue(d) \in 0..9
<1>1. PICK i \in 1..10 : d = DigitChars[i]
    BY ConstSets DEF DecimalDigits
<1>2. \E n \in 0..9 : DigitChars[n + 1] = d
    BY <1>1
<1>3. QED
    BY <1>2 DEF DigitValue

(***************************************************************************)
(* A step that keeps the stack, the contexts, the phase, the temp          *)
(* directory and the callbacks of the working frame keeps OwnPart.         *)
(***************************************************************************)
LEMMA OwnFrozen ==
    ASSUME OwnPart, stack' = stack, live' = live, ctxFile' = ctxFile,
           phase' = phase, tmpdirExists' = tmpdirExists,
           state'.cb_begin = state.cb_begin, state'.cb_end = state.cb_end,
           state'.cb_data = state.cb_data
    PROVE  OwnPart'
BY DEF OwnPart, ContextOwnership, NoLeakAtReturn, FrameOK, StartClean, Owners

LEMMA TypeSplit == TypeOK <=> TypeData /\ TypeFlags
BY Zenon DEF TypeOK, TypeData, TypeFlags

LEMMA IInvSplit == IInv <=> TypeData /\ TypeFlags /\ OwnPart /\ ParseOK
BY TypeSplit, Zenon DEF IInv, OwnPart

\* The byte a step consumes is a byte of the alphabet or EOF.
LEMMA ConsumeType ==
    ASSUME NEW sc, Consume(sc) PROVE byte' \in Bytes \cup {EOF}
BY DEF Consume, NextBytes

LEMMA BaseFrame == base_state \in Frame
BY DEF base_state, Frame, ParseStates

LEMMA OneLess ==
    ASSUME NEW n \in Nat, n >= 1 PROVE (IF 1 <= n - 1 THEN n - 1 ELSE 0) = n - 1
OBVIOUS

\* Dropping the last element of a non-empty sequence (pop_state, '}').
LEMMA PopSeq ==
    ASSUME NEW S, NEW sq \in Seq(S), Len(sq) >= 1
    PROVE  /\ SubSeq(sq, 1, Len(sq) - 1) \in Seq(S)
           /\ Len(SubSeq(sq, 1, Len(sq) - 1)) = Len(sq) - 1
           /\ \A i \in 1..Len(sq) - 1 : SubSeq(sq, 1, Len(sq) - 1)[i] = sq[i]
           /\ sq[Len(sq)] \in S
<1>1. Len(sq) \in Nat /\ \A i \in 1..Len(sq) - 1 : sq[i] \in S
    OBVIOUS
<1>2. /\ SubSeq(sq, 1, Len(sq) - 1) \in Seq(S)
      /\ Len(SubSeq(sq, 1, Len(sq) - 1)) = IF 1 <= Len(sq) - 1 THEN Len(sq) - 1 ELSE 0
      /\ \A i \in 1..(Len(sq) - 1) - 1 + 1 : SubSeq(sq, 1, Len(sq) - 1)[i] = sq[1 + i - 1]
    BY <1>1, SubSeqProperties
<1>3. sq[Len(sq)] \in S
    OBVIOUS
<1>4. Len(SubSeq(sq, 1, Len(sq) - 1)) = Len(sq) - 1
    <2>1. Len(SubSeq(sq, 1, Len(sq) - 1)) = IF 1 <= Len(sq) - 1 THEN Len(sq) - 1 ELSE 0
        BY <1>2, Zenon
    <2>2. (IF 1 <= Len(sq) - 1 THEN Len(sq) - 1 ELSE 0) = Len(sq) - 1
        BY <1>1, OneLess
    <2>3. QED
        BY <2>1, <2>2, Zenon
<1>5. \A i \in 1..Len(sq) - 1 : SubSeq(sq, 1, Len(sq) - 1)[i] = sq[i]
    BY <1>1, <1>2
<1>6. QED
    BY <1>2, <1>3, <1>4, <1>5

\* Replacing the last element of a non-empty sequence.
LEMMA SetLastSeq ==
    ASSUME NEW S, NEW sq \in Seq(S), Len(sq) >= 1, NEW x \in S
    PROVE  [sq EXCEPT ![Len(sq)] = x] \in Seq(S) /\ Len([sq EXCEPT ![Len(sq)] = x]) = Len(sq)
OBVIOUS

\* A default frame with a count and a toplevel bit is a frame.
LEMMA CountedFrame ==
    ASSUME NEW n \in Nat, NEW t \in BOOLEAN
    PROVE  [base_state EXCEPT !.default_elements = n, !.toplevel = t] \in Frame
BY DEF base_state, Frame, ParseStates

(***************************************************************************)
(* A step of the control-word machine: it changes the parse state and the *)
(* control-word variables of the working frame, and perhaps consumes the  *)
(* byte, and nothing else.                                                *)
(***************************************************************************)
LEMMA GotoStep ==
    ASSUME IInv,
           state' = [state EXCEPT !.parse_state = state'.parse_state],
           state'.parse_state \in ParseStates,
           UNCHANGED <<stack, stackSize, live, ctxFile, phase, ret, stackAlloc,
                       tmpdirExists, objScope, detected>>,
           controlword' \in Seq(Letters \cup {Space}), Len(controlword') <= MaxWord,
           param' \in -ParamMax..ParamMax, paramSign' \in {-1, 0, 1},
           byte' \in Bytes \cup {EOF},
           state'.parse_state = "CONTROL_WORD_PARAM" => param' \in 0..ParamMax
    PROVE  IInv'
<1>1. TypeData /\ TypeFlags /\ OwnPart /\ ParseOK
    BY IInvSplit
<1>2. TypeData'
    BY <1>1 DEF TypeData, Frame
<1>3. TypeFlags'
    BY <1>1, Zenon DEF TypeFlags
<1>4. state'.cb_begin = state.cb_begin /\ state'.cb_end = state.cb_end
      /\ state'.cb_data = state.cb_data
    BY <1>1 DEF TypeData, Frame
<1>5. OwnPart'
    BY <1>1, <1>4, OwnFrozen
<1>6. ParseOK'
    BY <1>1 DEF ParseOK
<1>7. QED
    BY <1>2, <1>3, <1>5, <1>6, Zenon DEF IInv, OwnPart, TypeOK, TypeData, TypeFlags

\* The step ControlLetter keeps the invariant.
LEMMA ControlLetterIInv == IInv /\ ControlLetter => IInv'
<1> SUFFICES ASSUME IInv, ControlLetter PROVE IInv'
    OBVIOUS
<1>1. TypeData /\ ParseOK
    BY IInvSplit
<1>0. CWType
    BY <1>1 DEF TypeData, CWType
<1>6. state \in Frame
    BY <1>1 DEF TypeData
<1>2. byte' \in Bytes \cup {EOF}
    BY <1>1 DEF ControlLetter, TypeData
<1>3. state' = [state EXCEPT !.parse_state = state'.parse_state]
      /\ state'.parse_state \in ParseStates
    BY <1>6 DEF ControlLetter, InState, Goto, Frame, ParseStates
<1>4. controlword' \in Seq(Letters \cup {Space}) /\ Len(controlword') <= MaxWord
    BY <1>0, ConstNums DEF ControlLetter, CWType
<1>5. param' \in -ParamMax..ParamMax /\ paramSign' \in {-1, 0, 1}
    BY <1>0, ConstNums DEF ControlLetter, CWType
<1>8. state'.parse_state = "CONTROL_WORD_PARAM" => param' \in 0..ParamMax
    <2>1. state'.parse_state = "CONTROL_WORD"
        BY <1>6 DEF ControlLetter, InState, Goto
    <2>2. QED
        BY <2>1
<1>9. UNCHANGED <<stack, stackSize, live, ctxFile, phase, ret, stackAlloc,
                  tmpdirExists, objScope, detected>>
    BY DEF ControlLetter, InState, Goto
<1>10. QED
    BY <1>2, <1>3, <1>4, <1>5, <1>8, <1>9, GotoStep

\* The step ControlSymbol keeps the invariant.
LEMMA ControlSymbolIInv == IInv /\ ControlSymbol => IInv'
<1> SUFFICES ASSUME IInv, ControlSymbol PROVE IInv'
    OBVIOUS
<1>1. TypeData /\ ParseOK
    BY IInvSplit
<1>0. CWType
    BY <1>1 DEF TypeData, CWType
<1>6. state \in Frame
    BY <1>1 DEF TypeData
<1>2. byte' \in Bytes \cup {EOF}
    BY <1>1 DEF ControlSymbol, TypeData
<1>3. state' = [state EXCEPT !.parse_state = state'.parse_state]
      /\ state'.parse_state \in ParseStates
    BY <1>6 DEF ControlSymbol, InState, Goto, Frame, ParseStates
<1>4. controlword' \in Seq(Letters \cup {Space}) /\ Len(controlword') <= MaxWord
    BY <1>0, ConstNums DEF ControlSymbol, CWType
<1>5. param' \in -ParamMax..ParamMax /\ paramSign' \in {-1, 0, 1}
    BY <1>0, ConstNums DEF ControlSymbol, CWType
<1>8. state'.parse_state = "CONTROL_WORD_PARAM" => param' \in 0..ParamMax
    <2>1. state'.parse_state = "CONTROL_SYMBOL"
        BY <1>6 DEF ControlSymbol, InState, Goto
    <2>2. QED
        BY <2>1
<1>9. UNCHANGED <<stack, stackSize, live, ctxFile, phase, ret, stackAlloc,
                  tmpdirExists, objScope, detected>>
    BY DEF ControlSymbol, InState, Goto
<1>10. QED
    BY <1>2, <1>3, <1>4, <1>5, <1>8, <1>9, GotoStep

\* The step SymbolSkip keeps the invariant.
LEMMA SymbolSkipIInv == IInv /\ SymbolSkip => IInv'
<1> SUFFICES ASSUME IInv, SymbolSkip PROVE IInv'
    OBVIOUS
<1>1. TypeData /\ ParseOK
    BY IInvSplit
<1>0. CWType
    BY <1>1 DEF TypeData, CWType
<1>6. state \in Frame
    BY <1>1 DEF TypeData
<1>2. byte' \in Bytes \cup {EOF}
    BY DEF SymbolSkip, Consume, NextBytes
<1>3. state' = [state EXCEPT !.parse_state = state'.parse_state]
      /\ state'.parse_state \in ParseStates
    BY <1>6 DEF SymbolSkip, InState, Goto, Frame, ParseStates
<1>4. controlword' \in Seq(Letters \cup {Space}) /\ Len(controlword') <= MaxWord
    BY <1>0, ConstNums DEF SymbolSkip, CWType
<1>5. param' \in -ParamMax..ParamMax /\ paramSign' \in {-1, 0, 1}
    BY <1>0, ConstNums DEF SymbolSkip, CWType
<1>8. state'.parse_state = "CONTROL_WORD_PARAM" => param' \in 0..ParamMax
    <2>1. state'.parse_state = "MAIN"
        BY <1>6 DEF SymbolSkip, InState, Goto
    <2>2. QED
        BY <2>1
<1>9. UNCHANGED <<stack, stackSize, live, ctxFile, phase, ret, stackAlloc,
                  tmpdirExists, objScope, detected>>
    BY DEF SymbolSkip, InState, Goto
<1>10. QED
    BY <1>2, <1>3, <1>4, <1>5, <1>8, <1>9, GotoStep

\* The step WordTooLong keeps the invariant.
LEMMA WordTooLongIInv == IInv /\ WordTooLong => IInv'
<1> SUFFICES ASSUME IInv, WordTooLong PROVE IInv'
    OBVIOUS
<1>1. TypeData /\ ParseOK
    BY IInvSplit
<1>0. CWType
    BY <1>1 DEF TypeData, CWType
<1>6. state \in Frame
    BY <1>1 DEF TypeData
<1>2. byte' \in Bytes \cup {EOF}
    BY <1>1 DEF WordTooLong, TypeData
<1>3. state' = [state EXCEPT !.parse_state = state'.parse_state]
      /\ state'.parse_state \in ParseStates
    BY <1>6 DEF WordTooLong, InState, Goto, Frame, ParseStates
<1>4. controlword' \in Seq(Letters \cup {Space}) /\ Len(controlword') <= MaxWord
    BY <1>0, ConstNums DEF WordTooLong, CWType
<1>5. param' \in -ParamMax..ParamMax /\ paramSign' \in {-1, 0, 1}
    BY <1>0, ConstNums DEF WordTooLong, CWType
<1>8. state'.parse_state = "CONTROL_WORD_PARAM" => param' \in 0..ParamMax
    <2>1. state'.parse_state = "MAIN"
        BY <1>6 DEF WordTooLong, InState, Goto
    <2>2. QED
        BY <2>1
<1>9. UNCHANGED <<stack, stackSize, live, ctxFile, phase, ret, stackAlloc,
                  tmpdirExists, objScope, detected>>
    BY DEF WordTooLong, InState, Goto
<1>10. QED
    BY <1>2, <1>3, <1>4, <1>5, <1>8, <1>9, GotoStep

\* The step WordLetter keeps the invariant.
LEMMA WordLetterIInv == IInv /\ WordLetter => IInv'
<1> SUFFICES ASSUME IInv, WordLetter PROVE IInv'
    OBVIOUS
<1>1. TypeData /\ ParseOK
    BY IInvSplit
<1>0. CWType
    BY <1>1 DEF TypeData, CWType
<1>6. state \in Frame
    BY <1>1 DEF TypeData
<1>2. byte' \in Bytes \cup {EOF}
    BY DEF WordLetter, Consume, NextBytes
<1>3. state' = [state EXCEPT !.parse_state = state'.parse_state]
      /\ state'.parse_state \in ParseStates
    BY <1>6 DEF WordLetter, InState, Frame, ParseStates
<1>4. controlword' \in Seq(Letters \cup {Space}) /\ Len(controlword') <= MaxWord
    BY <1>0, ConstNums DEF WordLetter, CWType
<1>5. param' \in -ParamMax..ParamMax /\ paramSign' \in {-1, 0, 1}
    BY <1>0, ConstNums DEF WordLetter, CWType
<1>8. state'.parse_state = "CONTROL_WORD_PARAM" => param' \in 0..ParamMax
    <2>1. state'.parse_state = "CONTROL_WORD"
        BY <1>6 DEF WordLetter, InState
    <2>2. QED
        BY <2>1
<1>9. UNCHANGED <<stack, stackSize, live, ctxFile, phase, ret, stackAlloc,
                  tmpdirExists, objScope, detected>>
    BY DEF WordLetter, InState
<1>10. QED
    BY <1>2, <1>3, <1>4, <1>5, <1>8, <1>9, GotoStep

\* The step WordSpace keeps the invariant.
LEMMA WordSpaceIInv == IInv /\ WordSpace => IInv'
<1> SUFFICES ASSUME IInv, WordSpace PROVE IInv'
    OBVIOUS
<1>1. TypeData /\ ParseOK
    BY IInvSplit
<1>0. CWType
    BY <1>1 DEF TypeData, CWType
<1>6. state \in Frame
    BY <1>1 DEF TypeData
<1>2. byte' \in Bytes \cup {EOF}
    BY DEF WordSpace, Consume, NextBytes
<1>3. state' = [state EXCEPT !.parse_state = state'.parse_state]
      /\ state'.parse_state \in ParseStates
    BY <1>6 DEF WordSpace, InState, Goto, Frame, ParseStates
<1>4. controlword' \in Seq(Letters \cup {Space}) /\ Len(controlword') <= MaxWord
    BY <1>0, ConstNums DEF WordSpace, CWType
<1>5. param' \in -ParamMax..ParamMax /\ paramSign' \in {-1, 0, 1}
    BY <1>0, ConstNums DEF WordSpace, CWType
<1>8. state'.parse_state = "CONTROL_WORD_PARAM" => param' \in 0..ParamMax
    <2>1. state'.parse_state = "INTERPRET_CONTROLWORD"
        BY <1>6 DEF WordSpace, InState, Goto
    <2>2. QED
        BY <2>1
<1>9. UNCHANGED <<stack, stackSize, live, ctxFile, phase, ret, stackAlloc,
                  tmpdirExists, objScope, detected>>
    BY DEF WordSpace, InState, Goto
<1>10. QED
    BY <1>2, <1>3, <1>4, <1>5, <1>8, <1>9, GotoStep

\* The step WordDigit keeps the invariant.
LEMMA WordDigitIInv == IInv /\ WordDigit => IInv'
<1> SUFFICES ASSUME IInv, WordDigit PROVE IInv'
    OBVIOUS
<1>1. TypeData /\ ParseOK
    BY IInvSplit
<1>0. CWType
    BY <1>1 DEF TypeData, CWType
<1>6. state \in Frame
    BY <1>1 DEF TypeData
<1>2. byte' \in Bytes \cup {EOF}
    BY <1>1 DEF WordDigit, TypeData
<1>3. state' = [state EXCEPT !.parse_state = state'.parse_state]
      /\ state'.parse_state \in ParseStates
    BY <1>6 DEF WordDigit, InState, Goto, Frame, ParseStates
<1>4. controlword' \in Seq(Letters \cup {Space}) /\ Len(controlword') <= MaxWord
    BY <1>0, ConstNums DEF WordDigit, CWType
<1>5. param' \in -ParamMax..ParamMax /\ paramSign' \in {-1, 0, 1}
    BY <1>0, ConstNums DEF WordDigit, CWType
<1>8. state'.parse_state = "CONTROL_WORD_PARAM" => param' \in 0..ParamMax
    <2>1. state'.parse_state = "CONTROL_WORD_PARAM"
        BY <1>6 DEF WordDigit, InState, Goto
    <2>2. param' \in 0..ParamMax
        BY <1>0, ConstNums DEF WordDigit, CWType
    <2>3. QED
        BY <2>2
<1>9. UNCHANGED <<stack, stackSize, live, ctxFile, phase, ret, stackAlloc,
                  tmpdirExists, objScope, detected>>
    BY DEF WordDigit, InState, Goto
<1>10. QED
    BY <1>2, <1>3, <1>4, <1>5, <1>8, <1>9, GotoStep

\* The step WordMinus keeps the invariant.
LEMMA WordMinusIInv == IInv /\ WordMinus => IInv'
<1> SUFFICES ASSUME IInv, WordMinus PROVE IInv'
    OBVIOUS
<1>1. TypeData /\ ParseOK
    BY IInvSplit
<1>0. CWType
    BY <1>1 DEF TypeData, CWType
<1>6. state \in Frame
    BY <1>1 DEF TypeData
<1>2. byte' \in Bytes \cup {EOF}
    BY DEF WordMinus, Consume, NextBytes
<1>3. state' = [state EXCEPT !.parse_state = state'.parse_state]
      /\ state'.parse_state \in ParseStates
    BY <1>6 DEF WordMinus, InState, Goto, Frame, ParseStates
<1>4. controlword' \in Seq(Letters \cup {Space}) /\ Len(controlword') <= MaxWord
    BY <1>0, ConstNums DEF WordMinus, CWType
<1>5. param' \in -ParamMax..ParamMax /\ paramSign' \in {-1, 0, 1}
    BY <1>0, ConstNums DEF WordMinus, CWType
<1>8. state'.parse_state = "CONTROL_WORD_PARAM" => param' \in 0..ParamMax
    <2>1. state'.parse_state = "CONTROL_WORD_PARAM"
        BY <1>6 DEF WordMinus, InState, Goto
    <2>2. param' \in 0..ParamMax
        BY <1>0, ConstNums DEF WordMinus, CWType
    <2>3. QED
        BY <2>2
<1>9. UNCHANGED <<stack, stackSize, live, ctxFile, phase, ret, stackAlloc,
                  tmpdirExists, objScope, detected>>
    BY DEF WordMinus, InState, Goto
<1>10. QED
    BY <1>2, <1>3, <1>4, <1>5, <1>8, <1>9, GotoStep

\* The step WordOther keeps the invariant.
LEMMA WordOtherIInv == IInv /\ WordOther => IInv'
<1> SUFFICES ASSUME IInv, WordOther PROVE IInv'
    OBVIOUS
<1>1. TypeData /\ ParseOK
    BY IInvSplit
<1>0. CWType
    BY <1>1 DEF TypeData, CWType
<1>6. state \in Frame
    BY <1>1 DEF TypeData
<1>2. byte' \in Bytes \cup {EOF}
    BY <1>1 DEF WordOther, TypeData
<1>3. state' = [state EXCEPT !.parse_state = state'.parse_state]
      /\ state'.parse_state \in ParseStates
    BY <1>6 DEF WordOther, InState, Goto, Frame, ParseStates
<1>4. controlword' \in Seq(Letters \cup {Space}) /\ Len(controlword') <= MaxWord
    BY <1>0, ConstNums DEF WordOther, CWType
<1>5. param' \in -ParamMax..ParamMax /\ paramSign' \in {-1, 0, 1}
    BY <1>0, ConstNums DEF WordOther, CWType
<1>8. state'.parse_state = "CONTROL_WORD_PARAM" => param' \in 0..ParamMax
    <2>1. state'.parse_state = "INTERPRET_CONTROLWORD"
        BY <1>6 DEF WordOther, InState, Goto
    <2>2. QED
        BY <2>1
<1>9. UNCHANGED <<stack, stackSize, live, ctxFile, phase, ret, stackAlloc,
                  tmpdirExists, objScope, detected>>
    BY DEF WordOther, InState, Goto
<1>10. QED
    BY <1>2, <1>3, <1>4, <1>5, <1>8, <1>9, GotoStep

\* The step ParamDigit keeps the invariant.
LEMMA ParamDigitIInv == IInv /\ ParamDigit => IInv'
<1> SUFFICES ASSUME IInv, ParamDigit PROVE IInv'
    OBVIOUS
<1>1. TypeData /\ ParseOK
    BY IInvSplit
<1>0. CWType
    BY <1>1 DEF TypeData, CWType
<1>6. state \in Frame
    BY <1>1 DEF TypeData
<1>7. DigitValue(byte) \in 0..9 /\ param \in 0..ParamMax
    <2>1. DigitValue(byte) \in 0..9
        BY DigitValueType DEF ParamDigit, InState
    <2>2. param \in 0..ParamMax
        BY <1>1, Zenon DEF ParamDigit, InState, ParseOK
    <2>3. QED
        BY <2>1, <2>2
<1>2. byte' \in Bytes \cup {EOF}
    BY DEF ParamDigit, Consume, NextBytes
<1>3. state' = [state EXCEPT !.parse_state = state'.parse_state]
      /\ state'.parse_state \in ParseStates
    BY <1>6 DEF ParamDigit, InState, Frame, ParseStates
<1>4. controlword' \in Seq(Letters \cup {Space}) /\ Len(controlword') <= MaxWord
    BY <1>0, ConstNums DEF ParamDigit, CWType
<1>11. param' \in 0..ParamMax /\ paramSign' = paramSign
    <2>1. param' = param * 10 + DigitValue(byte) /\ ~ParamOverflows(byte)
          /\ paramSign' = paramSign
        BY Zenon DEF ParamDigit
    <2>2. param * 10 + DigitValue(byte) <= ParamMax
        BY <1>7, <2>1, ConstNums DEF ParamOverflows
    <2>3. QED
        BY <1>7, <2>1, <2>2
<1>5. param' \in -ParamMax..ParamMax /\ paramSign' \in {-1, 0, 1}
    BY <1>0, <1>11, ConstNums DEF CWType
<1>8. state'.parse_state = "CONTROL_WORD_PARAM" => param' \in 0..ParamMax
    BY <1>11
<1>9. UNCHANGED <<stack, stackSize, live, ctxFile, phase, ret, stackAlloc,
                  tmpdirExists, objScope, detected>>
    BY DEF ParamDigit, InState
<1>10. QED
    BY <1>2, <1>3, <1>4, <1>5, <1>8, <1>9, GotoStep

\* The step ParamOverflow keeps the invariant.
LEMMA ParamOverflowIInv == IInv /\ ParamOverflow => IInv'
<1> SUFFICES ASSUME IInv, ParamOverflow PROVE IInv'
    OBVIOUS
<1>1. TypeData /\ ParseOK
    BY IInvSplit
<1>0. CWType
    BY <1>1 DEF TypeData, CWType
<1>6. state \in Frame
    BY <1>1 DEF TypeData
<1>2. byte' \in Bytes \cup {EOF}
    BY <1>1 DEF ParamOverflow, TypeData
<1>3. state' = [state EXCEPT !.parse_state = state'.parse_state]
      /\ state'.parse_state \in ParseStates
    BY <1>6 DEF ParamOverflow, InState, Goto, Frame, ParseStates
<1>4. controlword' \in Seq(Letters \cup {Space}) /\ Len(controlword') <= MaxWord
    BY <1>0, ConstNums DEF ParamOverflow, CWType
<1>5. param' \in -ParamMax..ParamMax /\ paramSign' \in {-1, 0, 1}
    BY <1>0, ConstNums DEF ParamOverflow, CWType
<1>8. state'.parse_state = "CONTROL_WORD_PARAM" => param' \in 0..ParamMax
    <2>1. state'.parse_state = "MAIN"
        BY <1>6 DEF ParamOverflow, InState, Goto
    <2>2. QED
        BY <2>1
<1>9. UNCHANGED <<stack, stackSize, live, ctxFile, phase, ret, stackAlloc,
                  tmpdirExists, objScope, detected>>
    BY DEF ParamOverflow, InState, Goto
<1>10. QED
    BY <1>2, <1>3, <1>4, <1>5, <1>8, <1>9, GotoStep

\* The step ParamLetter keeps the invariant.
LEMMA ParamLetterIInv == IInv /\ ParamLetter => IInv'
<1> SUFFICES ASSUME IInv, ParamLetter PROVE IInv'
    OBVIOUS
<1>1. TypeData /\ ParseOK
    BY IInvSplit
<1>0. CWType
    BY <1>1 DEF TypeData, CWType
<1>6. state \in Frame
    BY <1>1 DEF TypeData
<1>7. param \in 0..ParamMax
    BY <1>1, Zenon DEF ParamLetter, InState, ParseOK
<1>2. byte' \in Bytes \cup {EOF}
    BY DEF ParamLetter, Consume, NextBytes
<1>3. state' = [state EXCEPT !.parse_state = state'.parse_state]
      /\ state'.parse_state \in ParseStates
    BY <1>6 DEF ParamLetter, InState, Frame, ParseStates
<1>4. controlword' \in Seq(Letters \cup {Space}) /\ Len(controlword') <= MaxWord
    BY <1>0, ConstNums DEF ParamLetter, CWType
<1>5. param' \in -ParamMax..ParamMax /\ paramSign' \in {-1, 0, 1}
    BY <1>0, <1>7, ConstNums DEF ParamLetter, CWType
<1>8. state'.parse_state = "CONTROL_WORD_PARAM" => param' \in 0..ParamMax
    <2>1. state'.parse_state = "CONTROL_WORD_PARAM"
        BY <1>6 DEF ParamLetter, InState
    <2>2. param' \in 0..ParamMax
        BY <1>0, <1>7, ConstNums DEF ParamLetter, CWType
    <2>3. QED
        BY <2>2
<1>9. UNCHANGED <<stack, stackSize, live, ctxFile, phase, ret, stackAlloc,
                  tmpdirExists, objScope, detected>>
    BY DEF ParamLetter, InState
<1>10. QED
    BY <1>2, <1>3, <1>4, <1>5, <1>8, <1>9, GotoStep

\* The step ParamEnd keeps the invariant.
LEMMA ParamEndIInv == IInv /\ ParamEnd => IInv'
<1> SUFFICES ASSUME IInv, ParamEnd PROVE IInv'
    OBVIOUS
<1>1. TypeData /\ ParseOK
    BY IInvSplit
<1>0. CWType
    BY <1>1 DEF TypeData, CWType
<1>6. state \in Frame
    BY <1>1 DEF TypeData
<1>2. byte' \in Bytes \cup {EOF}
    BY <1>1 DEF ParamEnd, TypeData
<1>3. state' = [state EXCEPT !.parse_state = state'.parse_state]
      /\ state'.parse_state \in ParseStates
    BY <1>6 DEF ParamEnd, InState, Goto, Frame, ParseStates
<1>4. controlword' \in Seq(Letters \cup {Space}) /\ Len(controlword') <= MaxWord
    BY <1>0, ConstNums DEF ParamEnd, CWType
<1>5. param' \in -ParamMax..ParamMax /\ paramSign' \in {-1, 0, 1}
    BY <1>0, ConstNums DEF ParamEnd, CWType
<1>8. state'.parse_state = "CONTROL_WORD_PARAM" => param' \in 0..ParamMax
    <2>1. state'.parse_state = "INTERPRET_CONTROLWORD"
        BY <1>6 DEF ParamEnd, InState, Goto
    <2>2. QED
        BY <2>1
<1>9. UNCHANGED <<stack, stackSize, live, ctxFile, phase, ret, stackAlloc,
                  tmpdirExists, objScope, detected>>
    BY DEF ParamEnd, InState, Goto
<1>10. QED
    BY <1>2, <1>3, <1>4, <1>5, <1>8, <1>9, GotoStep

\* The step InterpretUnknown keeps the invariant.
LEMMA InterpretUnknownIInv == IInv /\ InterpretUnknown => IInv'
<1> SUFFICES ASSUME IInv, InterpretUnknown PROVE IInv'
    OBVIOUS
<1>1. TypeData /\ ParseOK
    BY IInvSplit
<1>0. CWType
    BY <1>1 DEF TypeData, CWType
<1>6. state \in Frame
    BY <1>1 DEF TypeData
<1>2. byte' \in Bytes \cup {EOF}
    BY <1>1 DEF InterpretUnknown, TypeData
<1>3. state' = [state EXCEPT !.parse_state = state'.parse_state]
      /\ state'.parse_state \in ParseStates
    BY <1>6 DEF InterpretUnknown, InState, Goto, Frame, ParseStates
<1>4. controlword' \in Seq(Letters \cup {Space}) /\ Len(controlword') <= MaxWord
    BY <1>0, ConstNums DEF InterpretUnknown, CWType
<1>5. param' \in -ParamMax..ParamMax /\ paramSign' \in {-1, 0, 1}
    BY <1>0, ConstNums DEF InterpretUnknown, CWType
<1>8. state'.parse_state = "CONTROL_WORD_PARAM" => param' \in 0..ParamMax
    <2>1. state'.parse_state = "MAIN"
        BY <1>6 DEF InterpretUnknown, InState, Goto
    <2>2. QED
        BY <2>1
<1>9. UNCHANGED <<stack, stackSize, live, ctxFile, phase, ret, stackAlloc,
                  tmpdirExists, objScope, detected>>
    BY DEF InterpretUnknown, InState, Goto
<1>10. QED
    BY <1>2, <1>3, <1>4, <1>5, <1>8, <1>9, GotoStep

\* The step Backslash keeps the invariant.
LEMMA BackslashIInv == IInv /\ Backslash => IInv'
<1> SUFFICES ASSUME IInv, Backslash PROVE IInv'
    OBVIOUS
<1>1. TypeData /\ ParseOK
    BY IInvSplit
<1>0. CWType
    BY <1>1 DEF TypeData, CWType
<1>6. state \in Frame
    BY <1>1 DEF TypeData
<1>2. byte' \in Bytes \cup {EOF}
    BY DEF Backslash, Consume, NextBytes
<1>3. state' = [state EXCEPT !.parse_state = state'.parse_state]
      /\ state'.parse_state \in ParseStates
    BY <1>6 DEF Backslash, InMain, Frame, ParseStates
<1>4. controlword' \in Seq(Letters \cup {Space}) /\ Len(controlword') <= MaxWord
    BY <1>0, ConstNums DEF Backslash, CWType
<1>5. param' \in -ParamMax..ParamMax /\ paramSign' \in {-1, 0, 1}
    BY <1>0, ConstNums DEF Backslash, CWType
<1>8. state'.parse_state = "CONTROL_WORD_PARAM" => param' \in 0..ParamMax
    <2>1. state'.parse_state = "CONTROL"
        BY <1>6 DEF Backslash, InMain
    <2>2. QED
        BY <2>1
<1>9. UNCHANGED <<stack, stackSize, live, ctxFile, phase, ret, stackAlloc,
                  tmpdirExists, objScope, detected>>
    BY DEF Backslash, InMain
<1>10. QED
    BY <1>2, <1>3, <1>4, <1>5, <1>8, <1>9, GotoStep

\* The step TextSkip keeps the invariant.
LEMMA TextSkipIInv == IInv /\ TextSkip => IInv'
<1> SUFFICES ASSUME IInv, TextSkip PROVE IInv'
    OBVIOUS
<1>1. TypeData /\ ParseOK
    BY IInvSplit
<1>0. CWType
    BY <1>1 DEF TypeData, CWType
<1>6. state \in Frame
    BY <1>1 DEF TypeData
<1>2. byte' \in Bytes \cup {EOF}
    BY DEF TextSkip, Consume, NextBytes
<1>3. state' = [state EXCEPT !.parse_state = state'.parse_state]
      /\ state'.parse_state \in ParseStates
    BY <1>6 DEF TextSkip, Frame, ParseStates
<1>4. controlword' \in Seq(Letters \cup {Space}) /\ Len(controlword') <= MaxWord
    BY <1>0, ConstNums DEF TextSkip, CWType
<1>5. param' \in -ParamMax..ParamMax /\ paramSign' \in {-1, 0, 1}
    BY <1>0, ConstNums DEF TextSkip, CWType
<1>8. state'.parse_state = "CONTROL_WORD_PARAM" => param' \in 0..ParamMax
    <2>1. state'.parse_state = "MAIN"
        BY <1>6 DEF TextSkip
    <2>2. QED
        BY <2>1
<1>9. UNCHANGED <<stack, stackSize, live, ctxFile, phase, ret, stackAlloc,
                  tmpdirExists, objScope, detected>>
    BY DEF TextSkip
<1>10. QED
    BY <1>2, <1>3, <1>4, <1>5, <1>8, <1>9, GotoStep

\* The step Start keeps the invariant.
LEMMA StartIInv == IInv /\ Start => IInv'
<1> SUFFICES ASSUME IInv, Start PROVE IInv'
    OBVIOUS
<1>1. TypeData /\ TypeFlags /\ OwnPart /\ ParseOK
    BY IInvSplit
<1>2. TypeData'
    BY <1>1, ConstNums DEF Start, Consume, NextBytes, TypeData
<1>3. TypeFlags'
    BY <1>1, ConstSets, Zenon DEF Start, TypeFlags
<1>4. OwnPart'
    BY <1>1, Zenon DEF Start, OwnPart, ContextOwnership, NoLeakAtReturn, FrameOK,
                       StartClean, Owners
<1>5. ParseOK'
    BY <1>1, Zenon DEF Start, ParseOK
<1>6. QED
    BY <1>2, <1>3, <1>4, <1>5, Zenon DEF IInv, OwnPart, TypeOK, TypeData, TypeFlags

\* The step StartStackFails keeps the invariant.
LEMMA StartStackFailsIInv == IInv /\ StartStackFails => IInv'
<1> SUFFICES ASSUME IInv, StartStackFails PROVE IInv'
    OBVIOUS
<1>1. TypeData /\ TypeFlags /\ OwnPart /\ ParseOK
    BY IInvSplit
<1>2. TypeData'
    BY <1>1, ConstNums DEF StartStackFails, TypeData, Results, Errors
<1>3. TypeFlags'
    BY <1>1, ConstSets, Zenon DEF StartStackFails, TypeFlags
<1>4. OwnPart'
    BY <1>1, Zenon DEF StartStackFails, OwnPart, ContextOwnership, NoLeakAtReturn, FrameOK,
                       StartClean, Owners
<1>5. ParseOK'
    BY <1>1, Zenon DEF StartStackFails, ParseOK
<1>6. QED
    BY <1>2, <1>3, <1>4, <1>5, Zenon DEF IInv, OwnPart, TypeOK, TypeData, TypeFlags

\* The step StartGentempFails keeps the invariant.
LEMMA StartGentempFailsIInv == IInv /\ StartGentempFails => IInv'
<1> SUFFICES ASSUME IInv, StartGentempFails PROVE IInv'
    OBVIOUS
<1>1. TypeData /\ TypeFlags /\ OwnPart /\ ParseOK
    BY IInvSplit
<1>2. TypeData'
    BY <1>1, ConstNums DEF StartGentempFails, TypeData, Results, Errors
<1>3. TypeFlags'
    BY <1>1, ConstSets, Zenon DEF StartGentempFails, TypeFlags
<1>4. OwnPart'
    BY <1>1, Zenon DEF StartGentempFails, OwnPart, ContextOwnership, NoLeakAtReturn, FrameOK,
                       StartClean, Owners
<1>5. ParseOK'
    BY <1>1, Zenon DEF StartGentempFails, ParseOK
<1>6. QED
    BY <1>2, <1>3, <1>4, <1>5, Zenon DEF IInv, OwnPart, TypeOK, TypeData, TypeFlags

\* The step StartMkdirFails keeps the invariant.
LEMMA StartMkdirFailsIInv == IInv /\ StartMkdirFails => IInv'
<1> SUFFICES ASSUME IInv, StartMkdirFails PROVE IInv'
    OBVIOUS
<1>1. TypeData /\ TypeFlags /\ OwnPart /\ ParseOK
    BY IInvSplit
<1>2. TypeData'
    BY <1>1, ConstNums DEF StartMkdirFails, TypeData, Results, Errors
<1>3. TypeFlags'
    BY <1>1, ConstSets, Zenon DEF StartMkdirFails, TypeFlags
<1>4. OwnPart'
    BY <1>1, Zenon DEF StartMkdirFails, OwnPart, ContextOwnership, NoLeakAtReturn, FrameOK,
                       StartClean, Owners
<1>5. ParseOK'
    BY <1>1, Zenon DEF StartMkdirFails, ParseOK
<1>6. QED
    BY <1>2, <1>3, <1>4, <1>5, Zenon DEF IInv, OwnPart, TypeOK, TypeData, TypeFlags

\* The step StartActionsFail keeps the invariant.
LEMMA StartActionsFailIInv == IInv /\ StartActionsFail => IInv'
<1> SUFFICES ASSUME IInv, StartActionsFail PROVE IInv'
    OBVIOUS
<1>1. TypeData /\ TypeFlags /\ OwnPart /\ ParseOK
    BY IInvSplit
<1>2. TypeData'
    BY <1>1, ConstNums DEF StartActionsFail, TypeData, Results, Errors
<1>3. TypeFlags'
    BY <1>1, ConstSets, Zenon DEF StartActionsFail, TypeFlags
<1>4. OwnPart'
    BY <1>1, Zenon DEF StartActionsFail, OwnPart, ContextOwnership, NoLeakAtReturn, FrameOK,
                       StartClean, Owners
<1>5. ParseOK'
    BY <1>1, Zenon DEF StartActionsFail, ParseOK
<1>6. QED
    BY <1>2, <1>3, <1>4, <1>5, Zenon DEF IInv, OwnPart, TypeOK, TypeData, TypeFlags

\* '{' on a default frame only counts it: the callbacks stay as they were.
LEMMA PushDefaultIInv == IInv /\ PushDefault => IInv'
<1> SUFFICES ASSUME IInv, PushDefault PROVE IInv'
    OBVIOUS
<1>1. TypeData /\ TypeFlags /\ OwnPart /\ ParseOK
    BY IInvSplit
<1>2. /\ state' \in Frame /\ state'.parse_state = "MAIN"
      /\ state'.cb_begin = state.cb_begin /\ state'.cb_end = state.cb_end
      /\ state'.cb_data = state.cb_data
    <2>1. state' = [state EXCEPT !.default_elements = state.default_elements + 1]
          /\ state.parse_state = "MAIN"
        BY Zenon DEF PushDefault, InMain
    <2>2. state \in Frame /\ state.default_elements + 1 \in Nat
        BY <1>1 DEF TypeData, Frame
    <2>3. state' \in Frame
        BY <2>1, <2>2, Zenon DEF Frame
    <2>4. QED
        BY <2>1, <2>3
<1>3. objScope' \in Seq(BOOLEAN) /\ Len(objScope') >= 1
    BY <1>1 DEF PushDefault, OpenScope, TypeData
<1>4. byte' \in Bytes \cup {EOF}
    BY DEF PushDefault, Consume, NextBytes
<1>5. TypeData'
    BY <1>1, <1>2, <1>3, <1>4 DEF PushDefault, TypeData
<1>6. TypeFlags'
    BY <1>1, Zenon DEF PushDefault, TypeFlags
<1>7. OwnPart'
    BY <1>1, <1>2, OwnFrozen DEF PushDefault
<1>8. ParseOK'
    BY <1>1, <1>2 DEF PushDefault, ParseOK
<1>9. QED
    BY <1>5, <1>6, <1>7, <1>8, Zenon DEF IInv, OwnPart, TypeOK, TypeData, TypeFlags

\* '{' on any other frame: the frame, with its context, moves onto the stack
\* and the working frame starts empty, so the context is still held once.
LEMMA PushFrameIInv == IInv /\ PushFrame => IInv'
<1> SUFFICES ASSUME IInv, PushFrame PROVE IInv'
    OBVIOUS
<1>1. TypeData /\ TypeFlags /\ OwnPart /\ ParseOK
    BY IInvSplit
<1>2. /\ state' \in Frame /\ state'.parse_state = "MAIN"
      /\ state'.cb_begin = FALSE /\ state'.cb_end = FALSE /\ state'.cb_data = NULL
    BY <1>1, BaseFrame DEF PushFrame, TypeData, Frame, base_state
<1>3. /\ stack' \in Seq(Frame) /\ Len(stack') = Len(stack) + 1
      /\ \A i \in 1..Len(stack) : stack'[i] = stack[i]
      /\ stack'[Len(stack) + 1] = state
    BY <1>1 DEF PushFrame, TypeData
<1>4. objScope' \in Seq(BOOLEAN) /\ Len(objScope') >= 1
    BY <1>1 DEF PushFrame, OpenScope, TypeData
<1>5. byte' \in Bytes \cup {EOF}
    BY DEF PushFrame, Consume, NextBytes
<1>6. stackSize' \in Nat
    BY <1>1, ConstNums DEF PushFrame, TypeData
<1>7. TypeData'
    BY <1>1, <1>2, <1>3, <1>4, <1>5, <1>6 DEF PushFrame, TypeData
<1>8. TypeFlags'
    BY <1>1, Zenon DEF PushFrame, TypeFlags
<1>9. phase = "scan" /\ UNCHANGED <<live, ctxFile, phase, tmpdirExists>>
    BY DEF PushFrame, InMain
<1>10. Owners' = Owners \cup {NULL}
    BY <1>2, <1>3 DEF Owners
<1>11. ContextOwnership'
    <2>1. live' = Owners' \ {NULL}
        BY <1>1, <1>9, <1>10 DEF OwnPart, ContextOwnership
    <2>2. ASSUME NEW i \in 1..Len(stack'), stack'[i].cb_data # NULL
          PROVE  /\ stack'[i].cb_data # state'.cb_data
                 /\ \A j \in 1..Len(stack') : j # i => stack'[j].cb_data # stack'[i].cb_data
        BY <1>1, <1>2, <1>3, <2>2 DEF OwnPart, ContextOwnership
    <2>3. \A c \in CtxIds : ctxFile'[c] => c \in live'
        BY <1>1, <1>9 DEF OwnPart, ContextOwnership
    <2>4. QED
        BY <2>1, <2>2, <2>3 DEF ContextOwnership
<1>12. FrameOK(state)' /\ \A i \in 1..Len(stack') : FrameOK(stack'[i])
    <2>1. FrameOK(state) /\ \A i \in 1..Len(stack) : FrameOK(stack[i])
        BY <1>1, Zenon DEF OwnPart
    <2>2. FrameOK(state')
        BY <1>2 DEF FrameOK
    <2>3. \A i \in 1..Len(stack') : FrameOK(stack'[i])
        BY <1>3, <2>1
    <2>4. QED
        BY <2>2, <2>3
<1>13. OwnPart'
    BY <1>9, <1>11, <1>12 DEF OwnPart, NoLeakAtReturn, StartClean
<1>14. ParseOK'
    BY <1>1, <1>2, <1>3 DEF PushFrame, InMain, ParseOK
<1>15. QED
    BY <1>7, <1>8, <1>13, <1>14, Zenon DEF IInv, OwnPart, TypeOK, TypeData, TypeFlags

\* The contexts the stored frames of stk hold.
StackOwners(stk) == {stk[i].cb_data : i \in 1..Len(stk)}

\* The stored frames of stk hold distinct contexts, none the one of s.
Distinct(s, stk) ==
    \A i \in 1..Len(stk) :
       stk[i].cb_data # NULL =>
          /\ stk[i].cb_data # s.cb_data
          /\ \A j \in 1..Len(stk) : j # i => stk[j].cb_data # stk[i].cb_data

\* Every frame of stk keeps FrameOK and was saved in MAIN.
StackFramesOK(stk) ==
    \A i \in 1..Len(stk) : FrameOK(stk[i]) /\ stk[i].parse_state = "MAIN"

(***************************************************************************)
(* What pop_state leaves: the frames are well formed, nothing is held by   *)
(* two of them, and they hold what the stored frames held.                 *)
(***************************************************************************)
LEMMA PopStateOK ==
    ASSUME NEW s \in Frame, NEW stk \in Seq(Frame), FrameOK(s),
           StackFramesOK(stk), Distinct(s, stk),
           NEW ns, NEW nstk, ns = PopState(s, stk)[1], nstk = PopState(s, stk)[2]
    PROVE  /\ ns \in Frame /\ nstk \in Seq(Frame)
           /\ FrameOK(ns) /\ ns.parse_state = "MAIN" /\ StackFramesOK(nstk)
           /\ Distinct(ns, nstk)
           /\ ({ns.cb_data} \cup StackOwners(nstk)) \cup {NULL} = StackOwners(stk) \cup {NULL}
<1>1. CASE s.default_elements > 0
    <2>1. ns = [base_state EXCEPT !.default_elements = s.default_elements - 1,
                                  !.toplevel = s.toplevel] /\ nstk = stk
        BY <1>1 DEF PopState
    <2>2. s.default_elements - 1 \in Nat /\ s.toplevel \in BOOLEAN
        <3>1. s.default_elements \in Nat /\ s.toplevel \in BOOLEAN
            BY DEF Frame
        <3>2. QED
            BY <1>1, <3>1
    <2>3. ns \in Frame
        BY <2>1, <2>2, CountedFrame
    <2>4. ns.cb_data = NULL /\ ns.cb_begin = FALSE /\ ns.cb_end = FALSE
          /\ ns.parse_state = "MAIN"
        BY <2>1 DEF base_state
    <2>5. FrameOK(ns)
        BY <2>4 DEF FrameOK
    <2>6. QED
        BY <2>1, <2>3, <2>4, <2>5 DEF Distinct, StackOwners
<1>2. CASE ~(s.default_elements > 0) /\ stk = <<>>
    <2>1. ns = base_state /\ nstk = <<>>
        BY <1>2 DEF PopState
    <2>2. ns \in Frame /\ ns.cb_data = NULL /\ FrameOK(ns) /\ ns.parse_state = "MAIN"
        BY <2>1, BaseFrame DEF base_state, FrameOK
    <2>3. StackOwners(nstk) = {} /\ StackOwners(stk) = {}
        BY <1>2, <2>1 DEF StackOwners
    <2>4. Distinct(ns, nstk) /\ StackFramesOK(nstk)
        BY <2>1 DEF Distinct, StackFramesOK
    <2>5. nstk \in Seq(Frame)
        BY <2>1
    <2>6. QED
        BY <2>2, <2>3, <2>4, <2>5
<1>3. CASE ~(s.default_elements > 0) /\ stk # <<>>
    <2>1. Len(stk) >= 1
        BY <1>3
    <2>2. ns = stk[Len(stk)] /\ nstk = SubSeq(stk, 1, Len(stk) - 1)
        BY <1>3 DEF PopState
    <2>3. /\ nstk \in Seq(Frame) /\ Len(nstk) = Len(stk) - 1
          /\ \A i \in 1..Len(nstk) : nstk[i] = stk[i]
        BY <2>1, <2>2, PopSeq
    <2>4. ns \in Frame /\ FrameOK(ns) /\ ns.parse_state = "MAIN"
        BY <2>1, <2>2 DEF StackFramesOK
    <2>5. StackFramesOK(nstk)
        BY <2>3 DEF StackFramesOK
    <2>6. Distinct(ns, nstk)
        BY <2>1, <2>2, <2>3 DEF Distinct
    <2>7. {ns.cb_data} \cup StackOwners(nstk) = StackOwners(stk)
        BY <2>1, <2>2, <2>3 DEF StackOwners
    <2>8. QED
        BY <2>3, <2>4, <2>5, <2>6, <2>7
<1>4. QED
    BY <1>1, <1>2, <1>3

\* The invariant seen through the helpers above.
LEMMA FramesView ==
    ASSUME IInv
    PROVE  /\ state \in Frame /\ stack \in Seq(Frame) /\ live \subseteq CtxIds
           /\ FrameOK(state) /\ StackFramesOK(stack) /\ Distinct(state, stack)
           /\ live = ({state.cb_data} \cup StackOwners(stack)) \ {NULL}
           /\ \A c \in CtxIds : ctxFile[c] => c \in live
<1>1. TypeData /\ OwnPart /\ ParseOK
    BY IInvSplit
<1>2. QED
    BY <1>1, Zenon DEF TypeData, OwnPart, ContextOwnership, ParseOK, StackFramesOK,
                       Distinct, Owners, StackOwners

\* '}': the working frame's object is ended, and pop_state brings back the
\* frame saved at the matching '{' with the contexts it holds.
LEMMA PopGroupIInv == IInv /\ PopGroup => IInv'
<1> SUFFICES ASSUME IInv, PopGroup PROVE IInv'
    OBVIOUS
<1>1. TypeData /\ TypeFlags /\ OwnPart /\ ParseOK
    BY IInvSplit
<1>2. /\ phase = "scan" /\ state.parse_state = "MAIN"
      /\ UNCHANGED <<stackSize, controlword, param, paramSign, phase, ret,
                     stackAlloc, tmpdirExists>>
    BY DEF PopGroup, InMain
<1>3. /\ state \in Frame /\ stack \in Seq(Frame) /\ live \subseteq CtxIds
      /\ FrameOK(state) /\ StackFramesOK(stack) /\ Distinct(state, stack)
      /\ live = ({state.cb_data} \cup StackOwners(stack)) \ {NULL}
      /\ \A c \in CtxIds : ctxFile[c] => c \in live
    BY FramesView
<1>4. /\ state' \in Frame /\ stack' \in Seq(Frame)
      /\ FrameOK(state') /\ state'.parse_state = "MAIN" /\ StackFramesOK(stack')
      /\ Distinct(state', stack')
      /\ ({state'.cb_data} \cup StackOwners(stack')) \cup {NULL} = StackOwners(stack) \cup {NULL}
    BY <1>3, PopStateOK DEF PopGroup
<1>5. /\ live' = live \ {state.cb_data}
      /\ ctxFile' \in [CtxIds -> BOOLEAN] /\ detected' \in BOOLEAN
      /\ \A c \in CtxIds : ctxFile'[c] => ctxFile[c] /\ c # state.cb_data
    <2>1. CASE state.cb_data # NULL
        <3>1. state.cb_end
            BY <1>3, <2>1 DEF FrameOK
        <3>2. EndCtx(state.cb_data, CLEAN)
            BY <2>1, <3>1 DEF PopGroup
        <3>3. QED
            BY <1>1, <3>2 DEF EndCtx, TypeFlags
    <2>2. CASE state.cb_data = NULL
        <3>1. UNCHANGED <<live, ctxFile, detected>>
            BY <2>2 DEF PopGroup
        <3>2. QED
            BY <1>1, <1>3, <2>2, <3>1, ConstSets DEF TypeFlags
    <2>3. QED
        BY <2>1, <2>2
<1>6. ContextOwnership'
    <2>1. live' = ({state'.cb_data} \cup StackOwners(stack')) \ {NULL}
        <3>1. state.cb_data # NULL => state.cb_data \notin StackOwners(stack)
            BY <1>3 DEF Distinct, StackOwners
        <3>2. live' = StackOwners(stack) \ {NULL}
            BY <1>3, <1>5, <3>1
        <3>3. ({state'.cb_data} \cup StackOwners(stack')) \ {NULL}
                = StackOwners(stack) \ {NULL}
            BY <1>4
        <3>4. QED
            BY <3>2, <3>3
    <2>2. \A c \in CtxIds : ctxFile'[c] => c \in live'
        BY <1>3, <1>5
    <2>3. QED
        BY <1>4, <2>1, <2>2 DEF ContextOwnership, Owners, StackOwners, Distinct
<1>7. OwnPart'
    BY <1>2, <1>4, <1>6 DEF OwnPart, NoLeakAtReturn, StartClean, StackFramesOK
<1>8. ParseOK'
    BY <1>4 DEF ParseOK, StackFramesOK
<1>9. objScope' \in Seq(BOOLEAN) /\ Len(objScope') >= 1
    <2>1. objScope \in Seq(BOOLEAN) /\ Len(objScope) >= 1
        BY <1>1 DEF TypeData
    <2>2. objScope' = CloseScope
        BY DEF PopGroup
    <2>3. CASE Len(objScope) > 1
        <3>1. objScope' = SubSeq(objScope, 1, Len(objScope) - 1)
            BY <2>2, <2>3 DEF CloseScope
        <3>2. QED
            BY <2>1, <2>3, <3>1, PopSeq
    <2>4. CASE ~(Len(objScope) > 1)
        BY <2>1, <2>2, <2>4 DEF CloseScope
    <2>5. QED
        BY <2>3, <2>4
<1>10. byte' \in Bytes \cup {EOF}
    BY DEF PopGroup, Consume, NextBytes
<1>11. TypeData'
    BY <1>1, <1>2, <1>3, <1>4, <1>5, <1>9, <1>10 DEF TypeData
<1>12. TypeFlags'
    BY <1>1, <1>2, <1>5, Zenon DEF TypeFlags
<1>13. QED
    BY <1>7, <1>8, <1>11, <1>12, Zenon DEF IInv, OwnPart, TypeOK, TypeData, TypeFlags

\* A run of text: the context cb_process works on is the frame's own, or
\* a new one that no frame held and that the working frame now holds.
LEMMA TextProcessIInv == IInv /\ TextProcess => IInv'
<1> SUFFICES ASSUME IInv, TextProcess PROVE IInv'
    OBVIOUS
<1>1. TypeData /\ TypeFlags /\ OwnPart /\ ParseOK
    BY IInvSplit
<1>2. /\ phase = "scan" /\ state.parse_state = "MAIN" /\ state.cb_begin
      /\ UNCHANGED <<stack, stackSize, controlword, param, paramSign, phase, ret,
                     stackAlloc, tmpdirExists, objScope, detected>>
    BY DEF TextProcess
<1>3. /\ state \in Frame /\ stack \in Seq(Frame) /\ live \subseteq CtxIds
      /\ FrameOK(state) /\ StackFramesOK(stack) /\ Distinct(state, stack)
      /\ live = ({state.cb_data} \cup StackOwners(stack)) \ {NULL}
      /\ \A c \in CtxIds : ctxFile[c] => c \in live
    BY FramesView
<1>4. PICK c \in ProcessCtxs, f \in BOOLEAN :
          /\ state' = [state EXCEPT !.cb_data = c]
          /\ live' = live \cup {c}
          /\ ctxFile' = [ctxFile EXCEPT ![c] = f]
    BY DEF TextProcess
<1>5. c \in CtxIds
    BY <1>3, <1>4 DEF ProcessCtxs, Frame
<1>6. state' \in Frame /\ FrameOK(state') /\ state'.parse_state = "MAIN"
    BY <1>2, <1>3, <1>4, <1>5 DEF Frame, FrameOK
<1>7. Distinct(state', stack')
    BY <1>2, <1>3, <1>4 DEF Distinct, ProcessCtxs, StackOwners
<1>8. live' = ({state'.cb_data} \cup StackOwners(stack')) \ {NULL}
    BY <1>2, <1>3, <1>4, <1>5, ConstSets DEF ProcessCtxs
<1>9. ctxFile' \in [CtxIds -> BOOLEAN] /\ \A d \in CtxIds : ctxFile'[d] => d \in live'
    BY <1>1, <1>3, <1>4, <1>5 DEF TypeFlags
<1>10. ContextOwnership'
    BY <1>7, <1>8, <1>9 DEF ContextOwnership, Owners, StackOwners, Distinct
<1>11. OwnPart'
    BY <1>2, <1>3, <1>6, <1>10 DEF OwnPart, NoLeakAtReturn, StartClean, StackFramesOK
<1>12. ParseOK'
    BY <1>1, <1>2, <1>6 DEF ParseOK
<1>13. byte' \in Bytes \cup {EOF}
    BY DEF TextProcess, Consume, NextBytes
<1>14. TypeData'
    BY <1>1, <1>2, <1>3, <1>5, <1>6, <1>4, <1>13 DEF TypeData
<1>15. TypeFlags'
    BY <1>1, <1>2, <1>9, Zenon DEF TypeFlags
<1>16. QED
    BY <1>11, <1>12, <1>14, <1>15, Zenon DEF IInv, OwnPart, TypeOK, TypeData, TypeFlags

\* rtf_action on a frame that holds no context binds the callbacks, if at
\* all, together, and leaves it holding none.
LEMMA RtfActionOK ==
    ASSUME NEW f \in Frame, f.cb_data = NULL, FrameOK(f), NEW a
    PROVE  /\ [rtf_action(f, a) EXCEPT !.parse_state = "MAIN"] \in Frame
           /\ [rtf_action(f, a) EXCEPT !.parse_state = "MAIN"].cb_data = NULL
           /\ FrameOK([rtf_action(f, a) EXCEPT !.parse_state = "MAIN"])
           /\ [rtf_action(f, a) EXCEPT !.parse_state = "MAIN"].parse_state = "MAIN"
<1>1. CASE a = RTF_OBJECT
    <2>1. rtf_action(f, a) = [f EXCEPT !.toplevel = TRUE]
        BY <1>1 DEF rtf_action, RTF_OBJECT, RTF_OBJECT_DATA
    <2>2. QED
        BY <2>1 DEF Frame, FrameOK, ParseStates
<1>2. CASE a # RTF_OBJECT /\ a = RTF_OBJECT_DATA /\ f.toplevel
    <2>1. rtf_action(f, a) = [f EXCEPT !.cb_begin = TRUE, !.cb_process = TRUE, !.cb_end = TRUE]
        BY <1>2 DEF rtf_action, RTF_OBJECT, RTF_OBJECT_DATA
    <2>2. QED
        BY <2>1 DEF Frame, FrameOK, ParseStates
<1>3. CASE a # RTF_OBJECT /\ ~(a = RTF_OBJECT_DATA /\ f.toplevel)
    <2>1. rtf_action(f, a) = f
        BY <1>3, Zenon DEF rtf_action
    <2>2. QED
        BY <2>1 DEF Frame, FrameOK, ParseStates
<1>4. QED
    BY <1>1, <1>2, <1>3

\* A word of the table: a bound object is ended before rtf_action, so the
\* working frame holds no context afterwards, whatever the action binds.
LEMMA InterpretActionIInv == IInv /\ InterpretAction => IInv'
<1> SUFFICES ASSUME IInv, InterpretAction PROVE IInv'
    OBVIOUS
<1>1. TypeData /\ TypeFlags /\ OwnPart /\ ParseOK
    BY IInvSplit
<1>2. /\ phase = "scan"
      /\ UNCHANGED <<stack, stackSize, controlword, param, paramSign, byte, phase,
                     ret, stackAlloc, tmpdirExists>>
    BY DEF InterpretAction, InState
<1>3. /\ state \in Frame /\ stack \in Seq(Frame) /\ live \subseteq CtxIds
      /\ FrameOK(state) /\ StackFramesOK(stack) /\ Distinct(state, stack)
      /\ live = ({state.cb_data} \cup StackOwners(stack)) \ {NULL}
      /\ \A c \in CtxIds : ctxFile[c] => c \in live
    BY FramesView
<1>4. /\ state' \in Frame /\ state'.cb_data = NULL /\ FrameOK(state')
      /\ state'.parse_state = "MAIN"
    <2>1. state.cb_data # NULL => state.cb_end
        BY <1>3 DEF FrameOK
    <2>2. CASE state.cb_data # NULL
        <3>1. state' = [rtf_action([state EXCEPT !.cb_begin = FALSE, !.cb_end = FALSE,
                                              !.cb_data = NULL],
                                   ActionTable[controlword])
                        EXCEPT !.parse_state = "MAIN"]
            BY <2>1, <2>2, Zenon DEF InterpretAction
        <3>2. [state EXCEPT !.cb_begin = FALSE, !.cb_end = FALSE, !.cb_data = NULL] \in Frame
              /\ [state EXCEPT !.cb_begin = FALSE, !.cb_end = FALSE, !.cb_data = NULL].cb_data = NULL
              /\ FrameOK([state EXCEPT !.cb_begin = FALSE, !.cb_end = FALSE, !.cb_data = NULL])
            BY <1>3 DEF Frame, FrameOK
        <3>3. QED
            BY <3>1, <3>2, RtfActionOK
    <2>3. CASE state.cb_data = NULL
        <3>1. state' = [rtf_action(state, ActionTable[controlword]) EXCEPT !.parse_state = "MAIN"]
            BY <2>3, Zenon DEF InterpretAction
        <3>2. QED
            BY <1>3, <2>3, <3>1, RtfActionOK
    <2>4. QED
        BY <2>2, <2>3
<1>5. /\ live' = live \ {state.cb_data}
      /\ ctxFile' \in [CtxIds -> BOOLEAN] /\ detected' \in BOOLEAN
      /\ \A c \in CtxIds : ctxFile'[c] => ctxFile[c] /\ c # state.cb_data
    <2>1. CASE state.cb_data # NULL
        <3>1. state.cb_end
            BY <1>3, <2>1 DEF FrameOK
        <3>2. PICK rc \in EndResults(state.cb_data) : EndCtx(state.cb_data, rc)
            BY <2>1, <3>1 DEF InterpretAction
        <3>3. QED
            BY <1>1, <3>2 DEF EndCtx, TypeFlags
    <2>2. CASE state.cb_data = NULL
        <3>1. UNCHANGED <<live, ctxFile, detected>>
            BY <2>2 DEF InterpretAction
        <3>2. QED
            BY <1>1, <1>3, <2>2, <3>1, ConstSets DEF TypeFlags
    <2>3. QED
        BY <2>1, <2>2
<1>6. ContextOwnership'
    <2>1. live' = ({state'.cb_data} \cup StackOwners(stack')) \ {NULL}
        BY <1>2, <1>3, <1>4, <1>5 DEF Distinct, StackOwners
    <2>2. \A c \in CtxIds : ctxFile'[c] => c \in live'
        BY <1>3, <1>5
    <2>3. Distinct(state', stack')
        BY <1>2, <1>3, <1>4 DEF Distinct
    <2>4. QED
        BY <2>1, <2>2, <2>3 DEF ContextOwnership, Owners, StackOwners, Distinct
<1>7. OwnPart'
    BY <1>2, <1>3, <1>4, <1>6 DEF OwnPart, NoLeakAtReturn, StartClean, StackFramesOK
<1>8. ParseOK'
    BY <1>1, <1>2, <1>4 DEF ParseOK
<1>9. objScope' \in Seq(BOOLEAN) /\ Len(objScope') >= 1
    <2>1. objScope \in Seq(BOOLEAN) /\ Len(objScope) >= 1
        BY <1>1 DEF TypeData
    <2>2. objScope' = objScope \/ objScope' = [objScope EXCEPT ![Len(objScope)] = TRUE]
        BY Zenon DEF InterpretAction
    <2>3. CASE objScope' = objScope
        BY <2>1, <2>3
    <2>4. CASE objScope' = [objScope EXCEPT ![Len(objScope)] = TRUE]
        <3>1. [objScope EXCEPT ![Len(objScope)] = TRUE] \in Seq(BOOLEAN)
              /\ Len([objScope EXCEPT ![Len(objScope)] = TRUE]) = Len(objScope)
            BY <2>1, SetLastSeq
        <3>2. QED
            BY <2>1, <2>4, <3>1
    <2>5. QED
        BY <2>2, <2>3, <2>4
<1>10. TypeData'
    BY <1>1, <1>2, <1>3, <1>4, <1>5, <1>9 DEF TypeData
<1>11. TypeFlags'
    BY <1>1, <1>2, <1>5, Zenon DEF TypeFlags
<1>12. QED
    BY <1>7, <1>8, <1>10, <1>11, Zenon DEF IInv, OwnPart, TypeOK, TypeData, TypeFlags

(***************************************************************************)
(* SCAN_CLEANUP restores the invariant from any state in which every live *)
(* context it is given is one it ends: the working frame's, or one of a    *)
(* stored frame whose cb_end is set.                                       *)
(***************************************************************************)
LEMMA CleanupIInv ==
    ASSUME IInv,
           NEW s \in Frame, NEW r \in Results, NEW lv \in SUBSET CtxIds,
           NEW cf \in [CtxIds -> BOOLEAN], NEW det \in BOOLEAN,
           lv \subseteq StackCtxs(stack) \cup
                        (IF s.cb_data # NULL /\ s.cb_end THEN {s.cb_data} ELSE {}),
           \A c \in CtxIds : cf[c] => c \in lv,
           Cleanup(s, r, lv, cf, det)
    PROVE  IInv'
<1>1. TypeData /\ TypeFlags /\ ParseOK
    BY IInvSplit
<1>2. /\ live' = {}
      /\ ctxFile' \in [CtxIds -> BOOLEAN] /\ \A c \in CtxIds : ~ctxFile'[c]
      /\ state' = base_state /\ stack' = <<>> /\ phase' = "done" /\ ret' = r
      /\ tmpdirExists' = KeepTmp /\ stackAlloc' = FALSE
      /\ UNCHANGED <<stackSize, controlword, param, paramSign, byte, objScope>>
    BY DEF Cleanup
<1>3. detected' \in BOOLEAN
    BY Zenon DEF Cleanup
<1>4. TypeData'
    BY <1>1, <1>2, BaseFrame DEF TypeData
<1>5. TypeFlags'
    BY <1>2, <1>3, ConstSets, Zenon DEF TypeFlags
<1>6. OwnPart'
    BY <1>2, ConstSets DEF OwnPart, ContextOwnership, NoLeakAtReturn, FrameOK,
                           StartClean, Owners, base_state
<1>7. ParseOK'
    BY <1>2 DEF ParseOK, base_state
<1>8. QED
    BY <1>4, <1>5, <1>6, <1>7, Zenon DEF IInv, OwnPart, TypeOK, TypeData, TypeFlags

\* Every live context is ended by SCAN_CLEANUP from the current frames.
LEMMA LiveCovered ==
    ASSUME IInv
    PROVE  live \subseteq StackCtxs(stack) \cup
                   (IF state.cb_data # NULL /\ state.cb_end THEN {state.cb_data} ELSE {})
<1>1. /\ state \in Frame /\ stack \in Seq(Frame)
      /\ FrameOK(state) /\ StackFramesOK(stack)
      /\ live = ({state.cb_data} \cup StackOwners(stack)) \ {NULL}
    BY FramesView
<1>2. QED
    BY <1>1 DEF StackCtxs, StackOwners, StackFramesOK, FrameOK

\* Finish runs SCAN_CLEANUP on the frames as they are.
LEMMA FinishIInv == IInv /\ Finish => IInv'
<1> SUFFICES ASSUME IInv, Finish PROVE IInv'
    OBVIOUS
<1>1. /\ state \in Frame /\ live \subseteq CtxIds /\ ret \in Results
      /\ ctxFile \in [CtxIds -> BOOLEAN] /\ detected \in BOOLEAN
      /\ \A c \in CtxIds : ctxFile[c] => c \in live
    BY FramesView, IInvSplit DEF TypeData, TypeFlags
<1>2. Cleanup(state, ret, live, ctxFile, detected)
    BY DEF Finish
<1>3. QED
    BY <1>1, <1>2, LiveCovered, CleanupIInv DEF Results, Errors

\* PushGrowFails runs SCAN_CLEANUP on the frames as they are.
LEMMA PushGrowFailsIInv == IInv /\ PushGrowFails => IInv'
<1> SUFFICES ASSUME IInv, PushGrowFails PROVE IInv'
    OBVIOUS
<1>1. /\ state \in Frame /\ live \subseteq CtxIds /\ ret \in Results
      /\ ctxFile \in [CtxIds -> BOOLEAN] /\ detected \in BOOLEAN
      /\ \A c \in CtxIds : ctxFile[c] => c \in live
    BY FramesView, IInvSplit DEF TypeData, TypeFlags
<1>2. Cleanup(state, "EMEM", live, ctxFile, detected)
    BY DEF PushGrowFails
<1>3. QED
    BY <1>1, <1>2, LiveCovered, CleanupIInv DEF Results, Errors

\* TextBeginFails runs SCAN_CLEANUP on the frames as they are.
LEMMA TextBeginFailsIInv == IInv /\ TextBeginFails => IInv'
<1> SUFFICES ASSUME IInv, TextBeginFails PROVE IInv'
    OBVIOUS
<1>1. /\ state \in Frame /\ live \subseteq CtxIds /\ ret \in Results
      /\ ctxFile \in [CtxIds -> BOOLEAN] /\ detected \in BOOLEAN
      /\ \A c \in CtxIds : ctxFile[c] => c \in live
    BY FramesView, IInvSplit DEF TypeData, TypeFlags
<1>2. Cleanup(state, "EMEM", live, ctxFile, detected)
    BY DEF TextBeginFails
<1>3. QED
    BY <1>1, <1>2, LiveCovered, CleanupIInv DEF Results, Errors

\* What rtf_object_process may return is a result and a file flag.
LEMMA OutcomesType ==
    \A o \in ProcessOutcomes : o[1] \in Results /\ o[2] \in BOOLEAN
<1> SUFFICES ASSUME NEW o \in ProcessOutcomes PROVE o[1] \in Results /\ o[2] \in BOOLEAN
    OBVIOUS
<1>1. CASE o \in {<<CLEAN, f>> : f \in BOOLEAN}
    BY <1>1 DEF Results, CLEAN
<1>2. CASE o = <<"VIRUS", FALSE>>
    BY <1>2 DEF Results
<1>3. CASE o = <<"EUNLINK", FALSE>>
    BY <1>3 DEF Results, Errors
<1>4. CASE o = <<"EWRITE", TRUE>>
    BY <1>4 DEF Results, Errors
<1>5. CASE o = <<"EMEM", FALSE>>
    BY <1>5 DEF Results, Errors
<1>6. CASE o = <<"ECREAT", FALSE>>
    BY <1>6 DEF Results, Errors
<1>7. QED
    BY <1>1, <1>2, <1>3, <1>4, <1>5, <1>6, Zenon DEF ProcessOutcomes

\* '}' whose cb_end fails: the frame's context is freed by that cb_end and
\* SCAN_CLEANUP ends those of the stored frames.
LEMMA PopGroupEndFailsIInv == IInv /\ PopGroupEndFails => IInv'
<1> SUFFICES ASSUME IInv, PopGroupEndFails PROVE IInv'
    OBVIOUS
<1>1. /\ state \in Frame /\ live \subseteq CtxIds
      /\ ctxFile \in [CtxIds -> BOOLEAN] /\ detected \in BOOLEAN
      /\ \A c \in CtxIds : ctxFile[c] => c \in live
    BY FramesView, IInvSplit DEF TypeData, TypeFlags
<1>2. PICK rc \in EndResults(state.cb_data) \ {CLEAN} :
          Cleanup([state EXCEPT !.cb_data = NULL], rc, live \ {state.cb_data},
                  [ctxFile EXCEPT ![state.cb_data] = FALSE],
                  detected \/ rc = "VIRUS")
    BY DEF PopGroupEndFails
<1>3. rc \in Results
    BY DEF EndResults, Results, Errors
<1>4. [state EXCEPT !.cb_data = NULL] \in Frame
    BY <1>1 DEF Frame
<1>5. live \ {state.cb_data} \subseteq StackCtxs(stack)
    BY LiveCovered
<1>6. \A c \in CtxIds : [ctxFile EXCEPT ![state.cb_data] = FALSE][c] => c \in live \ {state.cb_data}
    BY <1>1
<1>7. [ctxFile EXCEPT ![state.cb_data] = FALSE] \in [CtxIds -> BOOLEAN]
    BY <1>1
<1>8. (detected \/ rc = "VIRUS") \in BOOLEAN
    BY Zenon
<1>9. QED
    BY <1>1, <1>2, <1>3, <1>4, <1>5, <1>6, <1>7, <1>8, CleanupIInv

\* cb_process fails: its cb_end frees the context (begun now or before) and
\* SCAN_CLEANUP ends the rest.
LEMMA TextProcessFailsIInv == IInv /\ TextProcessFails => IInv'
<1> SUFFICES ASSUME IInv, TextProcessFails PROVE IInv'
    OBVIOUS
<1>1. /\ state \in Frame /\ live \subseteq CtxIds /\ FrameOK(state)
      /\ ctxFile \in [CtxIds -> BOOLEAN] /\ detected \in BOOLEAN
      /\ \A c \in CtxIds : ctxFile[c] => c \in live
    BY FramesView, IInvSplit DEF TypeData, TypeFlags
<1>2. state.cb_begin
    BY DEF TextProcessFails
<1>3. PICK k \in ProcessCtxs, o \in ProcessOutcomes :
          /\ o[1] # CLEAN
          /\ Cleanup([state EXCEPT !.cb_data = k], o[1], live \cup {k},
                     [ctxFile EXCEPT ![k] = o[2]], detected \/ o[1] = "VIRUS")
    BY DEF TextProcessFails
<1> DEFINE s1 == [state EXCEPT !.cb_data = k]
           lv1 == live \cup {k}
           cf1 == [ctxFile EXCEPT ![k] = o[2]]
           det1 == detected \/ o[1] = "VIRUS"
<1>4. Cleanup(s1, o[1], lv1, cf1, det1)
    BY <1>3, Zenon DEF s1, lv1, cf1, det1
<1>5. o[1] \in Results /\ o[2] \in BOOLEAN
    BY OutcomesType
<1>6. k \in CtxIds /\ (state.cb_data # NULL => k = state.cb_data)
    BY <1>1 DEF ProcessCtxs, Frame
<1>7. s1 \in Frame /\ s1.cb_data = k /\ s1.cb_end
    BY <1>1, <1>2, <1>6 DEF Frame, FrameOK, s1
<1>8. lv1 \subseteq StackCtxs(stack) \cup
                    (IF s1.cb_data # NULL /\ s1.cb_end THEN {s1.cb_data} ELSE {})
    <2>1. live \subseteq StackCtxs(stack) \cup {k}
        BY <1>6, LiveCovered
    <2>2. QED
        BY <1>6, <1>7, <2>1, ConstSets DEF lv1
<1>9. cf1 \in [CtxIds -> BOOLEAN] /\ \A c \in CtxIds : cf1[c] => c \in lv1
    BY <1>1, <1>5, <1>6 DEF cf1, lv1
<1>10. det1 \in BOOLEAN
    BY Zenon DEF det1
<1>11. lv1 \in SUBSET CtxIds
    BY <1>1, <1>6 DEF lv1
<1> HIDE DEF s1, lv1, cf1, det1
<1>12. QED
    BY <1>4, <1>5, <1>7, <1>8, <1>9, <1>10, <1>11, CleanupIInv

\* The initial state of cli_scanrtf satisfies the invariant.
LEMMA InitIInv == Init => IInv
<1> SUFFICES ASSUME Init PROVE IInv
    OBVIOUS
<1>1. TypeData
    BY ConstNums, BaseFrame DEF Init, TypeData, Results
<1>2. TypeFlags
    BY Zenon DEF Init, TypeFlags
<1>3. OwnPart
    BY ConstSets DEF Init, OwnPart, ContextOwnership, NoLeakAtReturn, FrameOK,
                     StartClean, Owners, base_state
<1>4. ParseOK
    BY DEF Init, ParseOK, base_state
<1>5. QED
    BY <1>1, <1>2, <1>3, <1>4, IInvSplit

\* A stuttering step keeps the invariant.
LEMMA StutterIInv == IInv /\ UNCHANGED vars => IInv'
<1> SUFFICES ASSUME IInv, UNCHANGED vars PROVE IInv'
    OBVIOUS
<1>1. UNCHANGED <<state, stack, stackSize, controlword, param, paramSign, byte, live,
                  ctxFile, phase, ret, stackAlloc, tmpdirExists, objScope, detected>>
    BY DEF vars
<1>2. TypeData /\ TypeFlags /\ OwnPart /\ ParseOK
    BY IInvSplit
<1>3. TypeData'
    BY <1>1, <1>2 DEF TypeData
<1>4. TypeFlags'
    BY <1>1, <1>2, Zenon DEF TypeFlags
<1>5. OwnPart'
    BY <1>1, <1>2, OwnFrozen
<1>6. ParseOK'
    BY <1>1, <1>2 DEF ParseOK
<1>7. QED
    BY <1>3, <1>4, <1>5, <1>6, Zenon DEF IInv, OwnPart, TypeOK, TypeData, TypeFlags

\* Every step of cli_scanrtf keeps the invariant.
LEMMA NextIInv == IInv /\ [Next]_vars => IInv'
<1> SUFFICES ASSUME IInv, [Next]_vars PROVE IInv'
    OBVIOUS
<1>1. CASE Start
    BY <1>1, StartIInv
<1>2. CASE StartStackFails
    BY <1>2, StartStackFailsIInv
<1>3. CASE StartGentempFails
    BY <1>3, StartGentempFailsIInv
<1>4. CASE StartMkdirFails
    BY <1>4, StartMkdirFailsIInv
<1>5. CASE StartActionsFail
    BY <1>5, StartActionsFailIInv
<1>6. CASE PushDefault
    BY <1>6, PushDefaultIInv
<1>7. CASE PushFrame
    BY <1>7, PushFrameIInv
<1>8. CASE PushGrowFails
    BY <1>8, PushGrowFailsIInv
<1>9. CASE PopGroup
    BY <1>9, PopGroupIInv
<1>10. CASE PopGroupEndFails
    BY <1>10, PopGroupEndFailsIInv
<1>11. CASE Backslash
    BY <1>11, BackslashIInv
<1>12. CASE TextSkip
    BY <1>12, TextSkipIInv
<1>13. CASE TextProcess
    BY <1>13, TextProcessIInv
<1>14. CASE TextBeginFails
    BY <1>14, TextBeginFailsIInv
<1>15. CASE TextProcessFails
    BY <1>15, TextProcessFailsIInv
<1>16. CASE ControlLetter
    BY <1>16, ControlLetterIInv
<1>17. CASE ControlSymbol
    BY <1>17, ControlSymbolIInv
<1>18. CASE SymbolSkip
    BY <1>18, SymbolSkipIInv
<1>19. CASE WordTooLong
    BY <1>19, WordTooLongIInv
<1>20. CASE WordLetter
    BY <1>20, WordLetterIInv
<1>21. CASE WordSpace
    BY <1>21, WordSpaceIInv
<1>22. CASE WordDigit
    BY <1>22, WordDigitIInv
<1>23. CASE WordMinus
    BY <1>23, WordMinusIInv
<1>24. CASE WordOther
    BY <1>24, WordOtherIInv
<1>25. CASE ParamDigit
    BY <1>25, ParamDigitIInv
<1>26. CASE ParamOverflow
    BY <1>26, ParamOverflowIInv
<1>27. CASE ParamLetter
    BY <1>27, ParamLetterIInv
<1>28. CASE ParamEnd
    BY <1>28, ParamEndIInv
<1>29. CASE InterpretUnknown
    BY <1>29, InterpretUnknownIInv
<1>30. CASE InterpretAction
    BY <1>30, InterpretActionIInv
<1>31. CASE Finish
    BY <1>31, FinishIInv
<1>32. CASE UNCHANGED vars
    BY <1>32, StutterIInv
<1>33. QED
    BY <1>1, <1>2, <1>3, <1>4, <1>5, <1>6, <1>7, <1>8, <1>9, <1>10, <1>11, <1>12, <1>13, <1>14, <1>15, <1>16, <1>17, <1>18, <1>19, <1>20, <1>21, <1>22, <1>23, <1>24, <1>25, <1>26, <1>27, <1>28, <1>29, <1>30, <1>31, <1>32 DEF Next

\* The inductive invariant holds in every reachable state.
THEOREM ParserInvariant == Spec => []IInv
BY InitIInv, NextIInv, PTL DEF Spec

(***************************************************************************)
(* Every reachable state of cli_scanrtf is well typed: the frames, the     *)
(* stack, the control word within its 32 bytes and the parameter within   *)
(* INT64's bound.                                                          *)
(***************************************************************************)
THEOREM ParserTypeOK == Spec => []TypeOK
<1>1. IInv => TypeOK
    BY DEF IInv
<1>2. QED
    BY <1>1, ParserInvariant, PTL

(***************************************************************************)
(* For every input and every failure, each rtf_object context that is     *)
(* allocated and not yet freed is held by exactly one frame of the        *)
(* working frame and the group stack, and only such contexts hold a temp   *)
(* file.                                                                   *)
(***************************************************************************)
THEOREM ParserContextOwnership == Spec => []ContextOwnership
<1>1. IInv => ContextOwnership
    BY DEF IInv
<1>2. QED
    BY <1>1, ParserInvariant, PTL

(***************************************************************************)
(* Whatever path cli_scanrtf returns by, no object context is left         *)
(* allocated, no temp file open, and the temp directory is gone unless     *)
(* keeptmp.                                                                *)
(***************************************************************************)
THEOREM ParserNoLeakAtReturn == Spec => []NoLeakAtReturn
<1>1. IInv => NoLeakAtReturn
    BY DEF IInv
<1>2. QED
    BY <1>1, ParserInvariant, PTL

=============================================================================
