---------------------- MODULE RtfParserRefinementProofs ----------------------
(***************************************************************************)
(* Proof that the parser's compressed group stack implements GroupStack    *)
(* under the mapping of RtfParserRefinement, for every value of the        *)
(* constants.  It rests on the invariants IInv (RtfParserProofs) and       *)
(* StorageInv (RtfParserBounds).                                           *)
(***************************************************************************)
EXTENDS RtfParserRefinement, RtfParserBounds, InductionLemmas

(***************************************************************************)
(* The recursion of StoredFrames, as an operator of the value at the       *)
(* smaller depth.                                                          *)
(***************************************************************************)
StoredBase == [stk \in Seq(Frame) |-> <<>>]
StoredDef(v, n) ==
    [stk \in Seq(Frame) |->
        IF stk = <<>> THEN <<>>
        ELSE v[SubSeq(stk, 1, Len(stk) - 1)] \o Block(stk[Len(stk)])]

LEMMA StoredFix ==
    StoredFrames = [n \in Nat |-> IF n = 0 THEN StoredBase ELSE StoredDef(StoredFrames[n - 1], n)]
<1>1. NatInductiveDefHypothesis(StoredFrames, StoredBase, StoredDef)
    BY DEF NatInductiveDefHypothesis, StoredFrames, StoredBase, StoredDef
<1>2. NatInductiveDefConclusion(StoredFrames, StoredBase, StoredDef)
    BY <1>1, NatInductiveDef
<1>3. QED
    BY <1>2 DEF NatInductiveDefConclusion

\* The default frames counted in a working frame.
LEMMA DefaultsType ==
    ASSUME NEW n \in Nat
    PROVE  /\ Defaults(n) \in Seq(Bindings) /\ Len(Defaults(n)) = n
           /\ DefaultBinding \in Bindings
BY DEF Defaults, DefaultBinding, Binding, base_state, Bindings

LEMMA BindingType ==
    ASSUME NEW s \in Frame PROVE Binding(s) \in Bindings
BY DEF Binding, Bindings, Frame

LEMMA BlockType ==
    ASSUME NEW s \in Frame PROVE Block(s) \in Seq(Bindings)
<1>1. Defaults(s.default_elements) \in Seq(Bindings) /\ Binding(s) \in Bindings
    BY DefaultsType, BindingType DEF Frame
<1>2. QED
    BY <1>1 DEF Block

LEMMA StoredType ==
    StoredFrames \in [Nat -> [Seq(Frame) -> Seq(Bindings)]]
<1>1. StoredBase \in [Seq(Frame) -> Seq(Bindings)]
    BY DEF StoredBase
<1>2. \A v \in [Seq(Frame) -> Seq(Bindings)], n \in Nat \ {0} :
          StoredDef(v, n) \in [Seq(Frame) -> Seq(Bindings)]
    <2> SUFFICES ASSUME NEW v \in [Seq(Frame) -> Seq(Bindings)], NEW n \in Nat \ {0}
                 PROVE  StoredDef(v, n) \in [Seq(Frame) -> Seq(Bindings)]
        OBVIOUS
    <2>1. ASSUME NEW stk \in Seq(Frame), stk # <<>>
          PROVE  v[SubSeq(stk, 1, Len(stk) - 1)] \o Block(stk[Len(stk)]) \in Seq(Bindings)
        <3>1. Len(stk) >= 1
            BY <2>1
        <3>2. SubSeq(stk, 1, Len(stk) - 1) \in Seq(Frame) /\ stk[Len(stk)] \in Frame
            BY <3>1, PopSeq
        <3>3. Block(stk[Len(stk)]) \in Seq(Bindings)
            BY <3>2, BlockType
        <3>4. v[SubSeq(stk, 1, Len(stk) - 1)] \in Seq(Bindings)
            BY <3>2
        <3>5. QED
            BY <3>3, <3>4, ConcatProperties
    <2>2. \A stk \in Seq(Frame) :
              (IF stk = <<>> THEN <<>>
               ELSE v[SubSeq(stk, 1, Len(stk) - 1)] \o Block(stk[Len(stk)])) \in Seq(Bindings)
        BY <2>1
    <2>3. QED
        BY <2>2, Zenon DEF StoredDef
<1>3. \A n \in Nat : StoredFrames[n] \in [Seq(Frame) -> Seq(Bindings)]
    <2> DEFINE Bad == {n \in Nat : StoredFrames[n] \notin [Seq(Frame) -> Seq(Bindings)]}
    <2> SUFFICES Bad = {}
        OBVIOUS
    <2>1. ASSUME Bad # {} PROVE FALSE
        <3>1. PICK m \in Bad : \A k \in Bad : m <= k
            BY <2>1, LeastNat
        <3>2. m # 0
            BY <1>1, <3>1, StoredFix
        <3>3. m - 1 \in Nat /\ m - 1 \notin Bad
            BY <3>1, <3>2
        <3>4. StoredFrames[m] = StoredDef(StoredFrames[m - 1], m)
            BY <3>2, StoredFix
        <3>5. QED
            BY <1>2, <3>1, <3>3, <3>4
    <2>2. QED
        BY <2>1
<1>4. QED
    BY <1>3, StoredFix

\* The blocks of every stack of frames form a sequence of bindings.
LEMMA StoredAt ==
    ASSUME NEW stk \in Seq(Frame) PROVE StoredFrames[Len(stk)][stk] \in Seq(Bindings)
<1>1. Len(stk) \in Nat
    OBVIOUS
<1>2. StoredFrames[Len(stk)] \in [Seq(Frame) -> Seq(Bindings)]
    BY <1>1, StoredType
<1>3. QED
    BY <1>2

\* No frame stored: no logical frame.
LEMMA StoredEmpty == StoredFrames[0][<<>>] = <<>>
<1>1. <<>> \in Seq(Frame)
    OBVIOUS
<1>2. QED
    BY <1>1, StoredFix DEF StoredBase

\* The blocks of a stack of n frames are those of its n - 1 lower frames
\* followed by the block of its top frame.
LEMMA StoredTop ==
    ASSUME NEW stk \in Seq(Frame), Len(stk) >= 1
    PROVE  StoredFrames[Len(stk)][stk]
             = StoredFrames[Len(stk) - 1][SubSeq(stk, 1, Len(stk) - 1)] \o Block(stk[Len(stk)])
<1>1. Len(stk) \in Nat \ {0} /\ stk # <<>>
    OBVIOUS
<1>2. StoredFrames[Len(stk)] = StoredDef(StoredFrames[Len(stk) - 1], Len(stk))
    BY <1>1, StoredFix
<1>3. QED
    BY <1>1, <1>2 DEF StoredDef

\* The logical stack of a stack with its default count is a sequence of bindings.
LEMMA LogicalType ==
    ASSUME NEW stk \in Seq(Frame), NEW de \in Nat
    PROVE  Logical(stk, de) \in Seq(Bindings)
<1>1. StoredFrames[Len(stk)][stk] \in Seq(Bindings) /\ Defaults(de) \in Seq(Bindings)
    BY StoredAt, DefaultsType
<1>2. QED
    BY <1>1, ConcatProperties DEF Logical

\* The last element of an appended sequence, and what is left without it.
LEMMA AppendTop ==
    ASSUME NEW S, NEW sq \in Seq(S), NEW x \in S
    PROVE  /\ Append(sq, x) # <<>>
           /\ Append(sq, x)[Len(Append(sq, x))] = x
           /\ SubSeq(Append(sq, x), 1, Len(Append(sq, x)) - 1) = sq
<1>1. Append(sq, x) # <<>> /\ Len(Append(sq, x)) = Len(sq) + 1
      /\ Append(sq, x)[Len(sq) + 1] = x
    BY AppendProperties
<1>2. SubSeq(Append(sq, x), 1, Len(sq)) = sq
    BY AppendProperties, SubSeqProperties
<1>3. QED
    BY <1>1, <1>2

\* A '{' counted in default_elements adds a default frame on top.
LEMMA LogicalDefault ==
    ASSUME NEW stk \in Seq(Frame), NEW de \in Nat
    PROVE  Logical(stk, de + 1) = Append(Logical(stk, de), DefaultBinding)
<1> DEFINE P == StoredFrames[Len(stk)][stk]
<1>1. P \in Seq(Bindings) /\ DefaultBinding \in Bindings /\ Defaults(de) \in Seq(Bindings)
    BY StoredAt, DefaultsType
<1>2. Defaults(de + 1) = Defaults(de) \o <<DefaultBinding>>
    BY DEF Defaults
<1>3. P \o (Defaults(de) \o <<DefaultBinding>>) = Append(P \o Defaults(de), DefaultBinding)
    <2> DEFINE Ds == Defaults(de)
    <2>1. P \in Seq(Bindings) /\ Ds \in Seq(Bindings) /\ DefaultBinding \in Bindings
        BY <1>1
    <2> HIDE DEF P, Ds
    <2>2. QED
        BY <2>1, ConcatAppend
<1>4. QED
    BY <1>2, <1>3 DEF Logical

\* With no default frame counted, the top of the logical stack is the
\* binding of the top stored frame, above the logical stack of the stored
\* frames below it with the top frame's default count.
LEMMA LogicalTop ==
    ASSUME NEW stk \in Seq(Frame), Len(stk) >= 1
    PROVE  LET low == SubSeq(stk, 1, Len(stk) - 1)
               top == stk[Len(stk)]
           IN  Logical(stk, 0) = Append(Logical(low, top.default_elements), Binding(top))
<1> DEFINE low == SubSeq(stk, 1, Len(stk) - 1)
           top == stk[Len(stk)]
           Q == StoredFrames[Len(low)][low]
           D == Defaults(top.default_elements)
<1>1. low \in Seq(Frame) /\ Len(low) = Len(stk) - 1 /\ top \in Frame
    BY PopSeq
<1>2. Q \in Seq(Bindings) /\ D \in Seq(Bindings) /\ Binding(top) \in Bindings
    <2>1. Q \in Seq(Bindings)
        BY <1>1, StoredAt
    <2>2. top.default_elements \in Nat
        BY <1>1 DEF Frame
    <2>3. QED
        BY <1>1, <2>1, <2>2, DefaultsType, BindingType
<1>3. StoredFrames[Len(stk)][stk] = Q \o (D \o <<Binding(top)>>)
    BY <1>1, StoredTop DEF Block
<1>4. StoredFrames[Len(stk)][stk] \in Seq(Bindings)
    BY StoredAt
<1>5. Logical(stk, 0) = StoredFrames[Len(stk)][stk]
    BY <1>4, ConcatEmptySeq DEF Logical, Defaults
<1>6. Q \o (D \o <<Binding(top)>>) = Append(Q \o D, Binding(top))
    <2> HIDE DEF Q, D
    <2>1. QED
        BY <1>2, ConcatAppend
<1>7. Logical(low, top.default_elements) = Q \o D
    BY DEF Logical
<1>8. QED
    BY <1>3, <1>5, <1>6, <1>7

\* No frame stored and none counted: an empty logical stack.
LEMMA LogicalEmpty == Logical(<<>>, 0) = <<>>
<1>1. StoredFrames[Len(<<>>)][<<>>] = <<>>
    BY StoredEmpty
<1>2. QED
    BY <1>1 DEF Logical, Defaults

(***************************************************************************)
(* The mapped steps.  A step that keeps the stored frames and the default  *)
(* count while parsing goes on is an Update of the current binding; a      *)
(* step that ends cli_scanrtf through SCAN_CLEANUP is a Discard.           *)
(***************************************************************************)
LEMMA MapUpdate ==
    ASSUME state' \in Frame, stack' = stack,
           state'.default_elements = state.default_elements,
           phase # "done", phase' # "done"
    PROVE  Groups!Update
<1>1. Binding(state') \in Bindings
    BY BindingType
<1>2. QED
    BY <1>1 DEF Groups!Update

LEMMA MapDiscard ==
    ASSUME phase # "done", state' = base_state, stack' = <<>>, phase' = "done"
    PROVE  Groups!Discard
BY LogicalEmpty DEF Groups!Discard, DefaultBinding, base_state

\* '{' on a default frame: the default frame is counted, and a default
\* frame is pushed on the logical stack.
LEMMA PushDefaultMaps == IInv /\ PushDefault => Groups!Push
<1> SUFFICES ASSUME IInv, PushDefault PROVE Groups!Push
    OBVIOUS
<1>1. state \in Frame /\ stack \in Seq(Frame)
    BY FramesView
<1>2. /\ state' = [state EXCEPT !.default_elements = @ + 1]
      /\ stack' = stack /\ phase' = phase /\ phase = "scan"
      /\ compare_state(state)
    BY DEF PushDefault, InMain
<1>3. Binding(state) = DefaultBinding
    BY <1>1, <1>2 DEF compare_state, Binding, DefaultBinding, base_state, Frame
<1>4. Binding(state') = Binding(state)
      /\ state'.default_elements = state.default_elements + 1
      /\ state.default_elements \in Nat
    BY <1>1, <1>2 DEF Binding, Frame
<1>5. Logical(stack', state'.default_elements)
        = Append(Logical(stack, state.default_elements), DefaultBinding)
    BY <1>1, <1>2, <1>4, LogicalDefault
<1>6. QED
    BY <1>2, <1>3, <1>4, <1>5 DEF Groups!Push

\* '{' on any other frame: push_state stores it, and its binding is pushed
\* on the logical stack above the default frames it counted.
LEMMA PushFrameMaps == IInv /\ PushFrame => Groups!Push
<1> SUFFICES ASSUME IInv, PushFrame PROVE Groups!Push
    OBVIOUS
<1>1. state \in Frame /\ stack \in Seq(Frame)
    BY FramesView
<1>2. /\ state' = [base_state EXCEPT !.toplevel = state.toplevel]
      /\ stack' = Append(stack, state) /\ phase' = phase /\ phase = "scan"
    BY DEF PushFrame, InMain
<1>3. Binding(state') = DefaultBinding /\ state'.default_elements = 0
    BY <1>2 DEF Binding, DefaultBinding, base_state
<1>4. /\ stack' \in Seq(Frame) /\ Len(stack') >= 1
      /\ stack'[Len(stack')] = state
      /\ SubSeq(stack', 1, Len(stack') - 1) = stack
    BY <1>1, <1>2, AppendTop, AppendProperties
<1>5. Logical(stack', 0)
        = Append(Logical(stack, state.default_elements), Binding(state))
    BY <1>4, LogicalTop
<1>6. QED
    BY <1>2, <1>3, <1>5 DEF Groups!Push

(***************************************************************************)
(* '}': pop_state gives back the frame on top of the logical stack, be it *)
(* a counted default frame, the stored top frame, or, with nothing saved,  *)
(* a default frame.                                                        *)
(***************************************************************************)
LEMMA PopGroupMaps == IInv /\ PopGroup => Groups!Pop
<1> SUFFICES ASSUME IInv, PopGroup PROVE Groups!Pop
    OBVIOUS
<1>1. state \in Frame /\ stack \in Seq(Frame) /\ state.default_elements \in Nat
    BY FramesView DEF Frame
<1>2. /\ state' = PopState(state, stack)[1] /\ stack' = PopState(state, stack)[2]
      /\ phase' = phase /\ phase = "scan"
    BY DEF PopGroup, InMain
<1>3. CASE state.default_elements > 0
    <2> DEFINE de == state.default_elements
    <2>1. state' = [base_state EXCEPT !.default_elements = de - 1,
                                      !.toplevel = state.toplevel]
          /\ stack' = stack
        BY <1>2, <1>3 DEF PopState
    <2>2. Binding(state') = DefaultBinding /\ state'.default_elements = de - 1
        BY <2>1 DEF Binding, DefaultBinding, base_state
    <2>3. Logical(stack, de) = Append(Logical(stack, de - 1), DefaultBinding)
        <3>1. de - 1 \in Nat /\ (de - 1) + 1 = de
            BY <1>1, <1>3
        <3>2. QED
            BY <1>1, <3>1, LogicalDefault
    <2>4. Logical(stack, de - 1) \in Seq(Bindings) /\ DefaultBinding \in Bindings
        BY <1>1, <1>3, LogicalType, DefaultsType
    <2>5. /\ Logical(stack, de) # <<>>
          /\ Logical(stack, de)[Len(Logical(stack, de))] = DefaultBinding
          /\ SubSeq(Logical(stack, de), 1, Len(Logical(stack, de)) - 1)
               = Logical(stack, de - 1)
        <3> HIDE DEF de
        <3>1. QED
            BY <2>3, <2>4, AppendTop
    <2>6. QED
        BY <1>2, <2>1, <2>2, <2>5 DEF Groups!Pop
<1>4. CASE ~(state.default_elements > 0) /\ stack = <<>>
    <2>1. state' = base_state /\ stack' = <<>> /\ state.default_elements = 0
        BY <1>1, <1>2, <1>4 DEF PopState
    <2>2. Logical(stack, state.default_elements) = <<>>
        BY <1>4, <2>1, LogicalEmpty
    <2>3. Binding(state') = DefaultBinding /\ state'.default_elements = 0
        BY <2>1 DEF DefaultBinding, base_state
    <2>4. Logical(stack', state'.default_elements) = <<>>
        BY <2>1, <2>3, LogicalEmpty
    <2>5. QED
        BY <1>2, <2>2, <2>3, <2>4 DEF Groups!Pop
<1>5. CASE ~(state.default_elements > 0) /\ stack # <<>>
    <2> DEFINE low == SubSeq(stack, 1, Len(stack) - 1)
               top == stack[Len(stack)]
               L == Logical(stack, 0)
    <2>1. Len(stack) >= 1 /\ state.default_elements = 0
        BY <1>1, <1>5
    <2>2. state' = top /\ stack' = low
        BY <1>2, <1>5 DEF PopState
    <2>3. low \in Seq(Frame) /\ top \in Frame
        BY <1>1, <2>1, PopSeq
    <2>4. L = Append(Logical(low, top.default_elements), Binding(top))
        BY <1>1, <2>1, LogicalTop
    <2>5. Logical(low, top.default_elements) \in Seq(Bindings) /\ Binding(top) \in Bindings
        <3>1. top.default_elements \in Nat
            BY <2>3 DEF Frame
        <3>2. QED
            BY <2>3, <3>1, LogicalType, BindingType
    <2>6. L # <<>> /\ L[Len(L)] = Binding(top)
          /\ SubSeq(L, 1, Len(L) - 1) = Logical(low, top.default_elements)
        <3> HIDE DEF low, top, L
        <3>1. QED
            BY <2>4, <2>5, AppendTop
    <2>7. QED
        BY <1>2, <2>1, <2>2, <2>6 DEF Groups!Pop
<1>6. QED
    BY <1>3, <1>4, <1>5

\* What the steps that neither push, pop nor end the scan do to the mapped
\* state: the stored frames and the default count stay, parsing goes on.
Kept ==
    /\ stack' = stack /\ state'.default_elements = state.default_elements
    /\ phase # "done" /\ phase' # "done"

\* rtf_action sets callbacks and the toplevel bit, never the default count.
LEMMA RtfActionCount ==
    ASSUME NEW f \in Frame, NEW a
    PROVE  rtf_action(f, a).default_elements = f.default_elements
<1>1. CASE a = RTF_OBJECT
    BY <1>1 DEF rtf_action, Frame
<1>2. CASE a # RTF_OBJECT /\ a = RTF_OBJECT_DATA /\ f.toplevel
    BY <1>2 DEF rtf_action, Frame
<1>3. CASE a # RTF_OBJECT /\ ~(a = RTF_OBJECT_DATA /\ f.toplevel)
    <2>1. rtf_action(f, a) = f
        BY <1>3, Zenon DEF rtf_action
    <2>2. QED
        BY <2>1
<1>4. QED
    BY <1>1, <1>2, <1>3

LEMMA KeptSteps ==
    ASSUME IInv,
           \/ Start \/ Backslash \/ TextSkip \/ TextProcess
           \/ ControlLetter \/ ControlSymbol \/ SymbolSkip
           \/ WordTooLong \/ WordLetter \/ WordSpace \/ WordDigit \/ WordMinus \/ WordOther
           \/ ParamDigit \/ ParamOverflow \/ ParamLetter \/ ParamEnd
           \/ InterpretUnknown \/ InterpretAction
    PROVE  Kept
<1>1. state \in Frame
    BY FramesView
<1>2. CASE Start \/ TextSkip \/ WordLetter \/ ParamDigit \/ ParamLetter
    <2>1. stack' = stack /\ state' = state /\ phase # "done" /\ phase' # "done"
        BY <1>2, Zenon DEF Start, TextSkip, WordLetter, ParamDigit, ParamLetter, InState
    <2>2. QED
        BY <2>1 DEF Kept
<1>3. CASE Backslash
    <2>1. stack' = stack /\ state' = [state EXCEPT !.parse_state = "CONTROL"]
          /\ phase = "scan" /\ phase' = phase
        BY <1>3 DEF Backslash, InMain
    <2>2. QED
        BY <1>1, <2>1 DEF Kept, Frame
<1>4. ASSUME NEW ps, NEW ps2, InState(ps), Goto(ps2) PROVE Kept
    <2>1. stack' = stack /\ state' = [state EXCEPT !.parse_state = ps2]
          /\ phase = "scan" /\ phase' = phase
        BY <1>4 DEF InState, Goto
    <2>2. QED
        BY <1>1, <2>1 DEF Kept, Frame
<1>5. CASE ControlLetter \/ ControlSymbol \/ SymbolSkip \/ WordTooLong \/ WordSpace
           \/ WordDigit \/ WordMinus \/ WordOther \/ ParamOverflow \/ ParamEnd
           \/ InterpretUnknown
    <2>1. CASE ControlLetter
        <3>1. InState("CONTROL")
            BY <2>1 DEF ControlLetter
        <3>2. PICK t : Goto(t)
            BY <2>1 DEF ControlLetter
        <3>3. QED
            BY <1>4, <3>1, <3>2
    <2>2. CASE ControlSymbol
        <3>1. InState("CONTROL")
            BY <2>2 DEF ControlSymbol
        <3>2. PICK t : Goto(t)
            BY <2>2 DEF ControlSymbol
        <3>3. QED
            BY <1>4, <3>1, <3>2
    <2>3. CASE SymbolSkip
        <3>1. InState("CONTROL_SYMBOL")
            BY <2>3 DEF SymbolSkip
        <3>2. PICK t : Goto(t)
            BY <2>3 DEF SymbolSkip
        <3>3. QED
            BY <1>4, <3>1, <3>2
    <2>4. CASE WordTooLong
        <3>1. InState("CONTROL_WORD")
            BY <2>4 DEF WordTooLong
        <3>2. PICK t : Goto(t)
            BY <2>4 DEF WordTooLong
        <3>3. QED
            BY <1>4, <3>1, <3>2
    <2>5. CASE WordSpace
        <3>1. InState("CONTROL_WORD")
            BY <2>5 DEF WordSpace
        <3>2. PICK t : Goto(t)
            BY <2>5 DEF WordSpace
        <3>3. QED
            BY <1>4, <3>1, <3>2
    <2>6. CASE WordDigit
        <3>1. InState("CONTROL_WORD")
            BY <2>6 DEF WordDigit
        <3>2. PICK t : Goto(t)
            BY <2>6 DEF WordDigit
        <3>3. QED
            BY <1>4, <3>1, <3>2
    <2>7. CASE WordMinus
        <3>1. InState("CONTROL_WORD")
            BY <2>7 DEF WordMinus
        <3>2. PICK t : Goto(t)
            BY <2>7 DEF WordMinus
        <3>3. QED
            BY <1>4, <3>1, <3>2
    <2>8. CASE WordOther
        <3>1. InState("CONTROL_WORD")
            BY <2>8 DEF WordOther
        <3>2. PICK t : Goto(t)
            BY <2>8 DEF WordOther
        <3>3. QED
            BY <1>4, <3>1, <3>2
    <2>9. CASE ParamOverflow
        <3>1. InState("CONTROL_WORD_PARAM")
            BY <2>9 DEF ParamOverflow
        <3>2. PICK t : Goto(t)
            BY <2>9 DEF ParamOverflow
        <3>3. QED
            BY <1>4, <3>1, <3>2
    <2>10. CASE ParamEnd
        <3>1. InState("CONTROL_WORD_PARAM")
            BY <2>10 DEF ParamEnd
        <3>2. PICK t : Goto(t)
            BY <2>10 DEF ParamEnd
        <3>3. QED
            BY <1>4, <3>1, <3>2
    <2>11. CASE InterpretUnknown
        <3>1. InState("INTERPRET_CONTROLWORD")
            BY <2>11 DEF InterpretUnknown
        <3>2. PICK t : Goto(t)
            BY <2>11 DEF InterpretUnknown
        <3>3. QED
            BY <1>4, <3>1, <3>2
    <2>12. QED
        BY <1>5, <2>1, <2>2, <2>3, <2>4, <2>5, <2>6, <2>7, <2>8, <2>9, <2>10, <2>11
<1>6. CASE TextProcess
    <2>1. PICK c \in ProcessCtxs : state' = [state EXCEPT !.cb_data = c]
        BY <1>6 DEF TextProcess
    <2>2. stack' = stack /\ phase = "scan" /\ phase' = phase
        BY <1>6 DEF TextProcess
    <2>3. QED
        BY <1>1, <2>1, <2>2 DEF Kept, Frame
<1>7. CASE InterpretAction
    <2> DEFINE ended == state.cb_data # NULL /\ state.cb_end
               s1 == IF ended THEN [state EXCEPT !.cb_begin = FALSE, !.cb_end = FALSE,
                                                 !.cb_data = NULL]
                              ELSE state
    <2>1. stack' = stack /\ phase = "scan" /\ phase' = phase
          /\ state' = [rtf_action(s1, ActionTable[controlword]) EXCEPT !.parse_state = "MAIN"]
        BY <1>7 DEF InterpretAction, InState
    <2>2. s1 \in Frame /\ s1.default_elements = state.default_elements
        BY <1>1, ConstSets DEF Frame
    <2>3. rtf_action(s1, ActionTable[controlword]).default_elements = state.default_elements
        BY <2>2, RtfActionCount
    <2>4. rtf_action(s1, ActionTable[controlword]) \in Frame
        <3>1. CASE ActionTable[controlword] = RTF_OBJECT
            BY <2>2, <3>1 DEF rtf_action, Frame
        <3>2. CASE ActionTable[controlword] # RTF_OBJECT
                   /\ ActionTable[controlword] = RTF_OBJECT_DATA /\ s1.toplevel
            BY <2>2, <3>2 DEF rtf_action, Frame
        <3>3. CASE ActionTable[controlword] # RTF_OBJECT
                   /\ ~(ActionTable[controlword] = RTF_OBJECT_DATA /\ s1.toplevel)
            BY <2>2, <3>3, Zenon DEF rtf_action
        <3>4. QED
            BY <3>1, <3>2, <3>3
    <2>5. QED
        BY <2>1, <2>3, <2>4 DEF Kept, Frame
<1>8. QED
    BY <1>2, <1>3, <1>5, <1>6, <1>7

\* Before parsing starts, the working frame is still base_state.
StartBase == phase = "start" => state = base_state

\* SCAN_CLEANUP ends with base_state as the working frame and no stored frame.
LEMMA CleanupEnds ==
    ASSUME NEW s, NEW r, NEW lv, NEW cf, NEW det, Cleanup(s, r, lv, cf, det)
    PROVE  state' = base_state /\ stack' = <<>> /\ phase' = "done"
BY Zenon DEF Cleanup

\* Before parsing starts only the steps of the start of cli_scanrtf can run.
LEMMA StartOnly ==
    ASSUME Next, phase = "start"
    PROVE  Start \/ StartStackFails \/ StartGentempFails \/ StartMkdirFails \/ StartActionsFail
<1>1. /\ ~PushDefault /\ ~PushFrame /\ ~PushGrowFails /\ ~PopGroup
      /\ ~PopGroupEndFails /\ ~Backslash
    BY DEF PushDefault, PushFrame, PushGrowFails, PopGroup, PopGroupEndFails,
           Backslash, InMain
<1>2. /\ ~TextSkip /\ ~TextProcess /\ ~TextBeginFails /\ ~TextProcessFails /\ ~Finish
    BY DEF TextSkip, TextProcess, TextBeginFails, TextProcessFails, Finish
<1>3. /\ ~ControlLetter /\ ~ControlSymbol /\ ~SymbolSkip /\ ~WordTooLong
      /\ ~WordLetter /\ ~WordSpace /\ ~WordDigit /\ ~WordMinus /\ ~WordOther
    BY DEF ControlLetter, ControlSymbol, SymbolSkip, WordTooLong, WordLetter,
           WordSpace, WordDigit, WordMinus, WordOther, InState
<1>4. /\ ~ParamDigit /\ ~ParamOverflow /\ ~ParamLetter /\ ~ParamEnd
      /\ ~InterpretUnknown /\ ~InterpretAction
    BY DEF ParamDigit, ParamOverflow, ParamLetter, ParamEnd, InterpretUnknown,
           InterpretAction, InState
<1>5. QED
    BY <1>1, <1>2, <1>3, <1>4, Zenon DEF Next

\* No step goes back to the start of cli_scanrtf.
LEMMA NoRestart ==
    ASSUME Next PROVE phase' # "start"
<1>1. CASE phase = "start"
    <2>1. Start \/ StartStackFails \/ StartGentempFails \/ StartMkdirFails \/ StartActionsFail
        BY <1>1, StartOnly
    <2>2. QED
        BY <2>1 DEF Start, StartStackFails, StartGentempFails, StartMkdirFails,
                    StartActionsFail
<1>2. CASE phase # "start"
    <2>1. CASE Start
        BY <1>2, <2>1 DEF Start
    <2>2. CASE PushFrame \/ PopGroup
        BY <1>2, <2>2 DEF PushFrame, PopGroup
    <2>3. CASE ~Start /\ ~PushFrame /\ ~PopGroup
        <3>1. KeepOrDone \/ Dropped
            BY <2>3, StorageKinds
        <3>2. QED
            BY <1>2, <3>1 DEF KeepOrDone, Dropped
    <2>4. QED
        BY <2>1, <2>2, <2>3
<1>3. QED
    BY <1>1, <1>2

LEMMA StartBaseStep == StartBase /\ [Next]_vars => StartBase'
<1> SUFFICES ASSUME StartBase, [Next]_vars PROVE StartBase'
    OBVIOUS
<1>1. CASE UNCHANGED vars
    BY <1>1 DEF StartBase, vars
<1>2. CASE Next
    BY <1>2, NoRestart DEF StartBase
<1>3. QED
    BY <1>1, <1>2

\* The steps that end cli_scanrtf: a failure at its start, or SCAN_CLEANUP.
LEMMA DiscardSteps ==
    ASSUME StorageInv, StartBase,
           \/ StartStackFails \/ StartGentempFails \/ StartMkdirFails \/ StartActionsFail
           \/ PushGrowFails \/ PopGroupEndFails \/ TextBeginFails \/ TextProcessFails
           \/ Finish
    PROVE  phase # "done" /\ state' = base_state /\ stack' = <<>> /\ phase' = "done"
<1>1. CASE StartStackFails \/ StartGentempFails \/ StartMkdirFails \/ StartActionsFail
    <2>1. phase = "start" /\ state' = state /\ stack' = stack /\ phase' = "done"
        BY <1>1, Zenon DEF StartStackFails, StartGentempFails, StartMkdirFails,
                           StartActionsFail
    <2>2. QED
        BY <2>1 DEF StorageInv, StartBase
<1>2. CASE PushGrowFails \/ TextBeginFails \/ Finish
    <2>1. phase = "scan"
        BY <1>2 DEF PushGrowFails, TextBeginFails, Finish, InMain
    <2>2. state' = base_state /\ stack' = <<>> /\ phase' = "done"
        BY <1>2, CleanupEnds DEF PushGrowFails, TextBeginFails, Finish
    <2>3. QED
        BY <2>1, <2>2
<1>3. CASE PopGroupEndFails
    <2>1. PICK rc \in EndResults(state.cb_data) \ {CLEAN} :
              Cleanup([state EXCEPT !.cb_data = NULL], rc, live \ {state.cb_data},
                      [ctxFile EXCEPT ![state.cb_data] = FALSE],
                      detected \/ rc = "VIRUS")
        BY <1>3 DEF PopGroupEndFails
    <2>2. phase = "scan"
        BY <1>3 DEF PopGroupEndFails, InMain
    <2>3. QED
        BY <2>1, <2>2, CleanupEnds
<1>4. CASE TextProcessFails
    <2>1. PICK k \in ProcessCtxs, o \in ProcessOutcomes :
              Cleanup([state EXCEPT !.cb_data = k], o[1], live \cup {k},
                      [ctxFile EXCEPT ![k] = o[2]], detected \/ o[1] = "VIRUS")
        BY <1>4, Zenon DEF TextProcessFails
    <2>2. phase = "scan"
        BY <1>4 DEF TextProcessFails
    <2>3. QED
        BY <2>1, <2>2, CleanupEnds
<1>5. QED
    BY <1>1, <1>2, <1>3, <1>4

\* Every step of the parser is a step of GroupStack or leaves the mapped
\* state as it is.
LEMMA RefinementStep ==
    IInv /\ IInv' /\ StorageInv /\ StartBase /\ [Next]_vars => [Groups!Next]_Groups!vars
<1> SUFFICES ASSUME IInv, IInv', StorageInv, StartBase, [Next]_vars
             PROVE  [Groups!Next]_Groups!vars
    OBVIOUS
<1>1. CASE UNCHANGED vars
    BY <1>1 DEF vars, Groups!vars
<1>2. CASE PushDefault
    BY <1>2, PushDefaultMaps DEF Groups!Next
<1>3. CASE PushFrame
    BY <1>3, PushFrameMaps DEF Groups!Next
<1>4. CASE PopGroup
    BY <1>4, PopGroupMaps DEF Groups!Next
<1>5. CASE \/ Start \/ Backslash \/ TextSkip \/ TextProcess
           \/ ControlLetter \/ ControlSymbol \/ SymbolSkip
           \/ WordTooLong \/ WordLetter \/ WordSpace \/ WordDigit \/ WordMinus \/ WordOther
           \/ ParamDigit \/ ParamOverflow \/ ParamLetter \/ ParamEnd
           \/ InterpretUnknown \/ InterpretAction
    <2>1. Kept
        BY <1>5, KeptSteps
    <2>2. state' \in Frame
        BY DEF IInv, TypeOK
    <2>3. QED
        BY <2>1, <2>2, MapUpdate DEF Kept, Groups!Next
<1>6. CASE \/ StartStackFails \/ StartGentempFails \/ StartMkdirFails \/ StartActionsFail
           \/ PushGrowFails \/ PopGroupEndFails \/ TextBeginFails \/ TextProcessFails
           \/ Finish
    BY <1>6, DiscardSteps, MapDiscard DEF Groups!Next
<1>7. QED
    BY <1>1, <1>2, <1>3, <1>4, <1>5, <1>6 DEF Next

(***************************************************************************)
(* For every value of the constants, the compressed group stack of         *)
(* cli_scanrtf implements a plain stack of callback bindings: a '}'        *)
(* restores the callbacks and object context of the frame its matching '{' *)
(* saved, whether push_state stored that frame or only counted it in       *)
(* default_elements, and a '}' with nothing saved restores base_state.     *)
(***************************************************************************)
THEOREM ParserRefinesGroupStack == Spec => GroupStackRefinement
<1>1. Init => Groups!Init
    <2> SUFFICES ASSUME Init PROVE Groups!Init
        OBVIOUS
    <2>1. state = base_state /\ stack = <<>> /\ phase = "start"
        BY DEF Init
    <2>2. Logical(stack, state.default_elements) = <<>>
        BY <2>1, LogicalEmpty DEF base_state
    <2>3. QED
        BY <2>1, <2>2 DEF Groups!Init, DefaultBinding
<1>2. Init => StorageInv /\ StartBase
    BY DEF Init, StorageInv, StorageBound, StartBase
<1>3. Spec => [](IInv /\ StorageInv /\ StartBase)
    BY <1>2, ParserInvariant, StorageStep, StartBaseStep, PTL DEF Spec
<1>4. QED
    BY <1>1, <1>3, RefinementStep, PTL DEF Spec, GroupStackRefinement, Groups!Spec
=============================================================================
