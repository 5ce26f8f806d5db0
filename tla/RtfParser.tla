----------------------------- MODULE RtfParser -----------------------------
(***************************************************************************)
(* The RTF tokenizer of libclamav/rtf.c (cli_scanrtf), with its group      *)
(* stack (push_state / pop_state and the compression of default frames),   *)
(* the action table and dispatcher (rtf_action), the per-frame callback    *)
(* triple and the cleanup (SCAN_CLEANUP, cleanup_stack).                   *)
(*                                                                         *)
(* The input is read one byte at a time: `byte` is the byte under ptr,     *)
(* EOF once fmap has no more data.  A byte is chosen when the previous one *)
(* is consumed; the transitions that do not consume (ptr is not advanced)  *)
(* leave it in place.  A run of text bytes handed to cb_process is         *)
(* consumed in one step; the byte after it may again be text, which is a   *)
(* run cut by an fmap chunk boundary.                                      *)
(*                                                                         *)
(* The objdata extractor (the rtf_object_ functions) is abstracted to     *)
(* what the parser sees of it: a context that begin allocates and end frees,*)
(* whether a temp file is open in it, and the result codes that process    *)
(* and end return.  RtfObject models its state machine in detail.          *)
(***************************************************************************)
EXTENDS Naturals, Integers, Sequences, FiniteSets

CONSTANTS
    Letters,        \* the ASCII letters of the modelled input alphabet
    Digits,         \* the decimal digits of the alphabet (strings "0".."9")
    Others,         \* bytes that are no letter, digit, space, '-' or brace
    ObjectKey,      \* key of RTF_OBJECT in the action table ("object")
    ObjdataKey,     \* key of RTF_OBJECT_DATA ("objdata ", space included)
    MaxWord,        \* capacity of controlword[] before the terminator (32)
    ParamMax,       \* INT64_MAX, the bound of controlword_param
    StackInit,      \* initial stack_size (16)
    StackGrow,      \* stack_size increment on growth (128)
    CtxIds,         \* addresses malloc may return for an rtf_object_data
    NULL,           \* the null pointer
    EOF,            \* fmap has no more bytes
    KeepTmp,        \* ctx->engine->keeptmp
    HostFails,      \* whether malloc, realloc, open or write may fail in the scan
    StartFailures,  \* failures possible before parsing starts
    MaxDepth        \* bound on the nesting of the enumerated inputs

DigitChars == <<"0", "1", "2", "3", "4", "5", "6", "7", "8", "9">>
DecimalDigits == {DigitChars[i] : i \in 1..10}
\* *ptr - '0'
DigitValue(d) == CHOOSE n \in 0..9 : DigitChars[n + 1] = d
\* The space that ends a control word (and is stored in it), and the braces
\* that open and close a group.
Space == " "
LBrace == "{"
RBrace == "}"

ASSUME ConstantsAssumption ==
    /\ Digits \subseteq DecimalDigits
    /\ Letters \cap (Digits \cup Others \cup {LBrace, RBrace, "\\", Space, "-"}) = {}
    /\ Others \cap (Digits \cup {LBrace, RBrace, "\\", Space, "-"}) = {}
    /\ ObjectKey \in Seq(Letters \cup {Space}) /\ ObjdataKey \in Seq(Letters \cup {Space})
    /\ ObjectKey # ObjdataKey
    /\ MaxWord \in Nat \ {0} /\ ParamMax \in Nat \ {0}
    /\ StackInit \in Nat /\ StackGrow \in Nat \ {0}
    /\ NULL \notin CtxIds /\ EOF \notin Letters \cup Digits \cup Others
    /\ KeepTmp \in BOOLEAN /\ HostFails \in BOOLEAN
    /\ StartFailures \subseteq {"stack", "gentemp", "mkdir", "actions"}
    /\ MaxDepth \in Nat

Specials  == {LBrace, RBrace, "\\"}    \* main_symbols[]
Bytes     == Specials \cup Letters \cup Digits \cup Others \cup {Space, "-"}
TextBytes == Bytes \ Specials

ParseStates == {"MAIN", "CONTROL", "CONTROL_WORD", "CONTROL_SYMBOL",
                "CONTROL_WORD_PARAM", "INTERPRET_CONTROLWORD"}

\* The action table (rtf_action_mapping, load_actions, tableFind).
RTF_OBJECT == "RTF_OBJECT"
RTF_OBJECT_DATA == "RTF_OBJECT_DATA"
ActionTable == [k \in {ObjectKey, ObjdataKey} |->
                  IF k = ObjectKey THEN RTF_OBJECT ELSE RTF_OBJECT_DATA]

\* Results returned by cli_scanrtf and by the callbacks.
CLEAN == "CLEAN"
\* ETABLE: the -1 of a failed tableInsert, returned as it is.
Errors == {"EMEM", "EWRITE", "ECREAT", "EUNLINK", "ETMPDIR", "ETABLE"}
Results == {CLEAN, "VIRUS"} \cup Errors

(***************************************************************************)
(* A struct rtf_state.  cb_begin, cb_process and cb_end are TRUE when they *)
(* point to rtf_object_begin/process/end.  toplevel is the RTF_OBJECT bit  *)
(* of encounteredTopLevel (the only bit rtf_action ever sets).  The        *)
(* control word, its parameter and sign are dead outside the control-word  *)
(* states (each is reset on entry to them), so they are separate variables *)
(* that push and pop do not save.                                          *)
(***************************************************************************)
Frame == [parse_state : ParseStates, cb_begin : BOOLEAN, cb_process : BOOLEAN,
          cb_end : BOOLEAN, cb_data : CtxIds \cup {NULL},
          default_elements : Nat, toplevel : BOOLEAN]

base_state == [parse_state |-> "MAIN", cb_begin |-> FALSE, cb_process |-> FALSE,
               cb_end |-> FALSE, cb_data |-> NULL, default_elements |-> 0,
               toplevel |-> FALSE]

VARIABLES
    state,        \* the working struct rtf_state of cli_scanrtf
    stack,        \* stack.states[0 .. stack_cnt-1]
    stackSize,    \* stack.stack_size
    controlword,  \* state.controlword[0 .. controlword_cnt-1]
    param,        \* state.controlword_param
    paramSign,    \* state.controlword_param_sign
    byte,         \* the byte under ptr, or EOF
    live,         \* rtf_object_data contexts allocated and not yet freed
    ctxFile,      \* ctxFile[c]: context c holds an open temp file (fd > 0)
    phase,        \* "start", "scan" (in the byte loop) or "done" (returned)
    ret,          \* the value cli_scanrtf returns
    stackAlloc,   \* stack.states is allocated
    tmpdirExists, \* the temp directory tempname exists
    objScope,     \* history: per open group, has \object been seen in it or an enclosing group
    detected      \* history: a callback has returned a VIRUS verdict

vars == <<state, stack, stackSize, controlword, param, paramSign, byte, live,
          ctxFile, phase, ret, stackAlloc, tmpdirExists, objScope, detected>>

(***************************************************************************)
(* Helpers on frames and the stack.                                        *)
(***************************************************************************)

\* compare_state(state, &base_state)
compare_state(s) ==
    /\ s.parse_state = base_state.parse_state
    /\ s.toplevel = base_state.toplevel
    /\ s.cb_begin = base_state.cb_begin
    /\ s.cb_process = base_state.cb_process
    /\ s.cb_end = base_state.cb_end
    /\ s.cb_data = base_state.cb_data

\* The inputs offered after a step that leaves `scope` as the open groups:
\* any byte, except '{' once MaxDepth groups are open, or the end of data.
NextBytes(scope) ==
    (Bytes \ (IF Len(scope) > MaxDepth THEN {LBrace} ELSE {})) \cup {EOF}

\* Consume the byte under ptr.
Consume(scope) == \E b \in NextBytes(scope) : byte' = b

\* The stored frames in which SCAN_CLEANUP's cleanup_stack calls cb_end.
StackCtxs(stk) == {stk[i].cb_data : i \in {j \in 1..Len(stk) : stk[j].cb_data # NULL /\ stk[j].cb_end}}

\* The result codes rtf_object_end (via decode_and_scan) returns for c.
\* (an unlink failure is CL_EUNLINK unless keeptmp).
EndResults(c) ==
    IF ctxFile[c] THEN {CLEAN, "VIRUS"} \cup (IF KeepTmp THEN {} ELSE {"EUNLINK"})
                  ELSE {CLEAN}

(***************************************************************************)
(* What one rtf_object_process call can return, with whether a temp file   *)
(* is open afterwards: it may open one (WAIT_DATA_SIZE) and scan and close *)
(* any number (DUMP_DATA), a scan may find a virus or fail to unlink, and  *)
(* the host may fail a malloc (desc_name), cli_gentempfd or cli_writen.    *)
(***************************************************************************)
ProcessOutcomes ==
    {<<CLEAN, f>> : f \in BOOLEAN} \cup {<<"VIRUS", FALSE>>}
    \cup (IF KeepTmp THEN {} ELSE {<<"EUNLINK", FALSE>>})
    \cup (IF HostFails THEN {<<"EWRITE", TRUE>>, <<"EMEM", FALSE>>, <<"ECREAT", FALSE>>}
                       ELSE {})

\* rtf_object_end(c) returning rc: its temp file is scanned and closed, c freed.
EndCtx(c, rc) ==
    /\ live' = live \ {c}
    /\ ctxFile' = [ctxFile EXCEPT ![c] = FALSE]
    /\ detected' = (detected \/ rc = "VIRUS")

\* A cleanup that ends the working frame's object but not those of the
\* stored frames.
CleanupTopOnly(s, r, lv, cf, det) ==
    LET ended == IF s.cb_data # NULL /\ s.cb_end THEN {s.cb_data} ELSE {}
    IN  /\ live' = lv \ ended
        /\ ctxFile' = [c \in CtxIds |-> IF c \in ended THEN FALSE ELSE cf[c]]
        /\ \E v \in BOOLEAN : detected' = (det \/ (v /\ \E c \in ended : cf[c]))
        /\ state' = base_state /\ stack' = <<>>
        /\ tmpdirExists' = KeepTmp /\ stackAlloc' = FALSE
        /\ phase' = "done" /\ ret' = r
        /\ UNCHANGED <<stackSize, controlword, param, paramSign, byte, objScope>>

(***************************************************************************)
(* SCAN_CLEANUP followed by `return r`, from the working frame s and the   *)
(* contexts lv, their files cf and the history det as the failing step     *)
(* left them: end the working frame's object, pop every stored frame and   *)
(* end its object (cleanup_stack), remove the temp directory unless        *)
(* keeptmp, free the stack storage.  The results of these cb_end calls are *)
(* not looked at: a VIRUS one only shows in the history.                   *)
(***************************************************************************)
Cleanup(s, r, lv, cf, det) ==
    LET ended == StackCtxs(stack) \cup
                 (IF s.cb_data # NULL /\ s.cb_end THEN {s.cb_data} ELSE {})
    IN  /\ live' = lv \ ended
        /\ ctxFile' = [c \in CtxIds |-> IF c \in ended THEN FALSE ELSE cf[c]]
        /\ \E v \in BOOLEAN : detected' = (det \/ (v /\ \E c \in ended : cf[c]))
        /\ state' = base_state
        /\ stack' = <<>>
        /\ tmpdirExists' = KeepTmp
        /\ stackAlloc' = FALSE
        /\ phase' = "done"
        /\ ret' = r
        /\ UNCHANGED <<stackSize, controlword, param, paramSign, byte, objScope>>

(***************************************************************************)
(* Start of cli_scanrtf: allocate the stack, create the temp directory,    *)
(* load the action table.                                                  *)
(***************************************************************************)
Init ==
    /\ state = base_state /\ stack = <<>> /\ stackSize = 0
    /\ controlword = <<>> /\ param = 0 /\ paramSign = 0
    /\ byte = EOF /\ live = {} /\ ctxFile = [c \in CtxIds |-> FALSE]
    /\ phase = "start" /\ ret = CLEAN
    /\ stackAlloc = FALSE /\ tmpdirExists = FALSE
    /\ objScope = <<FALSE>> /\ detected = FALSE

Start ==
    /\ phase = "start"
    /\ stackAlloc' = TRUE /\ tmpdirExists' = TRUE /\ stackSize' = StackInit
    /\ phase' = "scan"
    /\ Consume(objScope)
    /\ UNCHANGED <<state, stack, controlword, param, paramSign, live, ctxFile,
                   ret, objScope, detected>>

\* cli_malloc of stack.states fails.
StartStackFails ==
    /\ phase = "start" /\ "stack" \in StartFailures
    /\ phase' = "done" /\ ret' = "EMEM"
    /\ UNCHANGED <<state, stack, stackSize, controlword, param, paramSign, byte,
                   live, ctxFile, stackAlloc, tmpdirExists, objScope, detected>>

\* cli_gentemp fails: return CL_EMEM.
StartGentempFails ==
    /\ phase = "start" /\ "gentemp" \in StartFailures
    /\ stackAlloc' = TRUE
    /\ phase' = "done" /\ ret' = "EMEM"
    /\ UNCHANGED <<state, stack, stackSize, controlword, param, paramSign, byte,
                   live, ctxFile, tmpdirExists, objScope, detected>>

\* mkdir fails: free the stack and return CL_ETMPDIR.
StartMkdirFails ==
    /\ phase = "start" /\ "mkdir" \in StartFailures
    /\ phase' = "done" /\ ret' = "ETMPDIR"
    /\ UNCHANGED <<state, stack, stackSize, controlword, param, paramSign, byte,
                   live, ctxFile, stackAlloc, tmpdirExists, objScope, detected>>

\* load_actions fails (a tableInsert returns -1): free the stack, remove
\* the temp directory unless keeptmp, return the -1.
StartActionsFail ==
    /\ phase = "start" /\ "actions" \in StartFailures
    /\ tmpdirExists' = KeepTmp
    /\ phase' = "done" /\ ret' = "ETABLE"
    /\ UNCHANGED <<state, stack, stackSize, controlword, param, paramSign, byte,
                   live, ctxFile, stackAlloc, objScope, detected>>

(***************************************************************************)
(* push_state / pop_state.                                                 *)
(***************************************************************************)

\* A pop of a counted default frame that keeps the working frame's callbacks.
PopStateKeep(s, stk) ==
    IF s.default_elements > 0
    THEN <<[s EXCEPT !.default_elements = s.default_elements - 1], stk>>
    ELSE IF stk = <<>>
         THEN <<base_state, stk>>
         ELSE <<stk[Len(stk)], SubSeq(stk, 1, Len(stk) - 1)>>

\* pop_state(stack, state): the working frame and the stored frames after it.
PopState(s, stk) ==
    IF s.default_elements > 0
    THEN <<[base_state EXCEPT !.default_elements = s.default_elements - 1,
                              !.toplevel = s.toplevel], stk>>
    ELSE IF stk = <<>>
         THEN <<base_state, stk>>
         ELSE <<stk[Len(stk)], SubSeq(stk, 1, Len(stk) - 1)>>

\* The history of the open groups after a '{' or a '}'.
OpenScope == Append(objScope, objScope[Len(objScope)])
CloseScope == IF Len(objScope) > 1 THEN SubSeq(objScope, 1, Len(objScope) - 1) ELSE objScope

InMain(b) == phase = "scan" /\ state.parse_state = "MAIN" /\ byte = b

\* '{' on a frame equal to base_state: only counted in default_elements.
PushDefault ==
    /\ InMain(LBrace)
    /\ compare_state(state)
    /\ state' = [state EXCEPT !.default_elements = @ + 1]
    /\ objScope' = OpenScope
    /\ Consume(objScope')
    /\ UNCHANGED <<stack, stackSize, controlword, param, paramSign, live, ctxFile,
                   phase, ret, stackAlloc, tmpdirExists, detected>>

\* A push that stores the frame but leaves it as the working frame too.
PushFrameNoReset ==
    /\ InMain(LBrace)
    /\ ~compare_state(state)
    /\ stackSize' = IF Len(stack) >= stackSize THEN stackSize + StackGrow ELSE stackSize
    /\ stack' = Append(stack, state)
    /\ UNCHANGED state
    /\ objScope' = OpenScope
    /\ Consume(objScope')
    /\ UNCHANGED <<controlword, param, paramSign, live, ctxFile, phase, ret,
                   stackAlloc, tmpdirExists, detected>>

\* A grow test that lets the store take place when the storage is full.
PushFrameGrowLate ==
    /\ InMain(LBrace)
    /\ ~compare_state(state)
    /\ stackSize' = IF Len(stack) > stackSize THEN stackSize + StackGrow ELSE stackSize
    /\ stack' = Append(stack, state)
    /\ state' = [base_state EXCEPT !.toplevel = state.toplevel]
    /\ objScope' = OpenScope
    /\ Consume(objScope')
    /\ UNCHANGED <<controlword, param, paramSign, live, ctxFile, phase, ret,
                   stackAlloc, tmpdirExists, detected>>

\* '{' on any other frame: stored (the storage grown by 128 when full) and
\* replaced by base_state keeping encounteredTopLevel.
PushFrame ==
    /\ InMain(LBrace)
    /\ ~compare_state(state)
    /\ stackSize' = IF Len(stack) >= stackSize THEN stackSize + StackGrow ELSE stackSize
    /\ stack' = Append(stack, state)
    /\ state' = [base_state EXCEPT !.toplevel = state.toplevel]
    /\ objScope' = OpenScope
    /\ Consume(objScope')
    /\ UNCHANGED <<controlword, param, paramSign, live, ctxFile, phase, ret,
                   stackAlloc, tmpdirExists, detected>>

\* '{' when growing the storage fails: CL_EMEM.
PushGrowFails ==
    /\ InMain(LBrace)
    /\ ~compare_state(state) /\ Len(stack) >= stackSize /\ HostFails
    /\ Cleanup(state, "EMEM", live, ctxFile, detected)

\* '}': cb_end of the frame's object if any, which returns clean, then pop.
PopGroup ==
    /\ InMain(RBrace)
    /\ IF state.cb_data # NULL /\ state.cb_end
       THEN EndCtx(state.cb_data, CLEAN)
       ELSE UNCHANGED <<live, ctxFile, detected>>
    /\ state' = PopState(state, stack)[1]
    /\ stack' = PopState(state, stack)[2]
    /\ objScope' = CloseScope
    /\ Consume(objScope')
    /\ UNCHANGED <<stackSize, controlword, param, paramSign, phase, ret,
                   stackAlloc, tmpdirExists>>

\* '}' whose cb_end returns non-clean: cleanup and return it.
PopGroupEndFails ==
    /\ InMain(RBrace)
    /\ state.cb_data # NULL /\ state.cb_end
    /\ \E rc \in EndResults(state.cb_data) \ {CLEAN} :
          Cleanup([state EXCEPT !.cb_data = NULL], rc, live \ {state.cb_data},
                  [ctxFile EXCEPT ![state.cb_data] = FALSE],
                  detected \/ rc = "VIRUS")

\* '\\': a control word or symbol follows.
Backslash ==
    /\ InMain("\\")
    /\ state' = [state EXCEPT !.parse_state = "CONTROL"]
    /\ Consume(objScope)
    /\ UNCHANGED <<stack, stackSize, controlword, param, paramSign, live, ctxFile,
                   phase, ret, stackAlloc, tmpdirExists, objScope, detected>>

\* A run of text with no rtf_object_begin bound: skipped.
TextSkip ==
    /\ phase = "scan" /\ state.parse_state = "MAIN" /\ byte \in TextBytes
    /\ ~state.cb_begin
    /\ Consume(objScope)
    /\ UNCHANGED <<state, stack, stackSize, controlword, param, paramSign, live,
                   ctxFile, phase, ret, stackAlloc, tmpdirExists, objScope, detected>>

\* The context cb_process works on: the frame's, or a new one cb_begin allocates.
ProcessCtxs == IF state.cb_data # NULL THEN {state.cb_data} ELSE CtxIds \ live

\* A run of text handed to cb_begin (when no context yet) and cb_process,
\* which returns clean.
TextProcess ==
    /\ phase = "scan" /\ state.parse_state = "MAIN" /\ byte \in TextBytes
    /\ state.cb_begin
    /\ \E c \in ProcessCtxs, f \in BOOLEAN :
          /\ <<CLEAN, f>> \in ProcessOutcomes
          /\ state' = [state EXCEPT !.cb_data = c]
          /\ live' = live \cup {c}
          /\ ctxFile' = [ctxFile EXCEPT ![c] = f]
    /\ Consume(objScope)
    /\ UNCHANGED <<stack, stackSize, controlword, param, paramSign, phase, ret,
                   stackAlloc, tmpdirExists, objScope, detected>>

\* cb_begin fails to allocate the context: cleanup, return CL_EMEM.
TextBeginFails ==
    /\ phase = "scan" /\ state.parse_state = "MAIN" /\ byte \in TextBytes
    /\ state.cb_begin /\ state.cb_data = NULL /\ HostFails
    /\ Cleanup(state, "EMEM", live, ctxFile, detected)

\* cb_process returns non-clean: cb_end cleans up the context (its result
\* ignored), then cleanup and return the process result.
TextProcessFails ==
    /\ phase = "scan" /\ state.parse_state = "MAIN" /\ byte \in TextBytes
    /\ state.cb_begin
    /\ \E c \in ProcessCtxs, o \in ProcessOutcomes :
          /\ o[1] # CLEAN
          /\ Cleanup([state EXCEPT !.cb_data = c], o[1], live \cup {c},
                     [ctxFile EXCEPT ![c] = o[2]], detected \/ o[1] = "VIRUS")

(***************************************************************************)
(* The control-word states.  None of them runs at EOF: the byte loop ends  *)
(* first.                                                                  *)
(***************************************************************************)
InState(ps) == phase = "scan" /\ state.parse_state = ps /\ byte # EOF

\* Set the parse state (and the control-word variables given), nothing else.
Goto(ps) ==
    /\ state' = [state EXCEPT !.parse_state = ps]
    /\ UNCHANGED <<stack, stackSize, live, ctxFile, phase, ret, stackAlloc,
                   tmpdirExists, objScope, detected>>

ControlLetter ==
    /\ InState("CONTROL") /\ byte \in Letters
    /\ Goto("CONTROL_WORD") /\ controlword' = <<>>
    /\ UNCHANGED <<param, paramSign, byte>>

ControlSymbol ==
    /\ InState("CONTROL") /\ byte \notin Letters
    /\ Goto("CONTROL_SYMBOL")
    /\ UNCHANGED <<controlword, param, paramSign, byte>>

\* The control symbol is skipped.
SymbolSkip ==
    /\ InState("CONTROL_SYMBOL")
    /\ Goto("MAIN") /\ Consume(objScope)
    /\ UNCHANGED <<controlword, param, paramSign>>

\* controlword_cnt reached 32: back to MAIN, the byte is looked at again.
WordTooLong ==
    /\ InState("CONTROL_WORD") /\ Len(controlword) = MaxWord
    /\ Goto("MAIN")
    /\ UNCHANGED <<controlword, param, paramSign, byte>>

WordLetter ==
    /\ InState("CONTROL_WORD") /\ Len(controlword) < MaxWord /\ byte \in Letters
    /\ controlword' = Append(controlword, byte) /\ Consume(objScope)
    /\ UNCHANGED <<state, stack, stackSize, param, paramSign, live, ctxFile,
                   phase, ret, stackAlloc, tmpdirExists, objScope, detected>>

\* A space ends the word and is stored in it.
WordSpace ==
    /\ InState("CONTROL_WORD") /\ Len(controlword) < MaxWord /\ byte = Space
    /\ controlword' = Append(controlword, byte) /\ Consume(objScope)
    /\ Goto("INTERPRET_CONTROLWORD")
    /\ UNCHANGED <<param, paramSign>>

WordDigit ==
    /\ InState("CONTROL_WORD") /\ Len(controlword) < MaxWord /\ byte \in Digits
    /\ Goto("CONTROL_WORD_PARAM") /\ param' = 0 /\ paramSign' = 1
    /\ UNCHANGED <<controlword, byte>>

WordMinus ==
    /\ InState("CONTROL_WORD") /\ Len(controlword) < MaxWord /\ byte = "-"
    /\ Goto("CONTROL_WORD_PARAM") /\ param' = 0 /\ paramSign' = -1
    /\ Consume(objScope)
    /\ UNCHANGED controlword

WordOther ==
    /\ InState("CONTROL_WORD") /\ Len(controlword) < MaxWord
    /\ byte \notin Letters \cup Digits \cup {Space, "-"}
    /\ Goto("INTERPRET_CONTROLWORD")
    /\ UNCHANGED <<controlword, param, paramSign, byte>>

\* An overflow test that only compares the parameter with ParamMax / 10.
ParamOverflowsCoarse(d) == param > ParamMax \div 10

\* An overflow test that also rejects a digit reaching INT64_MAX exactly.
ParamOverflowsAtMax(d) ==
    \/ param > ParamMax \div 10
    \/ param * 10 >= ParamMax - DigitValue(d)

\* The overflow test of the parameter, as written.
ParamOverflows(d) ==
    \/ param > ParamMax \div 10
    \/ param * 10 > ParamMax - DigitValue(d)

ParamDigit ==
    /\ InState("CONTROL_WORD_PARAM") /\ byte \in Digits
    /\ ~ParamOverflows(byte)
    /\ param' = param * 10 + DigitValue(byte) /\ Consume(objScope)
    /\ UNCHANGED <<state, stack, stackSize, controlword, paramSign, live, ctxFile,
                   phase, ret, stackAlloc, tmpdirExists, objScope, detected>>

\* The parameter would overflow: back to MAIN, the digit looked at again.
ParamOverflow ==
    /\ InState("CONTROL_WORD_PARAM") /\ byte \in Digits
    /\ ParamOverflows(byte)
    /\ Goto("MAIN")
    /\ UNCHANGED <<controlword, param, paramSign, byte>>

\* A letter delimiter after the parameter is skipped.
ParamLetter ==
    /\ InState("CONTROL_WORD_PARAM") /\ byte \in Letters
    /\ Consume(objScope)
    /\ UNCHANGED <<state, stack, stackSize, controlword, param, paramSign, live,
                   ctxFile, phase, ret, stackAlloc, tmpdirExists, objScope, detected>>

ParamEnd ==
    /\ InState("CONTROL_WORD_PARAM") /\ byte \notin Letters \cup Digits
    /\ param' = IF paramSign < 0 THEN -param ELSE param
    /\ Goto("INTERPRET_CONTROLWORD")
    /\ UNCHANGED <<controlword, paramSign, byte>>

\* rtf_action(state, action)
rtf_action(s, action) ==
    CASE action = RTF_OBJECT -> [s EXCEPT !.toplevel = TRUE]
      [] action = RTF_OBJECT_DATA /\ s.toplevel ->
             [s EXCEPT !.cb_begin = TRUE, !.cb_process = TRUE, !.cb_end = TRUE]
      [] OTHER -> s

\* A word not in the action table: ignored.
InterpretUnknown ==
    /\ InState("INTERPRET_CONTROLWORD")
    /\ controlword \notin DOMAIN ActionTable
    /\ Goto("MAIN")
    /\ UNCHANGED <<controlword, param, paramSign, byte>>

\* A word in the table: a bound object is ended first ("premature end of
\* previous block", result ignored, cb_process left set), then rtf_action.
InterpretAction ==
    /\ InState("INTERPRET_CONTROLWORD")
    /\ controlword \in DOMAIN ActionTable
    /\ LET act == ActionTable[controlword]
           ended == state.cb_data # NULL /\ state.cb_end
           s1 == IF ended THEN [state EXCEPT !.cb_begin = FALSE, !.cb_end = FALSE,
                                             !.cb_data = NULL]
                          ELSE state
       IN  /\ state' = [rtf_action(s1, act) EXCEPT !.parse_state = "MAIN"]
           /\ IF ended THEN \E rc \in EndResults(state.cb_data) : EndCtx(state.cb_data, rc)
                       ELSE UNCHANGED <<live, ctxFile, detected>>
           /\ objScope' = IF act = RTF_OBJECT
                          THEN [objScope EXCEPT ![Len(objScope)] = TRUE]
                          ELSE objScope
    /\ UNCHANGED <<stack, stackSize, controlword, param, paramSign, byte, phase,
                   ret, stackAlloc, tmpdirExists>>

\* fmap has no more data: SCAN_CLEANUP, return ret (CL_CLEAN here).
Finish ==
    /\ phase = "scan" /\ byte = EOF
    /\ Cleanup(state, ret, live, ctxFile, detected)

Next ==
    \/ Start \/ StartStackFails \/ StartGentempFails \/ StartMkdirFails
    \/ StartActionsFail
    \/ PushDefault \/ PushFrame \/ PushGrowFails \/ PopGroup \/ PopGroupEndFails
    \/ Backslash \/ TextSkip \/ TextProcess \/ TextBeginFails \/ TextProcessFails
    \/ ControlLetter \/ ControlSymbol \/ SymbolSkip
    \/ WordTooLong \/ WordLetter \/ WordSpace \/ WordDigit \/ WordMinus \/ WordOther
    \/ ParamDigit \/ ParamOverflow \/ ParamLetter \/ ParamEnd
    \/ InterpretUnknown \/ InterpretAction
    \/ Finish

\* Once cli_scanrtf has returned (phase "done") nothing more happens.
Spec == Init /\ [][Next]_vars

(***************************************************************************)
(* Properties.                                                             *)
(***************************************************************************)

TypeOK ==
    /\ state \in Frame
    /\ stack \in Seq(Frame)
    /\ stackSize \in Nat
    /\ controlword \in Seq(Letters \cup {Space}) /\ Len(controlword) <= MaxWord
    /\ param \in -ParamMax..ParamMax /\ paramSign \in {-1, 0, 1}
    /\ byte \in Bytes \cup {EOF}
    /\ live \subseteq CtxIds /\ ctxFile \in [CtxIds -> BOOLEAN]
    /\ phase \in {"start", "scan", "done"} /\ ret \in Results
    /\ stackAlloc \in BOOLEAN /\ tmpdirExists \in BOOLEAN
    /\ objScope \in Seq(BOOLEAN) /\ Len(objScope) >= 1 /\ detected \in BOOLEAN

\* The cb_data of the working frame and of every stored frame.
Owners == {state.cb_data} \cup {stack[i].cb_data : i \in 1..Len(stack)}

(***************************************************************************)
(* Every context that rtf_object_begin allocated and rtf_object_end has    *)
(* not yet freed is held by exactly one frame, the working one or one that *)
(* push_state saved, and only live contexts hold a temp file: across       *)
(* pushes, compressed default frames, pops, premature ends and cleanup, no *)
(* object is leaked, ended twice or used after it is freed.                *)
(***************************************************************************)
ContextOwnership ==
    /\ live = Owners \ {NULL}
    /\ \A i \in 1..Len(stack) :
          stack[i].cb_data # NULL =>
             /\ stack[i].cb_data # state.cb_data
             /\ \A j \in 1..Len(stack) : j # i => stack[j].cb_data # stack[i].cb_data
    /\ \A c \in CtxIds : ctxFile[c] => c \in live

(***************************************************************************)
(* When cli_scanrtf has returned, whatever path it took, every object      *)
(* context is freed and its temp file closed, and the temp directory is    *)
(* gone unless keeptmp is set.                                             *)
(***************************************************************************)
NoLeakAtReturn ==
    phase = "done" =>
        /\ live = {}
        /\ \A c \in CtxIds : ~ctxFile[c]
        /\ tmpdirExists => KeepTmp

(***************************************************************************)
(* When cli_scanrtf has returned, the stack storage it allocated is freed. *)
(***************************************************************************)
StackFreedAtReturn == phase = "done" => ~stackAlloc

(***************************************************************************)
(* The objdata callbacks are bound only in a group where \object was seen, *)
(* in it or in an enclosing group (spec: "\objdata outside any \object     *)
(* ancestor never installs extractor callbacks").                          *)
(***************************************************************************)
ScopeGating == state.cb_begin => objScope[Len(objScope)]

(***************************************************************************)
(* A VIRUS verdict that a callback returned is never turned into a CLEAN   *)
(* result of cli_scanrtf (spec: the host scanner's codes are propagated).  *)
(***************************************************************************)
VerdictNotLost == (phase = "done" /\ detected) => ret # CLEAN

(***************************************************************************)
(* push_state writes states[stack_cnt++] only after growing the storage   *)
(* when stack_cnt >= stack_size: the stored frames never exceed the       *)
(* storage allocated for them, through any mix of default and stored      *)
(* pushes, pops and growths.                                               *)
(***************************************************************************)
StorageBound == Len(stack) <= stackSize

(***************************************************************************)
(* The two comparisons that guard controlword_param * 10 + digit are      *)
(* exact: a digit is accepted (the parser stays in CONTROL_WORD_PARAM)    *)
(* exactly when the new parameter does not exceed INT64_MAX, and rejected *)
(* (back to MAIN) exactly when it would.                                   *)
(***************************************************************************)
DigitStep ==
    (phase = "scan" /\ state.parse_state = "CONTROL_WORD_PARAM" /\ byte \in Digits)
        => (state'.parse_state = "CONTROL_WORD_PARAM"
              <=> param * 10 + DigitValue(byte) <= ParamMax)
DigitAcceptedExactly == [][DigitStep]_vars

=============================================================================
