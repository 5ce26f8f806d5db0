------------------------- MODULE RtfParserRefinement -------------------------
(***************************************************************************)
(* The refinement mapping from the parser's compressed group stack to the  *)
(* plain stack of GroupStack.  A frame of the abstract stack is the        *)
(* callback triple and context of a struct rtf_state.  The logical stack   *)
(* is the stored frames, each preceded by the default frames that were     *)
(* counted in its default_elements before push_state stored it, followed   *)
(* by the default frames counted in the working frame.                     *)
(***************************************************************************)
EXTENDS RtfParser

Binding(s) == [b |-> s.cb_begin, p |-> s.cb_process, e |-> s.cb_end, d |-> s.cb_data]
Bindings == [b : BOOLEAN, p : BOOLEAN, e : BOOLEAN, d : CtxIds \cup {NULL}]
DefaultBinding == Binding(base_state)
Defaults(n) == [k \in 1..n |-> DefaultBinding]

\* The logical frames a stored frame stands for.
Block(s) == Defaults(s.default_elements) \o <<Binding(s)>>

\* StoredFrames[n][stk], for a stack stk of n frames: the blocks of its
\* frames, bottom first.  A primitive recursion over the depth, so that it
\* needs no RECURSIVE operator.
StoredFrames[n \in Nat] ==
    IF n = 0 THEN [stk \in Seq(Frame) |-> <<>>]
    ELSE [stk \in Seq(Frame) |->
            IF stk = <<>> THEN <<>>
            ELSE StoredFrames[n - 1][SubSeq(stk, 1, Len(stk) - 1)] \o Block(stk[Len(stk)])]

Logical(stk, de) == StoredFrames[Len(stk)][stk] \o Defaults(de)

Groups == INSTANCE GroupStack WITH
            Frames <- Bindings,
            Default <- DefaultBinding,
            cur <- Binding(state),
            frames <- Logical(stack, state.default_elements),
            open <- phase # "done"

(***************************************************************************)
(* The compressed group stack implements a plain stack of callback         *)
(* bindings: '}' restores the callbacks and object context of the frame    *)
(* that the matching '{' saved, whether push_state stored that frame or    *)
(* only counted it as a default one.                                       *)
(***************************************************************************)
GroupStackRefinement == Groups!Spec
=============================================================================
