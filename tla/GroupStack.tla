----------------------------- MODULE GroupStack -----------------------------
(***************************************************************************)
(* What the group stack of rtf.c promises its parser: a plain stack of     *)
(* frames.  '{' saves the current frame and starts the group with a        *)
(* default one; '}' gives back the frame saved by the matching '{' (a      *)
(* default one when nothing is saved); between braces the parser may       *)
(* change the current frame as it likes; at the end the stack is dropped.  *)
(* Default frames are not stored by push_state, only counted: this is the  *)
(* specification that the counting must implement.                        *)
(***************************************************************************)
EXTENDS Naturals, Sequences

CONSTANTS
    Frames,     \* the frames the parser may hold
    Default     \* the frame a group starts with

VARIABLES
    cur,        \* the current frame
    frames,     \* the saved frames, innermost last
    open        \* the document is still being parsed

vars == <<cur, frames, open>>

Init == cur = Default /\ frames = <<>> /\ open = TRUE

Push ==
    /\ open
    /\ frames' = Append(frames, cur)
    /\ cur' = Default
    /\ UNCHANGED open

Pop ==
    /\ open
    /\ IF frames = <<>>
       THEN cur' = Default /\ UNCHANGED frames
       ELSE cur' = frames[Len(frames)] /\ frames' = SubSeq(frames, 1, Len(frames) - 1)
    /\ UNCHANGED open

Update ==
    /\ open
    /\ \E f \in Frames : cur' = f
    /\ UNCHANGED <<frames, open>>

Discard ==
    /\ open
    /\ cur' = Default /\ frames' = <<>> /\ open' = FALSE

Next == Push \/ Pop \/ Update \/ Discard

Spec == Init /\ [][Next]_vars
=============================================================================
