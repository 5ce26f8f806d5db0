--------------------------- MODULE MC_RtfParser ---------------------------
(***************************************************************************)
(* Small instances of RtfParser for TLC, with the GroupStack refinement  *)
(* mapping of RtfParserRefinement.                                         *)
(***************************************************************************)
EXTENDS RtfParserRefinement, TLC

\* One-letter stand-ins for the table keys "object" and "objdata ".
MCLetters == {"o", "d"}
MCObjectKey == <<"o">>
MCObjdataKey == <<"d", " ">>
\* With ParamMax = 11, "1" and "9" reach both halves of the overflow test
\* and a parameter equal to the bound (11).
MCDigits == {"1", "9"}
MCOthers == {"*"}

MCSymmetry == Permutations(CtxIds)

\* States that differ only in dead values are the same state: the control
\* word is read only in CONTROL_WORD and INTERPRET_CONTROLWORD, and the
\* parameter and its sign only in CONTROL_WORD_PARAM, each being set on
\* entry to those states.
MCView ==
    <<state, stack, stackSize,
      IF state.parse_state \in {"CONTROL_WORD", "INTERPRET_CONTROLWORD"} THEN controlword ELSE <<>>,
      IF state.parse_state = "CONTROL_WORD_PARAM" THEN <<param, paramSign>> ELSE <<>>,
      byte, live, ctxFile, phase, ret, stackAlloc, tmpdirExists, objScope, detected>>
=============================================================================
