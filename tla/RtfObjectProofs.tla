------------------------- MODULE RtfObjectProofs --------------------------
(***************************************************************************)
(* Proofs about RtfObject, for every value of the constants: the type     *)
(* invariant, the ownership of the temp file and the description buffer, *)
(* and the accounting of the bytes written to the temp file.              *)
(***************************************************************************)
EXTENDS RtfObject, TLAPS

(***************************************************************************)
(* What the fields' counters can hold: bread never passes the length of   *)
(* the field being read, and a payload whose flavour is not decided yet   *)
(* has not been written to.  ResourceDiscipline and DumpAccounting are    *)
(* not inductive without it: the subtractions of the loop must stay in    *)
(* Nat, and the OLE10Native prefix must carry the declared size.          *)
(***************************************************************************)
FieldBounds ==
    /\ internal_state = "WAIT_MAGIC" => bread < MagicLen
    /\ internal_state \in {"WAIT_DESC_LEN", "WAIT_DATA_SIZE"} => bread < LenBytes
    /\ internal_state = "WAIT_DESC" => bread <= desc_len /\ bread <= DescMax
    /\ internal_state = "WAIT_ZERO" => bread < ZeroLen
    /\ internal_state = "DUMP_DATA" =>
          /\ bread \in {0, 1, 2}
          /\ bread = 0 => desc_len = declared
    /\ internal_state # "DUMP_DISCARD"

IInv == TypeOK /\ FieldBounds /\ ResourceDiscipline /\ DumpAccounting /\ NoLeakAfterEnd

-----------------------------------------------------------------------------
(***************************************************************************)
(* TypeOK in two parts: the Boolean flags, which Zenon handles, and the   *)
(* counters, which need SMT's arithmetic.                                  *)
(***************************************************************************)
FlagsOK == descName \in BOOLEAN /\ name \in BOOLEAN
DataOK ==
    /\ internal_state \in States
    /\ bread \in Nat /\ desc_len \in Nat /\ outCnt \in Nat
    /\ fd \in FdValues \cup {NoFd} /\ openFds \subseteq FdValues
    /\ pc \in {"idle", "loop", "failed", "freed"} /\ rc \in Results
    /\ calls \in 0..MaxCalls /\ onDisk \in Nat /\ written \in Nat
    /\ prefix \in Nat \cup {-1}
    /\ declared \in Nat /\ descDeclared \in Nat /\ consumed \in Nat
    /\ lastScan \in [kind : ScanKinds, verdict : Verdicts, result : Results]

LEMMA TypeSplit == TypeOK <=> FlagsOK /\ DataOK
BY Zenon DEF TypeOK, FlagsOK, DataOK

\* rtf_object_begin establishes the invariant.
LEMMA InitIInv == Init => IInv
<1> SUFFICES ASSUME Init PROVE IInv
    OBVIOUS
<1> USE ObjectAssumption
<1>1. FlagsOK
    BY Zenon DEF Init, FlagsOK
<1>2. DataOK
    BY DEF Init, DataOK, States, NoFd, CLEAN, Results, Verdicts, ScanKinds
<1>3. FieldBounds
    BY DEF Init, FieldBounds
<1>4. ResourceDiscipline
    BY DEF Init, ResourceDiscipline, NoFd
<1>5. DumpAccounting
    BY DEF Init, DumpAccounting
<1>6. NoLeakAfterEnd
    BY DEF Init, NoLeakAfterEnd
<1> QED
    BY <1>1, <1>2, <1>3, <1>4, <1>5, <1>6, TypeSplit DEF IInv

(***************************************************************************)
(* Every step of the process loop, and rtf_object_end, preserves the      *)
(* invariant, provided cli_gentempfd never returns descriptor 0 (with fd  *)
(* 0 the `fd > 0` tests of decode_and_scan and rtf_object_end leave the   *)
(* file open: see the run of NoLeakAfterEnd with FdValues = {0}).  One    *)
(* step per action, and under it one per part of the invariant.           *)
(***************************************************************************)
(***************************************************************************)
(* What one pass of the WAIT_DESC copy loop reads stays within out_cnt,   *)
(* within desc_len and within the 64 bytes of desc_name.                   *)
(***************************************************************************)
LEMMA DescFacts ==
    ASSUME ObjectAssumption, DataOK, FieldBounds, internal_state = "WAIT_DESC"
    PROVE  /\ DescTake \in 0..outCnt
           /\ DescRead \in Nat /\ DescRead <= desc_len /\ DescRead <= DescMax
           /\ DescLeft \in Nat
BY DEF DescTake, DescRead, DescLeft, Min, DataOK, FieldBounds

LEMMA NextIInv ==
    ASSUME FdValues \subseteq Nat \ {0}
    PROVE  IInv /\ [Next]_vars => IInv'
<1> USE ObjectAssumption
<1> SUFFICES ASSUME IInv, [Next]_vars PROVE IInv'
    OBVIOUS
<1>0. /\ TypeOK /\ FlagsOK /\ DataOK /\ FieldBounds /\ ResourceDiscipline
      /\ DumpAccounting /\ NoLeakAfterEnd
    BY TypeSplit DEF IInv
<1>D. internal_state = "WAIT_DESC" =>
       /\ DescTake \in 0..outCnt
       /\ DescRead \in Nat /\ DescRead <= desc_len /\ DescRead <= DescMax
       /\ DescLeft \in Nat
    BY <1>0, DescFacts
<1>1. CASE Process
  <2>1. FlagsOK'
    BY <1>0, <1>1, Zenon DEF FlagsOK, Process, hist
  <2>2. DataOK'
    BY <1>0, <1>D, <1>1 DEF DataOK, FieldBounds, ResourceDiscipline, DumpAccounting, Process, hist
  <2>3. FieldBounds'
    BY <1>0, <1>D, <1>1, <2>2 DEF DataOK, FieldBounds, Process, hist
  <2>4. ResourceDiscipline'
    BY <1>0, <1>D, <1>1, <2>2 DEF DataOK, FieldBounds, ResourceDiscipline, Process, hist
  <2>5. DumpAccounting'
    BY <1>0, <1>D, <1>1, <2>2 DEF DataOK, FieldBounds, ResourceDiscipline, DumpAccounting, Process, hist
  <2>6. NoLeakAfterEnd'
    BY <1>0, <1>1, <2>2 DEF DataOK, ResourceDiscipline, NoLeakAfterEnd, Process, hist
  <2> QED
    BY <2>1, <2>2, <2>3, <2>4, <2>5, <2>6, Zenon DEF IInv, TypeOK, FlagsOK, DataOK
<1>2. CASE LoopDone
  <2>1. FlagsOK'
    BY <1>0, <1>2, Zenon DEF FlagsOK, LoopDone, hist, Results, Verdicts, CLEAN
  <2>2. DataOK'
    BY <1>0, <1>D, <1>2 DEF DataOK, FieldBounds, ResourceDiscipline, DumpAccounting, LoopDone, hist, Results, Verdicts, CLEAN
  <2>3. FieldBounds'
    BY <1>0, <1>D, <1>2, <2>2 DEF DataOK, FieldBounds, LoopDone, hist, Results, Verdicts, CLEAN
  <2>4. ResourceDiscipline'
    BY <1>0, <1>D, <1>2, <2>2 DEF DataOK, FieldBounds, ResourceDiscipline, LoopDone, hist, Results, Verdicts, CLEAN
  <2>5. DumpAccounting'
    BY <1>0, <1>D, <1>2, <2>2 DEF DataOK, FieldBounds, ResourceDiscipline, DumpAccounting, LoopDone, hist, Results, Verdicts, CLEAN
  <2>6. NoLeakAfterEnd'
    BY <1>0, <1>2, <2>2 DEF DataOK, ResourceDiscipline, NoLeakAfterEnd, LoopDone, hist, Results, Verdicts, CLEAN
  <2> QED
    BY <2>1, <2>2, <2>3, <2>4, <2>5, <2>6, Zenon DEF IInv, TypeOK, FlagsOK, DataOK
<1>3. CASE WaitMagic
  <2>1. FlagsOK'
    BY <1>0, <1>3, Zenon DEF FlagsOK, WaitMagic, InCase, Min, FileVars, States
  <2>2. DataOK'
    BY <1>0, <1>D, <1>3 DEF DataOK, FieldBounds, ResourceDiscipline, DumpAccounting, WaitMagic, InCase, Min, FileVars, States
  <2>3. FieldBounds'
    BY <1>0, <1>D, <1>3, <2>2 DEF DataOK, FieldBounds, WaitMagic, InCase, Min, FileVars, States
  <2>4. ResourceDiscipline'
    BY <1>0, <1>D, <1>3, <2>2 DEF DataOK, FieldBounds, ResourceDiscipline, WaitMagic, InCase, Min, FileVars, States
  <2>5. DumpAccounting'
    BY <1>0, <1>D, <1>3, <2>2 DEF DataOK, FieldBounds, ResourceDiscipline, DumpAccounting, WaitMagic, InCase, Min, FileVars, States
  <2>6. NoLeakAfterEnd'
    BY <1>0, <1>3, <2>2 DEF DataOK, ResourceDiscipline, NoLeakAfterEnd, WaitMagic, InCase, Min, FileVars, States
  <2> QED
    BY <2>1, <2>2, <2>3, <2>4, <2>5, <2>6, Zenon DEF IInv, TypeOK, FlagsOK, DataOK
<1>4. CASE WaitDescLen
  <2>1. FlagsOK'
    BY <1>0, <1>4, Zenon DEF FlagsOK, WaitDescLen, InCase, Min, Return, FileVars, States, Results, CLEAN, Verdicts
  <2>2. DataOK'
    BY <1>0, <1>D, <1>4 DEF DataOK, FieldBounds, ResourceDiscipline, DumpAccounting, WaitDescLen, InCase, Min, Return, FileVars, States, Results, CLEAN, Verdicts
  <2>3. FieldBounds'
    BY <1>0, <1>D, <1>4, <2>2 DEF DataOK, FieldBounds, WaitDescLen, InCase, Min, Return, FileVars, States, Results, CLEAN, Verdicts
  <2>4. ResourceDiscipline'
    BY <1>0, <1>D, <1>4, <2>2 DEF DataOK, FieldBounds, ResourceDiscipline, WaitDescLen, InCase, Min, Return, FileVars, States, Results, CLEAN, Verdicts
  <2>5. DumpAccounting'
    BY <1>0, <1>D, <1>4, <2>2 DEF DataOK, FieldBounds, ResourceDiscipline, DumpAccounting, WaitDescLen, InCase, Min, Return, FileVars, States, Results, CLEAN, Verdicts
  <2>6. NoLeakAfterEnd'
    BY <1>0, <1>4, <2>2 DEF DataOK, ResourceDiscipline, NoLeakAfterEnd, WaitDescLen, InCase, Min, Return, FileVars, States, Results, CLEAN, Verdicts
  <2> QED
    BY <2>1, <2>2, <2>3, <2>4, <2>5, <2>6, Zenon DEF IInv, TypeOK, FlagsOK, DataOK
<1>5. CASE WaitDescMore1
  <2>1. FlagsOK'
    BY <1>0, <1>5, Zenon DEF FlagsOK, WaitDescMore1, MoreData1, MoreData2, InCase, Return, FileVars, States, Results, CLEAN, Verdicts
  <2>2. DataOK'
    BY <1>0, <1>D, <1>5 DEF DataOK, FieldBounds, ResourceDiscipline, DumpAccounting, WaitDescMore1, MoreData1, MoreData2, InCase, Return, FileVars, States, Results, CLEAN, Verdicts
  <2>3. FieldBounds'
    BY <1>0, <1>D, <1>5, <2>2 DEF DataOK, FieldBounds, WaitDescMore1, MoreData1, MoreData2, InCase, Return, FileVars, States, Results, CLEAN, Verdicts
  <2>4. ResourceDiscipline'
    BY <1>0, <1>D, <1>5, <2>2 DEF DataOK, FieldBounds, ResourceDiscipline, WaitDescMore1, MoreData1, MoreData2, InCase, Return, FileVars, States, Results, CLEAN, Verdicts
  <2>5. DumpAccounting'
    BY <1>0, <1>D, <1>5, <2>2 DEF DataOK, FieldBounds, ResourceDiscipline, DumpAccounting, WaitDescMore1, MoreData1, MoreData2, InCase, Return, FileVars, States, Results, CLEAN, Verdicts
  <2>6. NoLeakAfterEnd'
    BY <1>0, <1>5, <2>2 DEF DataOK, ResourceDiscipline, NoLeakAfterEnd, WaitDescMore1, MoreData1, MoreData2, InCase, Return, FileVars, States, Results, CLEAN, Verdicts
  <2> QED
    BY <2>1, <2>2, <2>3, <2>4, <2>5, <2>6, Zenon DEF IInv, TypeOK, FlagsOK, DataOK
<1>6. CASE WaitDescMore2
  <2>1. FlagsOK'
    BY <1>0, <1>6, Zenon DEF FlagsOK, WaitDescMore2, MoreData1, MoreData2, InCase, Return, FileVars, States, Results, CLEAN, Verdicts
  <2>2. DataOK'
    BY <1>0, <1>D, <1>6 DEF DataOK, FieldBounds, ResourceDiscipline, DumpAccounting, WaitDescMore2, MoreData1, MoreData2, InCase, Return, FileVars, States, Results, CLEAN, Verdicts
  <2>3. FieldBounds'
    BY <1>0, <1>D, <1>6, <2>2 DEF DataOK, FieldBounds, WaitDescMore2, MoreData1, MoreData2, InCase, Return, FileVars, States, Results, CLEAN, Verdicts
  <2>4. ResourceDiscipline'
    BY <1>0, <1>D, <1>6, <2>2 DEF DataOK, FieldBounds, ResourceDiscipline, WaitDescMore2, MoreData1, MoreData2, InCase, Return, FileVars, States, Results, CLEAN, Verdicts
  <2>5. DumpAccounting'
    BY <1>0, <1>D, <1>6, <2>2 DEF DataOK, FieldBounds, ResourceDiscipline, DumpAccounting, WaitDescMore2, MoreData1, MoreData2, InCase, Return, FileVars, States, Results, CLEAN, Verdicts
  <2>6. NoLeakAfterEnd'
    BY <1>0, <1>6, <2>2 DEF DataOK, ResourceDiscipline, NoLeakAfterEnd, WaitDescMore2, MoreData1, MoreData2, InCase, Return, FileVars, States, Results, CLEAN, Verdicts
  <2> QED
    BY <2>1, <2>2, <2>3, <2>4, <2>5, <2>6, Zenon DEF IInv, TypeOK, FlagsOK, DataOK
<1>7. CASE WaitDescDone
  <2>1. FlagsOK'
    BY <1>0, <1>7, Zenon DEF FlagsOK, WaitDescDone, MoreData1, MoreData2, InCase, FileVars, States
  <2>2. DataOK'
    BY <1>0, <1>D, <1>7 DEF DataOK, FieldBounds, ResourceDiscipline, DumpAccounting, WaitDescDone, MoreData1, MoreData2, InCase, FileVars, States
  <2>3. FieldBounds'
    BY <1>0, <1>D, <1>7, <2>2 DEF DataOK, FieldBounds, WaitDescDone, MoreData1, MoreData2, InCase, FileVars, States
  <2>4. ResourceDiscipline'
    BY <1>0, <1>D, <1>7, <2>2 DEF DataOK, FieldBounds, ResourceDiscipline, WaitDescDone, MoreData1, MoreData2, InCase, FileVars, States
  <2>5. DumpAccounting'
    BY <1>0, <1>D, <1>7, <2>2 DEF DataOK, FieldBounds, ResourceDiscipline, DumpAccounting, WaitDescDone, MoreData1, MoreData2, InCase, FileVars, States
  <2>6. NoLeakAfterEnd'
    BY <1>0, <1>7, <2>2 DEF DataOK, ResourceDiscipline, NoLeakAfterEnd, WaitDescDone, MoreData1, MoreData2, InCase, FileVars, States
  <2> QED
    BY <2>1, <2>2, <2>3, <2>4, <2>5, <2>6, Zenon DEF IInv, TypeOK, FlagsOK, DataOK
<1>8. CASE WaitDescSkip
  <2>1. FlagsOK'
    BY <1>0, <1>8, Zenon DEF FlagsOK, WaitDescSkip, MoreData1, MoreData2, InCase, FileVars, States
  <2>2. DataOK'
    BY <1>0, <1>D, <1>8 DEF DataOK, FieldBounds, ResourceDiscipline, DumpAccounting, WaitDescSkip, MoreData1, MoreData2, InCase, FileVars, States
  <2>3. FieldBounds'
    BY <1>0, <1>D, <1>8, <2>2 DEF DataOK, FieldBounds, WaitDescSkip, MoreData1, MoreData2, InCase, FileVars, States
  <2>4. ResourceDiscipline'
    BY <1>0, <1>D, <1>8, <2>2 DEF DataOK, FieldBounds, ResourceDiscipline, WaitDescSkip, MoreData1, MoreData2, InCase, FileVars, States
  <2>5. DumpAccounting'
    BY <1>0, <1>D, <1>8, <2>2 DEF DataOK, FieldBounds, ResourceDiscipline, DumpAccounting, WaitDescSkip, MoreData1, MoreData2, InCase, FileVars, States
  <2>6. NoLeakAfterEnd'
    BY <1>0, <1>8, <2>2 DEF DataOK, ResourceDiscipline, NoLeakAfterEnd, WaitDescSkip, MoreData1, MoreData2, InCase, FileVars, States
  <2> QED
    BY <2>1, <2>2, <2>3, <2>4, <2>5, <2>6, Zenon DEF IInv, TypeOK, FlagsOK, DataOK
<1>9. CASE WaitZero
  <2>1. FlagsOK'
    BY <1>0, <1>9, Zenon DEF FlagsOK, WaitZero, InCase, FileVars, States
  <2>2. DataOK'
    BY <1>0, <1>D, <1>9 DEF DataOK, FieldBounds, ResourceDiscipline, DumpAccounting, WaitZero, InCase, FileVars, States
  <2>3. FieldBounds'
    BY <1>0, <1>D, <1>9, <2>2 DEF DataOK, FieldBounds, WaitZero, InCase, FileVars, States
  <2>4. ResourceDiscipline'
    BY <1>0, <1>D, <1>9, <2>2 DEF DataOK, FieldBounds, ResourceDiscipline, WaitZero, InCase, FileVars, States
  <2>5. DumpAccounting'
    BY <1>0, <1>D, <1>9, <2>2 DEF DataOK, FieldBounds, ResourceDiscipline, DumpAccounting, WaitZero, InCase, FileVars, States
  <2>6. NoLeakAfterEnd'
    BY <1>0, <1>9, <2>2 DEF DataOK, ResourceDiscipline, NoLeakAfterEnd, WaitZero, InCase, FileVars, States
  <2> QED
    BY <2>1, <2>2, <2>3, <2>4, <2>5, <2>6, Zenon DEF IInv, TypeOK, FlagsOK, DataOK
<1>10. CASE WaitDataSize
  <2>1. FlagsOK'
    BY <1>0, <1>10, Zenon DEF FlagsOK, WaitDataSize, InCase, Min, Return, States, Results, CLEAN, Verdicts, NoFd
  <2>2. DataOK'
    BY <1>0, <1>D, <1>10 DEF DataOK, FieldBounds, ResourceDiscipline, DumpAccounting, WaitDataSize, InCase, Min, Return, States, Results, CLEAN, Verdicts, NoFd
  <2>3. FieldBounds'
    BY <1>0, <1>D, <1>10, <2>2 DEF DataOK, FieldBounds, WaitDataSize, InCase, Min, Return, States, Results, CLEAN, Verdicts, NoFd
  <2>4. ResourceDiscipline'
    BY <1>0, <1>D, <1>10, <2>2 DEF DataOK, FieldBounds, ResourceDiscipline, WaitDataSize, InCase, Min, Return, States, Results, CLEAN, Verdicts, NoFd
  <2>5. DumpAccounting'
    <3> DEFINE i == Min(outCnt, LenBytes - bread)
    <3>1. CASE bread + i = LenBytes
      <4>1. PICK d \in DataSizes :
               /\ desc_len' = d /\ declared' = d
               /\ \/ \E f \in FdValues \ openFds :
                        /\ fd' = f /\ name' = TRUE
                        /\ openFds' = openFds \cup {f} /\ onDisk' = onDisk + 1
                        /\ written' = 0 /\ prefix' = -1
                        /\ internal_state' = "DUMP_DATA"
                        /\ UNCHANGED <<pc, rc>>
                  \/ /\ HostFails /\ Return("ECREAT")
                     /\ UNCHANGED <<fd, name, openFds, onDisk, written,
                                    prefix, internal_state>>
        BY <1>10, <3>1 DEF WaitDataSize
      <4>2. bread' = 0
        BY <1>10, <3>1 DEF WaitDataSize
      <4> QED
        BY <4>1, <4>2 DEF DumpAccounting, Return, CLEAN
    <3>2. CASE bread + i # LenBytes
      BY <1>0, <1>10, <3>2 DEF WaitDataSize, InCase, DumpAccounting
    <3> QED
      BY <3>1, <3>2
  <2>6. NoLeakAfterEnd'
    BY <1>0, <1>10, <2>2 DEF DataOK, ResourceDiscipline, NoLeakAfterEnd, WaitDataSize, InCase, Min, Return, States, Results, CLEAN, Verdicts, NoFd
  <2> QED
    BY <2>1, <2>2, <2>3, <2>4, <2>5, <2>6, Zenon DEF IInv, TypeOK, FlagsOK, DataOK
<1>11. CASE DumpPrefixFails
  <2>1. FlagsOK'
    BY <1>0, <1>11, Zenon DEF FlagsOK, DumpPrefixFails, InCase, Return, FileVars, hist, States, Results, CLEAN, Verdicts
  <2>2. DataOK'
    BY <1>0, <1>D, <1>11 DEF DataOK, FieldBounds, ResourceDiscipline, DumpAccounting, DumpPrefixFails, InCase, Return, FileVars, hist, States, Results, CLEAN, Verdicts
  <2>3. FieldBounds'
    BY <1>0, <1>D, <1>11, <2>2 DEF DataOK, FieldBounds, DumpPrefixFails, InCase, Return, FileVars, hist, States, Results, CLEAN, Verdicts
  <2>4. ResourceDiscipline'
    BY <1>0, <1>D, <1>11, <2>2 DEF DataOK, FieldBounds, ResourceDiscipline, DumpPrefixFails, InCase, Return, FileVars, hist, States, Results, CLEAN, Verdicts
  <2>5. DumpAccounting'
    BY <1>0, <1>D, <1>11, <2>2 DEF DataOK, FieldBounds, ResourceDiscipline, DumpAccounting, DumpPrefixFails, InCase, Return, FileVars, hist, States, Results, CLEAN, Verdicts
  <2>6. NoLeakAfterEnd'
    BY <1>0, <1>11, <2>2 DEF DataOK, ResourceDiscipline, NoLeakAfterEnd, DumpPrefixFails, InCase, Return, FileVars, hist, States, Results, CLEAN, Verdicts
  <2> QED
    BY <2>1, <2>2, <2>3, <2>4, <2>5, <2>6, Zenon DEF IInv, TypeOK, FlagsOK, DataOK
<1>12. CASE DumpWriteFails
  <2>1. FlagsOK'
    BY <1>0, <1>12, Zenon DEF FlagsOK, DumpWriteFails, InCase, Want, Min, Flavours, Header, Return, hist, States, Results, CLEAN, Verdicts
  <2>2. DataOK'
    BY <1>0, <1>D, <1>12 DEF DataOK, FieldBounds, ResourceDiscipline, DumpAccounting, DumpWriteFails, InCase, Want, Min, Flavours, Header, Return, hist, States, Results, CLEAN, Verdicts
  <2>3. FieldBounds'
    BY <1>0, <1>D, <1>12, <2>2 DEF DataOK, FieldBounds, DumpWriteFails, InCase, Want, Min, Flavours, Header, Return, hist, States, Results, CLEAN, Verdicts
  <2>4. ResourceDiscipline'
    BY <1>0, <1>D, <1>12, <2>2 DEF DataOK, FieldBounds, ResourceDiscipline, DumpWriteFails, InCase, Want, Min, Flavours, Header, Return, hist, States, Results, CLEAN, Verdicts
  <2>5. DumpAccounting'
    BY <1>0, <1>D, <1>12, <2>2 DEF DataOK, FieldBounds, ResourceDiscipline, DumpAccounting, DumpWriteFails, InCase, Want, Min, Flavours, Header, Return, hist, States, Results, CLEAN, Verdicts
  <2>6. NoLeakAfterEnd'
    BY <1>0, <1>12, <2>2 DEF DataOK, ResourceDiscipline, NoLeakAfterEnd, DumpWriteFails, InCase, Want, Min, Flavours, Header, Return, hist, States, Results, CLEAN, Verdicts
  <2> QED
    BY <2>1, <2>2, <2>3, <2>4, <2>5, <2>6, Zenon DEF IInv, TypeOK, FlagsOK, DataOK
<1>13. CASE DumpWrite
  <2>1. FlagsOK'
    BY <1>0, <1>13, Zenon DEF FlagsOK, DumpWrite, InCase, Want, Min, Flavours, Header, hist, States
  <2>2. DataOK'
    BY <1>0, <1>D, <1>13 DEF DataOK, FieldBounds, ResourceDiscipline, DumpAccounting, DumpWrite, InCase, Want, Min, Flavours, Header, hist, States
  <2>3. FieldBounds'
    BY <1>0, <1>D, <1>13, <2>2 DEF DataOK, FieldBounds, DumpWrite, InCase, Want, Min, Flavours, Header, hist, States
  <2>4. ResourceDiscipline'
    BY <1>0, <1>D, <1>13, <2>2 DEF DataOK, FieldBounds, ResourceDiscipline, DumpWrite, InCase, Want, Min, Flavours, Header, hist, States
  <2>5. DumpAccounting'
    BY <1>0, <1>D, <1>13, <2>2 DEF DataOK, FieldBounds, ResourceDiscipline, DumpAccounting, DumpWrite, InCase, Want, Min, Flavours, Header, hist, States
  <2>6. NoLeakAfterEnd'
    BY <1>0, <1>13, <2>2 DEF DataOK, ResourceDiscipline, NoLeakAfterEnd, DumpWrite, InCase, Want, Min, Flavours, Header, hist, States
  <2> QED
    BY <2>1, <2>2, <2>3, <2>4, <2>5, <2>6, Zenon DEF IInv, TypeOK, FlagsOK, DataOK
<1>14. CASE DumpComplete
  <2>1. FlagsOK'
    BY <1>0, <1>14, Zenon DEF FlagsOK, DumpComplete, InCase, Want, Min, Flavours, Header, Return, DecodeAndScan, DasResult, ScanKind, States, Results, CLEAN, Verdicts, ScanKinds, NoFd, UnlinkOutcomes
  <2>2. DataOK'
    BY <1>0, <1>D, <1>14 DEF DataOK, FieldBounds, ResourceDiscipline, DumpAccounting, DumpComplete, InCase, Want, Min, Flavours, Header, Return, DecodeAndScan, DasResult, ScanKind, States, Results, CLEAN, Verdicts, ScanKinds, NoFd, UnlinkOutcomes
  <2>3. FieldBounds'
    BY <1>0, <1>D, <1>14, <2>2 DEF DataOK, FieldBounds, DumpComplete, InCase, Want, Min, Flavours, Header, Return, DecodeAndScan, DasResult, ScanKind, States, Results, CLEAN, Verdicts, ScanKinds, NoFd, UnlinkOutcomes
  <2>4. ResourceDiscipline'
    BY <1>0, <1>D, <1>14, <2>2 DEF DataOK, FieldBounds, ResourceDiscipline, DumpComplete, InCase, Want, Min, Flavours, Header, Return, DecodeAndScan, DasResult, ScanKind, States, Results, CLEAN, Verdicts, ScanKinds, NoFd, UnlinkOutcomes
  <2>5. DumpAccounting'
    BY <1>0, <1>D, <1>14, <2>2 DEF DataOK, FieldBounds, ResourceDiscipline, DumpAccounting, DumpComplete, InCase, Want, Min, Flavours, Header, Return, DecodeAndScan, DasResult, ScanKind, States, Results, CLEAN, Verdicts, ScanKinds, NoFd, UnlinkOutcomes
  <2>6. NoLeakAfterEnd'
    BY <1>0, <1>14, <2>2 DEF DataOK, ResourceDiscipline, NoLeakAfterEnd, DumpComplete, InCase, Want, Min, Flavours, Header, Return, DecodeAndScan, DasResult, ScanKind, States, Results, CLEAN, Verdicts, ScanKinds, NoFd, UnlinkOutcomes
  <2> QED
    BY <2>1, <2>2, <2>3, <2>4, <2>5, <2>6, Zenon DEF IInv, TypeOK, FlagsOK, DataOK
<1>15. CASE End
  <2>1. FlagsOK'
    BY <1>0, <1>15, Zenon DEF FlagsOK, End, DecodeAndScan, DasResult, ScanKind, States, Results, CLEAN, Verdicts, ScanKinds, NoFd, UnlinkOutcomes
  <2>2. DataOK'
    <3>1. CASE fd > 0
      <4>1. PICK v \in Verdicts, uf \in UnlinkOutcomes :
                 DecodeAndScan(bread, v, uf) /\ rc' = DasResult(bread, v, uf)
        BY <1>15, <3>1 DEF End
      <4>2. onDisk' \in Nat
        <5>1. CASE name /\ ~KeepTmp
          <6>1. onDisk = 1
            BY <1>0, <1>15, <5>1 DEF ResourceDiscipline, End
          <6> QED
            BY <4>1, <5>1, <6>1 DEF DecodeAndScan
        <5>2. CASE ~(name /\ ~KeepTmp)
          BY <1>0, <4>1, <5>2 DEF DecodeAndScan, DataOK
        <5> QED
          BY <5>1, <5>2
      <4>3. rc' \in Results /\ lastScan' \in [kind : ScanKinds, verdict : Verdicts, result : Results]
        BY <4>1 DEF DecodeAndScan, DasResult, ScanKind, ScanKinds, Results, Verdicts, CLEAN
      <4> QED
        BY <1>0, <1>15, <4>1, <4>2, <4>3 DEF DataOK, End, DecodeAndScan, NoFd
    <3>2. CASE ~(fd > 0)
      <4>1. rc' = CLEAN /\ pc' = "freed"
            /\ UNCHANGED <<fd, openFds, onDisk, lastScan, internal_state, bread,
                           desc_len, outCnt, calls, written, prefix, declared,
                           descDeclared, consumed>>
        BY <1>15, <3>2 DEF End
      <4> QED
        BY <1>0, <4>1 DEF DataOK, Results, Verdicts, CLEAN
    <3> QED
      BY <3>1, <3>2
  <2>3. FieldBounds'
    BY <1>0, <1>D, <1>15, <2>2 DEF DataOK, FieldBounds, End, DecodeAndScan, DasResult, ScanKind, States, Results, CLEAN, Verdicts, ScanKinds, NoFd, UnlinkOutcomes
  <2>4. ResourceDiscipline'
    BY <1>0, <1>D, <1>15, <2>2 DEF DataOK, FieldBounds, ResourceDiscipline, End, DecodeAndScan, DasResult, ScanKind, States, Results, CLEAN, Verdicts, ScanKinds, NoFd, UnlinkOutcomes
  <2>5. DumpAccounting'
    BY <1>0, <1>D, <1>15, <2>2 DEF DataOK, FieldBounds, ResourceDiscipline, DumpAccounting, End, DecodeAndScan, DasResult, ScanKind, States, Results, CLEAN, Verdicts, ScanKinds, NoFd, UnlinkOutcomes
  <2>6. NoLeakAfterEnd'
    <3>1. pc' = "freed" /\ ~name' /\ ~descName'
      BY <1>15, Zenon DEF End, DecodeAndScan
    <3>2. pc \in {"idle", "failed"}
      BY <1>15 DEF End
    <3>3. openFds = {fd} \ {NoFd} /\ (KeepTmp \/ onDisk = IF name THEN 1 ELSE 0)
      BY <1>0, <3>2 DEF ResourceDiscipline
    <3>4. CASE fd > 0
      <4>1. PICK v \in Verdicts, uf \in UnlinkOutcomes : DecodeAndScan(bread, v, uf)
        BY <1>15, <3>4 DEF End
      <4>2. openFds' = {}
        BY <3>3, <3>4, <4>1 DEF DecodeAndScan
      <4>3. KeepTmp \/ onDisk' = 0
        BY <1>0, <3>3, <4>1, <3>4 DEF DecodeAndScan, DataOK, NoFd
      <4> QED
        BY <3>1, <4>2, <4>3 DEF NoLeakAfterEnd
    <3>5. CASE ~(fd > 0)
      <4>1. fd = NoFd
        BY <1>0, <3>5 DEF DataOK, NoFd
      <4>2. UNCHANGED <<fd, openFds, onDisk>> /\ ~name
        BY <1>0, <1>15, <3>5, <4>1 DEF End, ResourceDiscipline
      <4> QED
        BY <3>1, <3>3, <4>1, <4>2 DEF NoLeakAfterEnd
    <3> QED
      BY <3>4, <3>5
  <2> QED
    BY <2>1, <2>2, <2>3, <2>4, <2>5, <2>6, Zenon DEF IInv, TypeOK, FlagsOK, DataOK
<1>16. CASE UNCHANGED vars
    BY <1>16, TypeSplit DEF vars, IInv, TypeOK, FieldBounds, ResourceDiscipline,
       DumpAccounting, NoLeakAfterEnd
<1> QED
    BY <1>1, <1>2, <1>3, <1>4, <1>5, <1>6, <1>7, <1>8, <1>9, <1>10, <1>11, <1>12, <1>13, <1>14, <1>15, <1>16 DEF Next

-----------------------------------------------------------------------------
\* The invariant holds in every reachable state.
LEMMA IInvHolds ==
    ASSUME FdValues \subseteq Nat \ {0}
    PROVE  Spec => []IInv
<1>1. Init => IInv
    BY InitIInv
<1>2. IInv /\ [Next]_vars => IInv'
    BY NextIInv
<1> QED
    BY <1>1, <1>2, PTL DEF Spec

(***************************************************************************)
(* Type correctness of the extractor: no subtraction of the process loop  *)
(* (out_cnt -= i, desc_len -= out_want, the unlink count) goes below zero, *)
(* whatever the chunk sizes and field values.                              *)
(***************************************************************************)
THEOREM ObjectTypeCorrect ==
    ASSUME FdValues \subseteq Nat \ {0}
    PROVE  Spec => []TypeOK
<1>1. IInv => TypeOK
    BY DEF IInv
<1> QED
    BY <1>1, IInvHolds, PTL

(***************************************************************************)
(* The temp file is open and named exactly while a payload is dumped and  *)
(* desc_name is allocated exactly in WAIT_DESC (rtf_object_process and    *)
(* decode_and_scan), when cli_gentempfd never returns descriptor 0.       *)
(***************************************************************************)
THEOREM ObjectResourceDiscipline ==
    ASSUME FdValues \subseteq Nat \ {0}
    PROVE  Spec => []ResourceDiscipline
<1>1. IInv => ResourceDiscipline
    BY DEF IInv
<1> QED
    BY <1>1, IInvHolds, PTL

(***************************************************************************)
(* The temp file holds the OLE10Native prefix with the declared size and  *)
(* exactly the payload bytes consumed so far (case DUMP_DATA).            *)
(***************************************************************************)
THEOREM ObjectDumpAccounting ==
    ASSUME FdValues \subseteq Nat \ {0}
    PROVE  Spec => []DumpAccounting
<1>1. IInv => DumpAccounting
    BY DEF IInv
<1> QED
    BY <1>1, IInvHolds, PTL

(***************************************************************************)
(* rtf_object_end leaves no descriptor, buffer or (unless keeptmp) temp   *)
(* file behind, for any descriptor cli_gentempfd returns other than 0.    *)
(***************************************************************************)
THEOREM ObjectNoLeakAfterEnd ==
    ASSUME FdValues \subseteq Nat \ {0}
    PROVE  Spec => []NoLeakAfterEnd
<1>1. IInv => NoLeakAfterEnd
    BY DEF IInv
<1> QED
    BY <1>1, IInvHolds, PTL
=============================================================================
