----------------------------- MODULE RtfObject -----------------------------
(***************************************************************************)
(* One objdata extractor context of libclamav/rtf.c: rtf_object_process's *)
(* state machine over the de-hexed bytes, decode_and_scan and              *)
(* rtf_object_end.  The context starts as rtf_object_begin leaves it.      *)
(*                                                                         *)
(* Bytes are counted, not stored: a process call hands the machine out_cnt *)
(* decoded bytes (the hex decoding is modelled in HexDecode), and what the *)
(* bytes say is chosen when the code reads it: the value of a length field *)
(* once its last byte is in, and whether the payload starts with D0 CF.    *)
(* Each iteration of the `while (out_data && out_cnt)` loop is one step;   *)
(* nothing else runs between them.                                         *)
(***************************************************************************)
EXTENDS Naturals, Integers

CONSTANTS
    MagicLen,    \* rtf_data_magic_len (8)
    LenBytes,    \* bytes of a little-endian length field (4)
    DescMax,     \* bytes of the description kept in desc_name (64)
    ZeroLen,     \* bytes of the reserved field skipped in WAIT_ZERO (8)
    ChunkSizes,  \* values out_cnt may take in one process call
    DescLens,    \* values the description length field may hold
    DataSizes,   \* values the data size field may hold
    FdValues,    \* descriptors cli_gentempfd may return
    KeepTmp,     \* ctx->engine->keeptmp
    HostFails,   \* whether malloc, cli_gentempfd, cli_writen, cli_unlink may fail
    MaxCalls     \* bound on the number of process calls

ASSUME ObjectAssumption ==
    /\ MagicLen \in Nat \ {0} /\ LenBytes \in Nat \ {0}
    /\ DescMax \in Nat /\ ZeroLen \in Nat \ {0}
    /\ ChunkSizes \subseteq Nat \ {0} /\ ChunkSizes # {}
    /\ DescLens \subseteq Nat /\ DescLens # {}
    /\ DataSizes \subseteq Nat /\ DataSizes # {}
    /\ FdValues \subseteq Nat /\ FdValues # {}
    /\ KeepTmp \in BOOLEAN /\ HostFails \in BOOLEAN
    /\ MaxCalls \in Nat

States == {"WAIT_MAGIC", "WAIT_DESC_LEN", "WAIT_DESC", "WAIT_ZERO",
           "WAIT_DATA_SIZE", "DUMP_DATA", "DUMP_DISCARD"}

NoFd == -1
CLEAN == "CLEAN"
Verdicts == {CLEAN, "VIRUS"}
Results == Verdicts \cup {"EMEM", "ECREAT", "EWRITE", "EUNLINK"}
\* The kinds of scan decode_and_scan runs (or "none").
ScanKinds == {"none", "ole10", "magic"}

Min(a, b) == IF a < b THEN a ELSE b

VARIABLES
    internal_state, \* data->internal_state
    bread,          \* data->bread (in DUMP_DATA: 0 unknown, 1 OLE10Native, 2 OLE2)
    desc_len,       \* data->desc_len (description, then payload, length)
    descName,       \* data->desc_name is allocated
    fd,             \* data->fd
    name,           \* data->name is allocated
    outCnt,         \* out_cnt of the call in progress
    pc,             \* "idle", "loop" (in the while loop), "failed" (process
                    \* returned an error), "freed" (rtf_object_end has run)
    rc,             \* what the last process or end call returned
    calls,          \* process calls made
    openFds,        \* descriptors this context has open in the process
    onDisk,         \* temp files this context created and nobody unlinked
    written,        \* bytes written to the current temp file
    prefix,         \* the length written before an OLE10Native payload (or -1)
    declared,       \* history: the payload size read in WAIT_DATA_SIZE
    descDeclared,   \* history: the description length read in WAIT_DESC_LEN
    consumed,       \* history: bytes consumed since the current object began
    lastScan        \* history: the last decode_and_scan, its scan and result

vars == <<internal_state, bread, desc_len, descName, fd, name, outCnt, pc, rc,
          calls, openFds, onDisk, written, prefix, declared, descDeclared,
          consumed, lastScan>>

hist == <<declared, descDeclared, lastScan>>

\* rtf_object_begin
Init ==
    /\ internal_state = "WAIT_MAGIC" /\ bread = 0 /\ desc_len = 0
    /\ descName = FALSE /\ fd = NoFd /\ name = FALSE
    /\ outCnt = 0 /\ pc = "idle" /\ rc = CLEAN /\ calls = 0
    /\ openFds = {} /\ onDisk = 0 /\ written = 0 /\ prefix = -1
    /\ declared = 0 /\ descDeclared = 0 /\ consumed = 0
    /\ lastScan = [kind |-> "none", verdict |-> CLEAN, result |-> CLEAN]

(***************************************************************************)
(* decode_and_scan, as the effect on the file variables and the value it   *)
(* returns, for the scan verdict v and whether cli_unlink fails.  Only a   *)
(* descriptor > 0 is scanned and closed.                                   *)
(***************************************************************************)
ScanKind(b) == IF fd > 0 THEN (IF b = 1 THEN "ole10" ELSE "magic") ELSE "none"

DasResult(b, v, unlinkFails) ==
    IF name /\ ~KeepTmp /\ unlinkFails THEN "EUNLINK"
    ELSE IF ScanKind(b) = "none" THEN CLEAN ELSE v

\* A decode_and_scan that scans the file but never closes its descriptor.
DecodeAndScanNoClose(b, v, unlinkFails) ==
    /\ UNCHANGED <<fd, openFds>>
    /\ name' = FALSE
    /\ onDisk' = IF name /\ ~KeepTmp THEN onDisk - 1 ELSE onDisk
    /\ lastScan' = [kind |-> ScanKind(b),
                    verdict |-> IF ScanKind(b) = "none" THEN CLEAN ELSE v,
                    result |-> DasResult(b, v, unlinkFails)]

\* onDisk counts the temp files nobody has asked cli_unlink to remove.
DecodeAndScan(b, v, unlinkFails) ==
    /\ fd' = NoFd
    /\ openFds' = IF fd > 0 THEN openFds \ {fd} ELSE openFds
    /\ name' = FALSE
    /\ onDisk' = IF name /\ ~KeepTmp THEN onDisk - 1 ELSE onDisk
    /\ lastScan' = [kind |-> ScanKind(b),
                    verdict |-> IF ScanKind(b) = "none" THEN CLEAN ELSE v,
                    result |-> DasResult(b, v, unlinkFails)]

\* The outcomes of the host calls of decode_and_scan.
UnlinkOutcomes == IF HostFails THEN BOOLEAN ELSE {FALSE}

(***************************************************************************)
(* rtf_object_process(state, input, len) with len > 0: the hex decoding    *)
(* yields out_cnt bytes.                                                   *)
(***************************************************************************)
Process ==
    /\ pc = "idle" /\ calls < MaxCalls
    /\ \E n \in ChunkSizes : outCnt' = n
    /\ pc' = "loop" /\ calls' = calls + 1
    /\ UNCHANGED <<internal_state, bread, desc_len, descName, fd, name, rc,
                   openFds, onDisk, written, prefix, consumed, hist>>

\* out_cnt is 0: the while loop ends, return 0.
LoopDone ==
    /\ pc = "loop" /\ outCnt = 0
    /\ pc' = "idle" /\ rc' = CLEAN
    /\ UNCHANGED <<internal_state, bread, desc_len, descName, fd, name, outCnt,
                   calls, openFds, onDisk, written, prefix, consumed, hist>>

InCase(s) == pc = "loop" /\ outCnt > 0 /\ internal_state = s

\* Leave the loop with `return r`.
Return(r) == pc' = (IF r = CLEAN THEN "idle" ELSE "failed") /\ rc' = r

FileVars == <<fd, name, openFds, onDisk, written, prefix, lastScan>>

\* case WAIT_MAGIC: compare up to 8 bytes (a mismatch is only logged).
WaitMagic ==
    /\ InCase("WAIT_MAGIC")
    /\ LET i == Min(outCnt, MagicLen - bread) IN
         /\ outCnt' = outCnt - i /\ consumed' = consumed + i
         /\ IF bread + i = MagicLen
            THEN bread' = 0 /\ internal_state' = "WAIT_DESC_LEN"
            ELSE bread' = bread + i /\ UNCHANGED internal_state
    /\ UNCHANGED <<desc_len, descName, pc, rc, calls, FileVars, declared, descDeclared>>

\* case WAIT_DESC_LEN: the 4-byte length; then desc_name = malloc(min(len, 64) + 1).
WaitDescLen ==
    /\ InCase("WAIT_DESC_LEN")
    /\ LET i == Min(outCnt, LenBytes - bread) IN
         /\ outCnt' = outCnt - i /\ consumed' = consumed + i
         /\ IF bread + i = LenBytes
            THEN /\ bread' = 0
                 /\ \E d \in DescLens :
                       /\ desc_len' = d /\ descDeclared' = d
                       /\ \/ /\ descName' = TRUE /\ internal_state' = "WAIT_DESC"
                             /\ UNCHANGED <<pc, rc>>
                          \/ /\ HostFails /\ Return("EMEM")
                             /\ UNCHANGED <<descName, internal_state>>
            ELSE /\ bread' = bread + i /\ desc_len' = 0
                 /\ UNCHANGED <<descName, internal_state, pc, rc, descDeclared>>
    /\ UNCHANGED <<calls, FileVars, declared>>

(***************************************************************************)
(* case WAIT_DESC, as written: copy up to min(desc_len, 64) bytes, wait    *)
(* for more, or drop what is left of the description when it is all in    *)
(* this call (desc_len is lowered by what a call drops when it is not).    *)
(***************************************************************************)
\* What one pass of the copy loop reads, and what it leaves of out_cnt.
DescTake == IF bread < Min(desc_len, DescMax)
            THEN Min(outCnt, Min(desc_len, DescMax) - bread) ELSE 0
DescRead == bread + DescTake
DescLeft == outCnt - DescTake
\* The two "wait for more data" tests, after the copy loop.
MoreData1 == DescRead < desc_len /\ DescRead < DescMax
MoreData2 == desc_len - DescRead > DescLeft

\* waiting for more data(1)
WaitDescMore1 ==
    /\ InCase("WAIT_DESC") /\ MoreData1
    /\ bread' = DescRead /\ outCnt' = DescLeft /\ consumed' = consumed + DescTake
    /\ Return(CLEAN)
    /\ UNCHANGED <<internal_state, desc_len, descName, calls, FileVars, declared,
                   descDeclared>>

\* waiting for more data(2): desc_len is lowered by what this call drops.
WaitDescMore2 ==
    /\ InCase("WAIT_DESC") /\ ~MoreData1 /\ MoreData2
    /\ bread' = DescRead /\ desc_len' = desc_len - DescLeft
    /\ outCnt' = 0 /\ consumed' = consumed + outCnt
    /\ Return(CLEAN)
    /\ UNCHANGED <<internal_state, descName, calls, FileVars, declared, descDeclared>>

\* The rest of the description is dropped and desc_name freed.
WaitDescDone ==
    /\ InCase("WAIT_DESC") /\ ~MoreData1 /\ ~MoreData2 /\ DescRead >= desc_len
    /\ bread' = 0
    /\ outCnt' = DescLeft - (desc_len - DescRead)
    /\ consumed' = consumed + DescTake + (desc_len - DescRead)
    /\ descName' = FALSE /\ internal_state' = "WAIT_ZERO"
    /\ UNCHANGED <<desc_len, pc, rc, calls, FileVars, declared, descDeclared>>

\* desc_len > 64: out_cnt is lowered by desc_len - 64 and the state is kept.
WaitDescSkip ==
    /\ InCase("WAIT_DESC") /\ ~MoreData1 /\ ~MoreData2 /\ DescRead < desc_len
    /\ bread' = DescRead
    /\ outCnt' = DescLeft - (desc_len - DescRead)
    /\ consumed' = consumed + DescTake + (desc_len - DescRead)
    /\ UNCHANGED <<internal_state, desc_len, descName, pc, rc, calls, FileVars,
                   declared, descDeclared>>

(***************************************************************************)
(* case WAIT_ZERO, as written: when fewer than 8 - bread bytes are left    *)
(* they are dropped and bread is raised by out_cnt after out_cnt = 0.      *)
(***************************************************************************)
WaitZero ==
    /\ InCase("WAIT_ZERO")
    /\ IF outCnt < ZeroLen - bread
       THEN /\ outCnt' = 0 /\ consumed' = consumed + outCnt
            /\ UNCHANGED <<bread, internal_state>>
       ELSE /\ outCnt' = outCnt - (ZeroLen - bread)
            /\ consumed' = consumed + (ZeroLen - bread)
            /\ bread' = 0 /\ internal_state' = "WAIT_DATA_SIZE"
    /\ UNCHANGED <<desc_len, descName, pc, rc, calls, FileVars, declared, descDeclared>>

\* case WAIT_DATA_SIZE: the 4-byte payload size; then cli_gentempfd.
WaitDataSize ==
    /\ InCase("WAIT_DATA_SIZE")
    /\ LET i == Min(outCnt, LenBytes - bread) IN
         /\ outCnt' = outCnt - i /\ consumed' = consumed + i
         /\ IF bread + i = LenBytes
            THEN /\ bread' = 0
                 /\ \E d \in DataSizes :
                       /\ desc_len' = d /\ declared' = d
                       /\ \/ \E f \in FdValues \ openFds :
                                /\ fd' = f /\ name' = TRUE
                                /\ openFds' = openFds \cup {f} /\ onDisk' = onDisk + 1
                                /\ written' = 0 /\ prefix' = -1
                                /\ internal_state' = "DUMP_DATA"
                                /\ UNCHANGED <<pc, rc>>
                          \/ /\ HostFails /\ Return("ECREAT")
                             /\ UNCHANGED <<fd, name, openFds, onDisk, written,
                                            prefix, internal_state>>
            ELSE /\ bread' = bread + i /\ desc_len' = 0
                 /\ UNCHANGED <<internal_state, pc, rc, fd, name, openFds, onDisk,
                                written, prefix, declared>>
    /\ UNCHANGED <<descName, calls, lastScan, descDeclared>>

(***************************************************************************)
(* case DUMP_DATA.  On the first bytes of the payload (bread = 0) the      *)
(* flavour is decided by out_data[0..1] = D0 CF; out_data[1] is read even  *)
(* when out_cnt is 1, so either flavour may follow.  OLE10Native gets the  *)
(* 4-byte desc_len written first.  Then min(out_cnt, desc_len) bytes are   *)
(* written (desc_len lowered before the write) and, once desc_len is 0,    *)
(* decode_and_scan runs and the machine waits for the next object.         *)
(***************************************************************************)
\* The flavours the first payload bytes may give: 1 OLE10Native, 2 OLE2.
Flavours == IF bread = 0 THEN {1, 2} ELSE {bread}
\* A prefix test that forgets it was already written (bread = 1 on entry).
HeaderAgain(f) == f = 1
\* The OLE10Native prefix is written by this step.
Header(f) == bread = 0 /\ f = 1
\* A write of the whole decoded chunk, past the end of the payload.
WantAll == outCnt
Want == Min(outCnt, desc_len)

\* cli_writen of the 4-byte prefix fails: return CL_EWRITE.
DumpPrefixFails ==
    /\ InCase("DUMP_DATA") /\ bread = 0 /\ HostFails
    /\ bread' = 1 /\ Return("EWRITE")
    /\ UNCHANGED <<internal_state, desc_len, descName, outCnt, calls, FileVars,
                   hist, consumed>>

\* cli_writen of the payload bytes fails: return CL_EWRITE.
DumpWriteFails ==
    /\ InCase("DUMP_DATA") /\ HostFails /\ Want > 0
    /\ \E f \in Flavours :
          /\ bread' = f
          /\ prefix' = IF Header(f) THEN desc_len ELSE prefix
          /\ written' = written + (IF Header(f) THEN 4 ELSE 0)
    /\ desc_len' = desc_len - Want
    /\ Return("EWRITE")
    /\ UNCHANGED <<internal_state, descName, outCnt, calls, fd, name, openFds,
                   onDisk, lastScan, hist, consumed>>

\* The payload bytes are written; the object is not complete.
DumpWrite ==
    /\ InCase("DUMP_DATA") /\ desc_len - Want # 0
    /\ \E f \in Flavours :
          /\ bread' = f
          /\ prefix' = IF Header(f) THEN desc_len ELSE prefix
          /\ written' = written + (IF Header(f) THEN 4 ELSE 0) + Want
    /\ desc_len' = desc_len - Want
    /\ outCnt' = outCnt - Want /\ consumed' = consumed + Want
    /\ UNCHANGED <<internal_state, descName, pc, rc, calls, fd, name, openFds,
                   onDisk, lastScan, hist>>

\* The last payload bytes are written: decode_and_scan, then wait for the
\* next object, or return what decode_and_scan returned if not clean.
DumpComplete ==
    /\ InCase("DUMP_DATA") /\ desc_len - Want = 0
    /\ \E f \in Flavours, v \in Verdicts, uf \in UnlinkOutcomes :
          /\ prefix' = IF Header(f) THEN desc_len ELSE prefix
          /\ written' = written + (IF Header(f) THEN 4 ELSE 0) + Want
          /\ DecodeAndScan(f, v, uf)
          /\ IF DasResult(f, v, uf) = CLEAN
             THEN /\ bread' = 0 /\ internal_state' = "WAIT_MAGIC"
                  /\ UNCHANGED <<pc, rc>>
             ELSE /\ bread' = f /\ Return(DasResult(f, v, uf))
                  /\ UNCHANGED internal_state
    /\ desc_len' = 0
    /\ outCnt' = outCnt - Want /\ consumed' = 0
    /\ UNCHANGED <<descName, calls, declared, descDeclared>>

\* An rtf_object_end that frees the names without closing the file.
EndNoScan ==
    /\ pc \in {"idle", "failed"}
    /\ name' = FALSE /\ rc' = CLEAN
    /\ UNCHANGED <<fd, openFds, onDisk, lastScan>>
    /\ descName' = FALSE /\ pc' = "freed"
    /\ UNCHANGED <<internal_state, bread, desc_len, outCnt, calls, written, prefix,
                   declared, descDeclared, consumed>>

(***************************************************************************)
(* rtf_object_end, called once by the parser when the group of the        *)
(* context closes or the parse ends, after a clean or a failed process.   *)
(* Only a descriptor > 0 is scanned; the names are freed in any case.     *)
(***************************************************************************)
End ==
    /\ pc \in {"idle", "failed"}
    /\ IF fd > 0
       THEN \E v \in Verdicts, uf \in UnlinkOutcomes :
               /\ DecodeAndScan(bread, v, uf)
               /\ rc' = DasResult(bread, v, uf)
       ELSE /\ name' = FALSE /\ rc' = CLEAN
            /\ UNCHANGED <<fd, openFds, onDisk, lastScan>>
    /\ descName' = FALSE /\ pc' = "freed"
    /\ UNCHANGED <<internal_state, bread, desc_len, outCnt, calls, written, prefix,
                   declared, descDeclared, consumed>>

Next ==
    \/ Process \/ LoopDone
    \/ WaitMagic \/ WaitDescLen \/ WaitZero \/ WaitDataSize
    \/ WaitDescMore1 \/ WaitDescMore2 \/ WaitDescDone \/ WaitDescSkip
    \/ DumpPrefixFails \/ DumpWriteFails \/ DumpWrite \/ DumpComplete
    \/ End

\* The parser calls process any number of times, then end once; once the
\* context is freed nothing more happens to it.
Spec == Init /\ [][Next]_vars

-----------------------------------------------------------------------------
\* Every variable holds a value of its kind.
TypeOK ==
    /\ internal_state \in States
    /\ bread \in Nat /\ desc_len \in Nat /\ outCnt \in Nat
    /\ descName \in BOOLEAN /\ name \in BOOLEAN
    /\ fd \in FdValues \cup {NoFd} /\ openFds \subseteq FdValues
    /\ pc \in {"idle", "loop", "failed", "freed"} /\ rc \in Results
    /\ calls \in 0..MaxCalls /\ onDisk \in Nat /\ written \in Nat
    /\ prefix \in Nat \cup {-1}
    /\ declared \in Nat /\ descDeclared \in Nat /\ consumed \in Nat
    /\ lastScan \in [kind : ScanKinds, verdict : Verdicts, result : Results]

(***************************************************************************)
(* The descriptor, the temp name and desc_name are owned by the state they *)
(* belong to: the temp file is open and named exactly while the payload is *)
(* dumped, the description buffer exists exactly in WAIT_DESC, and the    *)
(* process has open, and on disk, only the current object's file.  This   *)
(* is what lets rtf_object_end and decode_and_scan release everything by  *)
(* looking at fd > 0 and name alone.                                       *)
(***************************************************************************)
ResourceDiscipline ==
    pc # "freed" =>
       /\ fd # NoFd => internal_state = "DUMP_DATA"
       /\ internal_state = "DUMP_DATA" /\ pc # "failed" => fd # NoFd
       /\ name <=> fd # NoFd
       /\ descName <=> internal_state = "WAIT_DESC"
       /\ openFds = {fd} \ {NoFd}
       /\ KeepTmp \/ onDisk = IF name THEN 1 ELSE 0

(***************************************************************************)
(* While a payload is dumped, the temp file holds exactly what the object *)
(* declared so far: the 4-byte size prefix for OLE10Native, which carries *)
(* the declared payload size, then declared - desc_len payload bytes, so  *)
(* that cli_scan_ole10 reads a well-formed stream.                         *)
(***************************************************************************)
DumpAccounting ==
    internal_state = "DUMP_DATA" /\ pc \in {"idle", "loop"} =>
       /\ desc_len <= declared
       /\ written = (IF bread = 1 THEN 4 ELSE 0) + (declared - desc_len)
       /\ bread = 1 => prefix = declared

(***************************************************************************)
(* After rtf_object_end no descriptor of the context is open, no buffer is *)
(* allocated, and every temp file it created has been handed to           *)
(* cli_unlink unless keeptmp is set.                                       *)
(***************************************************************************)
NoLeakAfterEnd ==
    pc = "freed" =>
       /\ openFds = {} /\ ~name /\ ~descName
       /\ KeepTmp \/ onDisk = 0

(***************************************************************************)
(* The machine stays aligned with the OLE1 object layout: the bytes       *)
(* consumed since the object began are exactly those of the fields before *)
(* the current state plus what the current field has read.  (The layout is *)
(* 8 magic bytes, a 4-byte description length, the description, 8 zero   *)
(* bytes, a 4-byte payload size and the payload.)                         *)
(***************************************************************************)
Offset ==
    CASE internal_state = "WAIT_MAGIC" -> bread
      [] internal_state = "WAIT_DESC_LEN" -> MagicLen + bread
      [] internal_state = "WAIT_DESC" ->
            MagicLen + LenBytes + bread + (descDeclared - desc_len)
      [] internal_state = "WAIT_ZERO" -> MagicLen + LenBytes + descDeclared + bread
      [] internal_state = "WAIT_DATA_SIZE" ->
            MagicLen + LenBytes + descDeclared + ZeroLen + bread
      [] OTHER ->
            MagicLen + LenBytes + descDeclared + ZeroLen + LenBytes + (declared - desc_len)

FieldAligned == pc \in {"idle", "loop"} => consumed = Offset

(***************************************************************************)
(* decode_and_scan returns the scan's detection: a virus found in the     *)
(* dumped object is what the call returns.                                 *)
(***************************************************************************)
VerdictReturned == lastScan.verdict = "VIRUS" => lastScan.result = "VIRUS"
=============================================================================
