# Formal models of the RTF scanner and the certificate store

This directory holds TLA+ models of the two source files of this tree:

- `src/libclamav/rtf.c` is the RTF scanner `cli_scanrtf`, which finds embedded OLE objects and scans them.
- `src/shared/linux/cert_util_linux.c` is `cert_store_load`.

Each model has TLC configurations that check it on small instances, and TLAPS proofs of the main invariants for all values of the constants. `PROJECT.json` lists every component, run, mutant, finding, hazard and theorem, and maps each definition to the source lines it translates.

## The system

`cli_scanrtf` reads the document one fmap chunk at a time and runs a byte-level tokenizer:

- `MAIN`, `CONTROL`, `CONTROL_WORD`, `CONTROL_SYMBOL`, `CONTROL_WORD_PARAM` and `INTERPRET_CONTROLWORD` are its states.
- `{` and `}` call `push_state` and `pop_state`. These keep a stack of `struct rtf_state` frames, in which frames equal to `base_state` are not stored but only counted (`default_elements`).
- A control word found in the action table (`object`, or `objdata ` with the trailing space) goes to `rtf_action`. `rtf_action` sets the `RTF_OBJECT` bit, or binds the objdata extractor's three callbacks to the current frame.
- Text in a frame with callbacks goes to `rtf_object_begin` (which allocates the context) and then to `rtf_object_process`.
- `rtf_object_process` de-hexes the text, keeping a half byte between calls. It then runs the object state machine:
  `WAIT_MAGIC → WAIT_DESC_LEN → WAIT_DESC → WAIT_ZERO → WAIT_DATA_SIZE → DUMP_DATA`.
- `DUMP_DATA` writes the payload to a temp file (OLE10Native payloads get a 4-byte length prefix first). When the payload is complete it calls `decode_and_scan`, which scans the file, closes it, unlinks it and starts over at `WAIT_MAGIC`.
- `rtf_object_end` runs when the group closes, on a premature end (a new `objdata`), or during cleanup. It scans any open file and frees the context.
- `SCAN_CLEANUP` runs on every exit after start-up. It ends the working frame's object, ends the object of every stored frame (`cleanup_stack`), removes the temp directory unless keeptmp is set, and frees the stack.

`cert_store_load` may be called by several threads. Each takes the process-wide store's mutex, and unless the store is already loaded it resets the system certificates, installs the trusted ones, marks the store loaded, and unlocks.

## Modules

| Module | Models | Source |
|---|---|---|
| `RtfParser` | the tokenizer, the group stack, the action table, the dispatcher, the callback calls, start-up and cleanup; the extractor only as the results it can return | rtf.c 61-94, 146-217, 443-684 |
| `GroupStack` | the abstract specification of the group stack: a plain stack of frames | what push/pop promise |
| `RtfParserRefinement` | the refinement mapping from `RtfParser`'s compressed stack to `GroupStack`, and the property `GroupStackRefinement` | rtf.c 146-217 through `RtfParser` |
| `RtfObject` | one extractor context: `rtf_object_begin`, the `rtf_object_process` state machine, `decode_and_scan`, `rtf_object_end` | rtf.c 219-459 |
| `HexDecode` | the hex decoding at the top of `rtf_object_process` | rtf.c 121-137, 265-300 |
| `CertStore` | `cert_store_load` run by several threads on one store | cert_util_linux.c 35-88 |
| `CertLoad` | the abstract specification of `cert_store_load`: each call is one atomic step | what the function promises |
| `CertStoreRefinement` | the refinement mapping from `CertStore` to `CertLoad`, and the property `CertLoadRefinement` | cert_util_linux.c 35-88 through `CertStore` |
| `RtfParserProofs`, `RtfParserBounds`, `RtfParserRefinementProofs`, `RtfObjectProofs`, `HexDecodeProofs`, `CertStoreProofs` | TLAPS proofs | |
| `InductionLemmas` | induction principles and sequence facts shared by the proofs | |
| `MC_*` | TLC instances | |

### RtfParser

The variables correspond to the code as follows:

- `state` is the working `struct rtf_state`. `cb_begin`, `cb_process` and `cb_end` are booleans: is the objdata callback bound. `toplevel` is the `RTF_OBJECT` bit of `encounteredTopLevel`, the only bit ever set.
- `stack` is `stack.states[0..stack_cnt-1]` and `stackSize` is `stack_size`.
- `controlword`, `param` and `paramSign` are the control-word fields. They are separate variables because they are dead outside their states; `MCView` drops them there.
- `byte` is the byte under `ptr`, or `EOF`.
- `live` is the set of allocated contexts and `ctxFile` says which of them have an open temp file.
- `phase`, `ret`, `stackAlloc` and `tmpdirExists` record the driver's own state.
- Two history variables are kept for the properties: `objScope` (has `\object` been seen in this group or an enclosing one) and `detected` (has some callback returned VIRUS).

Every step of the code is an action with its guards and every error path:

- `PushDefault`, `PushFrame` and `PushGrowFails`;
- `PopGroup` and `PopGroupEndFails`;
- `TextSkip`, `TextProcess`, `TextBeginFails` and `TextProcessFails`;
- the `Control*`, `Word*` and `Param*` actions;
- `InterpretUnknown` and `InterpretAction` (which includes the premature end);
- `Finish`;
- the four start-up failures.

`Cleanup` is `SCAN_CLEANUP` followed by `return`. The extractor is abstracted to its outcomes:

- `ProcessOutcomes` is every result `rtf_object_process` can return, and whether a file stays open.
- `EndResults` is what `rtf_object_end` can return for a context.

`RtfObject` checks these outcomes in detail.

### RtfObject

Bytes are counted, not stored. A process call hands the machine `out_cnt ∈ ChunkSizes` decoded bytes. What the bytes say is chosen at the point the code reads it:

- a length field's value, from `DescLens` or `DataSizes`;
- the OLE flavour, from `Flavours`. This is nondeterministic when `out_data[1]` is read past the decoded bytes.

Because the flavour is a free choice, the properties hold whichever flavour the stale read of `out_data[1]` (rtf.c 407) yields. No property can say that the flavour chosen is wrong for the bytes, since the bytes are not modelled; that hazard stays uncovered.

Each iteration of the `while (out_data && out_cnt)` loop is one action (`WaitMagic`, `WaitDescLen`, the four `WaitDesc*` branches, `WaitZero`, `WaitDataSize` and the `Dump*` actions). `DecodeAndScan` is the whole of `decode_and_scan`, inlined in the actions that call it. Host calls may fail when `HostFails` is set: malloc, `cli_gentempfd`, `cli_writen` and `cli_unlink`.

The field widths are constants. The instance uses 2 where the code has 8, 4, 64 and 8. This keeps every case (a field split across calls, a description longer than the kept part) reachable within 7 calls.

### HexDecode

The three loops of lines 277-300 are modelled as one automaton over the state `<<outdata, has_partial, partial>>`, one step per input byte (`Step`):

- With no high nibble pending (the `for` loop), a non-hex byte is passed over and a hex digit becomes the pending nibble `byte`.
- With one pending (`data->partial` in the first loop, `byte` in the inner `while`), a non-hex byte is passed over and a hex digit completes the byte, which is appended to `outdata`.
- A run that ends with a nibble pending leaves it in `data->partial` with `has_partial` set. This covers both the `break` at `i == len` and the `return 0` of a run without a hex digit.

`Scan[n][s][st]` runs the automaton over the `n` bytes of `s`. `DecodeRun` starts it from the stored nibble. `Scan` is a recursive function on the length, not a `RECURSIVE` operator, so TLC and TLAPS read the same definition. `MC_HexDecode` keeps the loops exactly as written, as the `RECURSIVE` operator `LoopRun`. TLC checks, as an `ASSUME` on every run, that `Decode` agrees with `LoopRun` on every input of up to `ChunkMax` bytes, with and without a stored nibble. The same `ASSUME` checks that `HexOnly` (a recursive function) equals `SelectSeq(s, isxdigit)`.

Each `Process` step feeds a run of 1 to `ChunkMax` bytes. The `fed` history lets the round trip be stated against `Reference`, the decoding of all input so far.

### CertStore

- `pc[t]` is the position of thread `t` in `cert_store_load`.
- `holder` is the owner of `store->mutex`.
- `loaded` is `store->loaded` and `trustSets` counts calls of `cert_store_set_trusted_int`.
- `inside` is a history variable: the threads past their check of `loaded` that have not yet unlocked.

Two functions are not in this tree. `cert_store_get_int` is a step that may fail. `cert_store_set_trusted_int` is a counted write; its success or failure only changes the log.

`LockFails` is the lock error that is only logged. `Unlock` by a thread that does not own the mutex is undefined for a default mutex: it may release the mutex or change nothing.

## Runs

| Run | Expect | Checks | Shows |
|---|---|---|---|
| `rtf_parser` | pass | `TypeOK`, `ContextOwnership`, `NoLeakAtReturn`, `StorageBound`, `GroupStackRefinement`, `DigitAcceptedExactly` | every context is owned by exactly one frame, none survives the return, the compressed stack refines `GroupStack`, no frame is stored past the storage, and the parameter's overflow test is exact |
| `parser_scope_gating` | violation | `ScopeGating` | `\objdata` after the `\object` group has closed still binds the extractor |
| `parser_verdict_lost` | violation | `VerdictNotLost` | a VIRUS from an ignored `cb_end` becomes a CLEAN return |
| `parser_stack_freed` | violation | `StackFreedAtReturn` | the stack leaks when `cli_gentemp` fails |
| `rtf_object` | pass | `TypeOK`, `ResourceDiscipline`, `DumpAccounting`, `NoLeakAfterEnd` | the fd, name and desc_name follow the state; the temp file holds exactly the prefix and payload; end frees everything |
| `object_zero_split` | violation | `FieldAligned` | `WAIT_ZERO` loses bytes when the reserved field is split |
| `object_long_desc` | violation | `FieldAligned` | a description longer than 64 bytes never leaves `WAIT_DESC` |
| `object_unlink_masks` | violation | `VerdictReturned` | `CL_EUNLINK` overwrites a VIRUS |
| `object_fd_zero` | violation | `NoLeakAfterEnd` | descriptor 0 is never closed or unlinked |
| `hex_decode` | pass | `RoundTrip` | chunking never changes the decoded bytes |
| `cert_store` | pass | `AllReturn` | every thread returns, even after failed locks |
| `cert_store_lock_fails` | violation | `LoadedOnce` | a failed lock lets two threads initialise the store |

What the properties say:

- `ContextOwnership` is the no-double-free / no-leak invariant for contexts across pushes, default frames, pops, premature ends and every cleanup path.
- `GroupStackRefinement` is `GroupStack!Spec` under the mapping `Logical(stack, default_elements)` defined in `RtfParserRefinement`. Each stored frame is preceded by the default frames that were counted before it was pushed. The flattening `StoredFrames[n][stk]` is a recursive function over the depth `n`, not a `RECURSIVE` operator, so the same definition serves TLC and TLAPS. `ParserRefinesGroupStack` proves it for every value of the constants.
- `StorageBound` says that `push_state` never stores a frame at an index past `stack_size` (rtf.c 167-176). This holds through every mix of counted default frames, stored frames, pops and growths.
- `DigitAcceptedExactly` is an action property about a digit read in `CONTROL_WORD_PARAM` (rtf.c 644-651). The parser stays in that state exactly when `param * 10 + digit <= INT64_MAX`, and goes back to `MAIN` otherwise. Spec 9 calls the source's two-comparison test "partial". `ParserDigitAcceptedExactly` proves that it is exact for every bound.
- `DumpAccounting` relates `written` to `declared - desc_len` and to the prefix flavour.
- `FieldAligned` says that at every return the bytes consumed since the object began equal the offset the state machine believes it is at.
- `AllReturn` is checked under weak fairness of each thread's steps, including `Lock`. The threads run until they return, and each thread locks at most once, so a waiting thread can be overtaken only finitely often. Strong fairness of the mutex is therefore not needed. `LockFails` has no fairness: an error is never forced.

### Bounds

`rtf_parser` uses these bounds:

- A letter alphabet `{o, d}`, with the keys `<<"o">>` and `<<"d", " ">>`.
- Digits `{1, 9}` with `ParamMax = 11`. Both halves of the overflow test are reached: `19` is rejected by the second comparison and `111` by the first. `11` reaches the bound exactly, which is the case an off-by-one in the test gets wrong.
- `MaxWord = 2`.
- Stack storage starting at 1 and growing by 1, so growth and its failure occur at depth 2.
- Three contexts, under symmetry.
- Nesting depth at most 2.

Together these reach every action: a push of a stored frame over a counted default one, a premature end inside a nested group, and every failure.

`rtf_object` uses these bounds:

- chunk sizes 1 and 3;
- description lengths 0, 2 and 3 (3 is longer than the kept 2);
- payload sizes 0 and 3 (3 lets a write after the OLE10Native prefix happen);
- up to 7 process calls.

`hex_decode` covers all inputs of up to 6 bytes over `{1, a, F, z}` in runs of 1 to 3 bytes. `cert_store` uses three threads.

### Mutants

Every property of a passing run has a mutant: a plausible bug in a mapped definition that TLC then catches. The mutants are:

- a coarser overflow test;
- an overflow test that rejects a parameter equal to the bound;
- a grow test with `>` in place of `>=`;
- a push that does not reset the working frame;
- a cleanup that skips the stored frames;
- a default pop that keeps the callbacks;
- a write of the whole chunk;
- a `decode_and_scan` that does not close the fd;
- a prefix written twice;
- an end that skips the scan;
- a decoder that forgets the stashed nibble;
- an unlock that keeps the mutex.

## Findings

- **Scope gating** (rtf.c 192-195). `pop_state` keeps `encounteredTopLevel` when it discharges a default frame, as spec 4.1 says. Spec 8's own "scope gating" property therefore fails: in `{\object}{\objdata ...}` the extractor is bound.
- **Lost verdicts** (rtf.c 669, 484, 490). The return value of `cb_end` is ignored on a premature end and in cleanup.
- **Stack leak** (rtf.c 529-530). The stack is not freed when `cli_gentemp` fails.
- **`WAIT_ZERO`** (rtf.c 370-372). `out_cnt = 0` happens before `bread += out_cnt`, so bread never advances on a split field.
- **Long descriptions** (rtf.c 358-366). A `desc_len > 64` never reaches `WAIT_ZERO`.
- **`CL_EUNLINK` masks VIRUS** (rtf.c 255).
- **fd 0** (rtf.c 245-251, 449). An fd of 0 is treated as "no file".
- **Mutex error ignored** (cert_util_linux.c 48-52). A failed `pthread_mutex_lock` is ignored.

## Proofs

`RtfObjectProofs` proves the following for every value of the constants:

- `ObjectTypeCorrect`: `TypeOK`;
- `ObjectResourceDiscipline`: `ResourceDiscipline`;
- `ObjectDumpAccounting`: `DumpAccounting`;
- `ObjectNoLeakAfterEnd`: `NoLeakAfterEnd`.

The one hypothesis is that `cli_gentempfd` returns descriptors > 0; `object_fd_zero` shows why it is needed. None of the four is inductive alone. The inductive invariant is `IInv`, the four properties together with `FieldBounds`, which states:

- `bread` stays below each field's width in its state;
- in `DUMP_DATA`, `bread ∈ {0, 1, 2}`, and `bread = 0` implies nothing has been written yet (`desc_len = declared`);
- `DUMP_DISCARD` is never reached.

Without `FieldBounds`, the counts `MagicLen - bread` and `desc_len - DescRead` are not known to be natural numbers. The accounting then cannot be carried through a step.

`NextIInv` has one step per action, and under each one step per conjunct. `DescFacts` collects the arithmetic of the `WAIT_DESC` copy loop. `TypeOK` is split into `FlagsOK` (the booleans, proved by Zenon) and `DataOK` (the numbers, proved by SMT).

`CertStoreProofs` proves `CertLoadedOnce`: for any set of threads, if the lock cannot fail, `Spec => []LoadedOnce`. Its invariant states four things:

- the mutex is held exactly by the thread in its critical section;
- `inside` is the set of threads past the check;
- `loaded` is unset while a thread initialises;
- nothing has been installed before the one initialiser's `Trust`.

`CertStoreProofs` also proves `CertLoadAtomic`: if the lock cannot fail, `Spec => CertLoadRefinement`. So `cert_store_load` is linearizable.

- **Abstract specification.** In `CertLoad` a pending call takes effect in one step. `NoStore` returns `CL_EOPEN`; it is allowed only when `GetMayFail` holds. `Load` returns `CL_SUCCESS` and sets `loaded`. It installs the trusted certificates only if the store was not loaded and `HaveTrusted` holds.
- **Mapping** (in `CertStoreRefinement`):
  - a call is pending until its check of `store->loaded` or its failed `cert_store_get_int`;
  - a thread between its check and its `Mark` already counts as having succeeded and loaded the store;
  - one at `reset` or `trust` counts the installation it is about to make.
- **Step correspondence.** The check is the linearization point and maps to `Load`. A failed get maps to `NoStore`. Every other step is a stutter (`StepRefines`).
- **Invariants used.** `IInv` shows that the thread at its check is alone in the critical section, so the store it sees is the abstract one. The small invariant `TrustInv` says a thread at `trust` implies `HaveTrusted`.
- **When the lock may fail.** The refinement fails: two threads can both check before either marks. The `cert_store_lock_fails` trace shows this.
- **No run.** No run checks `CertLoadRefinement`. The project already has its twelve runs, and the property is proved for every set of threads.

`RtfParserProofs` proves three theorems for every value of the constants, on every input and with every host failure:

- `ParserTypeOK`: `Spec => []TypeOK`;
- `ParserContextOwnership`: `Spec => []ContextOwnership`;
- `ParserNoLeakAtReturn`: `Spec => []NoLeakAtReturn`.

These are the invariants of the `rtf_parser` run. None of them is inductive alone. The inductive invariant `IInv` adds three conjuncts:

- `FrameOK` holds for the working frame and for every stored frame. `cb_begin` and `cb_end` are set together (`rtf_action` sets both, and the premature end clears both). A frame holds a context only while its `cb_end` is set. Without this, `Finish` could leave a context that `cleanup_stack` does not end.
- `StartClean`: before parsing starts, nothing is allocated and the temp directory does not exist. The early returns of the start-up code need this.
- `ParseOK`: in `CONTROL_WORD_PARAM` the parameter is not negative, and every stored frame was saved in `MAIN`. The overflow test only bounds a value that is not negative. A pop puts a stored frame's parse state back.

`NextIInv` has one lemma per action. Most lemmas rest on shared ones:

- `GotoStep` covers the 16 steps of the control-word machine, which change only the parse state and the control-word variables.
- `PopStateOK` shows, in its three cases, that `pop_state` keeps the frames well formed and distinct and gives back the contexts the stored frames held.
- `CleanupIInv` shows that `SCAN_CLEANUP` restores the invariant whenever every live context it is given is one it ends. `LiveCovered` supplies that premise for `Finish` and the failure paths. The failure paths whose callback freed the context first (`PopGroupEndFails`, `TextProcessFails`) supply it directly.

`RtfParserBounds` builds on `ParserInvariant` and proves two more theorems:

- `ParserDigitAcceptedExactly`: `Spec => DigitAcceptedExactly`. Its core is the arithmetic lemma `OverflowTestExact`: for natural `M`, `x` and a digit `d`, `x > M \div 10 \/ x * 10 > M - d` holds exactly when `x * 10 + d > M`. `DigitActions` shows that only `ParamDigit` and `ParamOverflow` can take a digit in `CONTROL_WORD_PARAM`. `IInv`'s `ParseOK` supplies `param >= 0`.
- `ParserStorageBound`: `Spec => []StorageBound`. The inductive invariant `StorageInv` adds that nothing is stored before start-up. `Start` can then set `stack_size` without a frame already stored. `StorageKinds` sorts the other steps into those that keep the storage and those that drop it through `SCAN_CLEANUP`.

`Space`, `LBrace` and `RBrace` name the strings `" "`, `"{"` and `"}"`. The proofs leave them unexpanded, because the SMT backend of tlapm 1.4.5 fails on those string literals.

`RtfParserRefinementProofs` proves `ParserRefinesGroupStack`: `Spec => GroupStackRefinement`, the property the `rtf_parser` run checks. The proof has three parts.

- **The mapping's recursion.** `StoredFix` gets the recursion equation of `StoredFrames` from the library's `NatInductiveDef`. `StoredType` shows by induction on the depth that every value is a sequence of bindings. The induction is a least-counterexample argument: `LeastNat` (in `InductionLemmas`) gives a least element of every non-empty set of naturals, from `WFMin` and `NatLessThanWellFounded`. The library's induction rules take an operator parameter, which the provers cannot instantiate, so they are not used. From these, `LogicalDefault` shows that a counted `{` appends a default binding. `LogicalTop` shows that, with no default counted, the top logical frame is the binding of the top stored frame above the logical stack of the frames below it.
- **One lemma per kind of step.** `PushDefaultMaps` and `PushFrameMaps` show that both branches of `push_state` are a `Push`. `PopGroupMaps` shows, in `pop_state`'s three cases, that a `}` is a `Pop`. `KeptSteps` and `MapUpdate` show that every step that keeps the stored frames and the default count is an `Update`. `DiscardSteps` and `MapDiscard` show that the start-up failures and every `SCAN_CLEANUP` are a `Discard`.
- **The invariants used.** `RefinementStep` needs `IInv` for the types, and `StorageInv` for an empty stack before start-up. It also needs `StartBase`: before start-up the working frame is `base_state`. `NoRestart` shows that no step returns to the start phase, which makes `StartBase` inductive.

`HexDecodeProofs` proves `HexRoundTrip`: `Spec => []RoundTrip`, the invariant of the `hex_decode` run. It holds for every set of input bytes, every `ChunkMax` and every `MaxLen`, and for every way of cutting the text into runs.

- **Inductive invariant.** `RoundTrip` is not inductive: it speaks of `fed` as a whole, while a step decodes one run from the stashed nibble. `HexInv` says instead that `<<out, has_partial, partial>>` is the automaton run from scratch over everything fed.
- **Preservation.** `DecodeConcat` shows that decoding `s` and then `t` is decoding `s \o t`. `DecodePrefix` shows that decoding with bytes already in `outdata` appends to them. Together they show that every `Process` step preserves `HexInv` (`HexStep`).
- **From `HexInv` to `RoundTrip`.** `DecodeAbs` proves, by induction on the input, that the automaton's state from scratch is `Abs(HexOnly(s))`: the hex digits paired, and a nibble pending exactly when their number is odd. Its step is `AbsStep`, the parity argument on one more digit.
- **The inductions.** The equations of `Scan` and `HexF` come from `NatInductiveDef`. The inductions use `AppendInduction` from `InductionLemmas`: a set that holds `<<>>` and is closed under `Append` holds every sequence. It is stated over a set, so the provers can instantiate it.

Some checks stay with TLC only:

- **Liveness.** `AllReturn` needs liveness under fairness, which is out of TLAPS's reach.
- **The loops as written.** `HexDecodeProofs` proves `RoundTrip` for the byte automaton. That the automaton computes what the loop-structured `LoopRun` computes is checked by TLC only, on inputs up to `ChunkMax` bytes, because `LoopRun` is `RECURSIVE`.

## Not modelled

- **Logging and byte values.** Magic-mismatch logging, the message texts and the contents of the description and payload are not modelled; no property depends on them.
- **`stack.elements` and `stack.warned`.** They are written but never read, except to log once.
- **Functions outside this tree.** `tableCreate`, `tableInsert` and `tableFind` (table.c), `cert_store_get_int` and `cert_store_set_trusted_int` are not in this tree. They appear only through their results.
- **Downstream scanners.** `cli_scan_ole10` and `cli_magic_scandesc` are a nondeterministic verdict.
- **fmap.** It appears only as the byte sequence and its end.
