-------------------------- MODULE CertStoreProofs ---------------------------
(***************************************************************************)
(* Proofs about cert_store_load (CertStore) for any set of threads.       *)
(***************************************************************************)
EXTENDS CertStoreRefinement, TLAPS

\* The labels between a successful pthread_mutex_lock and the unlock.
Critical == {"check", "reset", "trust", "mark", "unlock"}

CertTypeOK ==
    /\ pc \in [Threads -> Labels]
    /\ ret \in [Threads -> {CL_SUCCESS, CL_EOPEN}]
    /\ holder \in Threads \cup {NONE}
    /\ loaded \in BOOLEAN
    /\ trustSets \in {0, 1}
    /\ inside \subseteq Threads

(***************************************************************************)
(* The inductive invariant behind LoadedOnce when the lock cannot fail:   *)
(* the mutex is held exactly by the thread in its critical section, the   *)
(* history `inside` is the set of threads past their check of loaded, and *)
(* nothing has been installed and loaded is unset while a thread is still *)
(* initialising.                                                           *)
(***************************************************************************)
IInv ==
    /\ CertTypeOK
    /\ \A t \in Threads : pc[t] \in Critical => holder = t
    /\ holder # NONE => pc[holder] \in Critical
    /\ inside = {t \in Threads : pc[t] \in {"reset", "trust", "mark", "unlock"}}
    /\ \A t \in Threads : pc[t] \in {"reset", "trust", "mark"} => ~loaded
    /\ \A t \in Threads : pc[t] \in {"reset", "trust"} => trustSets = 0
    /\ (~loaded /\ \A t \in Threads : pc[t] # "mark") => trustSets = 0

LEMMA InitIInv == Init => IInv
BY CertAssumption DEF Init, IInv, CertTypeOK, Labels, Critical

LEMMA NextIInv ==
    ASSUME ~LockMayFail
    PROVE  IInv /\ [Next]_vars => IInv'
<1> SUFFICES ASSUME IInv, [Next]_vars PROVE IInv'
    OBVIOUS
<1>0. NONE \notin Threads
    BY CertAssumption
<1>1. ASSUME NEW t \in Threads, Get(t) PROVE IInv'
    BY <1>0, <1>1 DEF IInv, CertTypeOK, Get, Labels, Critical
<1>2. ASSUME NEW t \in Threads, Lock(t) PROVE IInv'
    BY <1>0, <1>2 DEF IInv, CertTypeOK, Lock, Labels, Critical
<1>3. ASSUME NEW t \in Threads, LockFails(t) PROVE IInv'
    BY <1>3 DEF LockFails
<1>4. ASSUME NEW t \in Threads, Check(t) PROVE IInv'
    BY <1>0, <1>4 DEF IInv, CertTypeOK, Check, Labels, Critical
<1>5. ASSUME NEW t \in Threads, Reset(t) PROVE IInv'
    BY <1>0, <1>5 DEF IInv, CertTypeOK, Reset, Labels, Critical
<1>6. ASSUME NEW t \in Threads, Trust(t) PROVE IInv'
    BY <1>0, <1>6 DEF IInv, CertTypeOK, Trust, Labels, Critical
<1>7. ASSUME NEW t \in Threads, Mark(t) PROVE IInv'
    BY <1>0, <1>7 DEF IInv, CertTypeOK, Mark, Labels, Critical
<1>8. ASSUME NEW t \in Threads, Unlock(t) PROVE IInv'
    BY <1>0, <1>8 DEF IInv, CertTypeOK, Unlock, Labels, Critical
<1>9. CASE UNCHANGED vars
    BY <1>9 DEF IInv, CertTypeOK, vars
<1>10. QED
    BY <1>1, <1>2, <1>3, <1>4, <1>5, <1>6, <1>7, <1>8, <1>9 DEF Next

LEMMA IInvLoadedOnce == IInv => LoadedOnce
BY DEF IInv, CertTypeOK, LoadedOnce, Critical

(***************************************************************************)
(* When pthread_mutex_lock never fails, cert_store_load initialises the    *)
(* shared store at most once whatever the number of threads and however    *)
(* they interleave: cert_store_set_trusted_int runs at most once, and no   *)
(* thread is initialising while another has passed its check of loaded.    *)
(***************************************************************************)
THEOREM CertLoadedOnce ==
    ASSUME ~LockMayFail
    PROVE  Spec => []LoadedOnce
<1>1. Init => IInv
    BY InitIInv
<1>2. IInv /\ [Next]_vars => IInv'
    BY NextIInv
<1>3. IInv => LoadedOnce
    BY IInvLoadedOnce
<1>4. QED
    BY <1>1, <1>2, <1>3, PTL DEF Spec
-----------------------------------------------------------------------------
(***************************************************************************)
(* A thread installs trusted certificates only when there are some: the    *)
(* branch of cert_store_load on trusted_certs is taken only when they are  *)
(* given.                                                                  *)
(***************************************************************************)
TrustInv == \A t \in Threads : pc[t] = "trust" => HaveTrusted

LEMMA InitTrustInv == Init => TrustInv
BY DEF Init, TrustInv

LEMMA NextTrustInv == IInv /\ TrustInv /\ [Next]_vars => TrustInv'
<1> SUFFICES ASSUME IInv, TrustInv, [Next]_vars PROVE TrustInv'
    OBVIOUS
<1>1. ASSUME NEW t \in Threads, Reset(t) PROVE TrustInv'
    BY <1>1 DEF TrustInv, IInv, CertTypeOK, Reset
<1>2. ASSUME NEW t \in Threads, Get(t) PROVE TrustInv'
    BY <1>2 DEF TrustInv, IInv, CertTypeOK, Get
<1>3. ASSUME NEW t \in Threads, Lock(t) \/ LockFails(t) PROVE TrustInv'
    BY <1>3 DEF TrustInv, IInv, CertTypeOK, Lock, LockFails
<1>4. ASSUME NEW t \in Threads, Check(t) PROVE TrustInv'
    BY <1>4 DEF TrustInv, IInv, CertTypeOK, Check
<1>5. ASSUME NEW t \in Threads, Trust(t) \/ Mark(t) PROVE TrustInv'
    BY <1>5 DEF TrustInv, IInv, CertTypeOK, Trust, Mark
<1>6. ASSUME NEW t \in Threads, Unlock(t) PROVE TrustInv'
    BY <1>6 DEF TrustInv, IInv, CertTypeOK, Unlock
<1>7. CASE UNCHANGED vars
    BY <1>7 DEF TrustInv, vars
<1>8. QED
    BY <1>1, <1>2, <1>3, <1>4, <1>5, <1>6, <1>7 DEF Next

LEMMA InitRefines == Init => Atomic!Init
BY DEF Init, Atomic!Init, CallStatus, CallResult, StoreLoaded, TrustCount,
       Initialising, CL_EOPEN

(***************************************************************************)
(* Every step of cert_store_load is a step of the atomic load or leaves    *)
(* its image unchanged: a failed cert_store_get_int is NoStore, the check  *)
(* of store->loaded under the mutex is Load, and every other step is a     *)
(* stutter.  It takes IInv, so that the thread at its check is the only    *)
(* one in the critical section.                                            *)
(***************************************************************************)
LEMMA StepRefines ==
    ASSUME ~LockMayFail
    PROVE  IInv /\ TrustInv /\ [Next]_vars => [Atomic!Next]_Atomic!vars
<1> SUFFICES ASSUME IInv, TrustInv, [Next]_vars
             PROVE  [Atomic!Next]_Atomic!vars
    OBVIOUS
<1> USE DEF Atomic!vars
<1>0. NONE \notin Threads
    BY CertAssumption
<1>1. ASSUME NEW t \in Threads, Get(t) PROVE [Atomic!Next]_Atomic!vars
    <2>1. CASE pc' = [pc EXCEPT ![t] = "done"]
        <3>1. GetMayFail
            BY <1>1, <2>1 DEF Get, IInv, CertTypeOK
        <3>2. Atomic!NoStore(t)
            BY <1>1, <2>1, <3>1 DEF Get, IInv, CertTypeOK, Labels, Atomic!NoStore,
                CallStatus, CallResult, StoreLoaded, TrustCount, Initialising
        <3>3. QED
            BY <3>2 DEF Atomic!Next
    <2>2. CASE pc' = [pc EXCEPT ![t] = "lock"]
        BY <1>1, <2>2 DEF Get, IInv, CertTypeOK, Labels,
            CallStatus, CallResult, StoreLoaded, TrustCount, Initialising
    <2>3. QED
        BY <1>1, <2>1, <2>2 DEF Get
<1>2. ASSUME NEW t \in Threads, Lock(t) PROVE [Atomic!Next]_Atomic!vars
    BY <1>2 DEF Lock, IInv, CertTypeOK, Labels,
        CallStatus, CallResult, StoreLoaded, TrustCount, Initialising
<1>3. ASSUME NEW t \in Threads, LockFails(t) PROVE [Atomic!Next]_Atomic!vars
    BY <1>3 DEF LockFails
<1>4. ASSUME NEW t \in Threads, Check(t) PROVE [Atomic!Next]_Atomic!vars
    <2>1. \A u \in Threads : u # t => pc[u] \notin Critical
        BY <1>0, <1>4 DEF Check, IInv, Critical
    <2>2. CallStatus[t] = "pending"
        BY <1>4 DEF Check, CallStatus
    <2>6. Initialising = {}
        BY <1>4, <2>1 DEF Check, Initialising, Critical
    <2>5. loaded \in BOOLEAN /\ HaveTrusted \in BOOLEAN
        BY CertAssumption DEF IInv, CertTypeOK
    <2>7. StoreLoaded = loaded
        BY <2>5, <2>6 DEF StoreLoaded
    <2>10. ~\E u \in Threads : pc[u] \in {"reset", "trust"}
        BY <1>4, <2>1 DEF Check, Critical
    <2>8. TrustCount = trustSets
        BY <2>10 DEF TrustCount, IInv, CertTypeOK
    <2>3. CASE loaded
        <3>1. /\ \A u \in Threads : pc'[u] = IF u = t THEN "unlock" ELSE pc[u]
              /\ \A u \in Threads : ret'[u] = IF u = t THEN CL_SUCCESS ELSE ret[u]
            BY <1>4, <2>3 DEF Check, IInv, CertTypeOK
        <3>2. CallStatus' = [CallStatus EXCEPT ![t] = "returned"]
            BY <3>1 DEF CallStatus
        <3>3. CallResult' = [CallResult EXCEPT ![t] = "CL_SUCCESS"]
            BY <3>1 DEF CallResult, Initialising, CL_SUCCESS
        <3>4. StoreLoaded' = TRUE
            BY <1>4, <2>3 DEF Check, StoreLoaded
        <3>7. ~\E u \in Threads : pc'[u] \in {"reset", "trust"}
            BY <2>1, <3>1 DEF Critical
        <3>8. TrustCount' = trustSets
            BY <1>4, <3>7 DEF Check, TrustCount, IInv, CertTypeOK
        <3>5. Atomic!Load(t)
            BY <2>2, <2>3, <2>5, <2>7, <2>8, <3>2, <3>3, <3>4, <3>8, Zenon
            DEF Atomic!Load
        <3>6. QED
            BY <3>5 DEF Atomic!Next
    <2>4. CASE ~loaded
        <3>1. /\ \A u \in Threads : pc'[u] = IF u = t THEN "reset" ELSE pc[u]
              /\ ret' = ret
            BY <1>4, <2>4 DEF Check, IInv, CertTypeOK
        <3>2. CallStatus' = [CallStatus EXCEPT ![t] = "returned"]
            BY <3>1 DEF CallStatus
        <3>3. CallResult' = [CallResult EXCEPT ![t] = "CL_SUCCESS"]
            BY <3>1 DEF CallResult, Initialising, CL_SUCCESS
        <3>4. StoreLoaded' = TRUE
            BY <3>1 DEF StoreLoaded, Initialising
        <3>8. \E u \in Threads : pc'[u] \in {"reset", "trust"}
            BY <3>1
        <3>5. TrustCount' = IF HaveTrusted THEN trustSets + 1 ELSE trustSets
            BY <1>4, <2>5, <3>8 DEF Check, TrustCount, IInv, CertTypeOK
        <3>6. Atomic!Load(t)
            BY <2>2, <2>4, <2>5, <2>7, <2>8, <3>2, <3>3, <3>4, <3>5, Zenon DEF Atomic!Load
        <3>7. QED
            BY <3>6 DEF Atomic!Next
    <2>9. QED
        BY <2>3, <2>4
<1>5. ASSUME NEW t \in Threads, Reset(t) PROVE [Atomic!Next]_Atomic!vars
    BY <1>5 DEF Reset, IInv, CertTypeOK, Labels,
        CallStatus, CallResult, StoreLoaded, TrustCount, Initialising
<1>6. ASSUME NEW t \in Threads, Trust(t) PROVE [Atomic!Next]_Atomic!vars
    <2>1. \A u \in Threads : u # t => pc[u] \notin Critical
        BY <1>0, <1>6 DEF Trust, IInv, Critical
    <2>2. HaveTrusted /\ trustSets = 0
        BY <1>6 DEF Trust, TrustInv, IInv
    <2>3. QED
        BY <1>6, <2>1, <2>2 DEF Trust, IInv, CertTypeOK, Labels, Critical,
            CallStatus, CallResult, StoreLoaded, TrustCount, Initialising
<1>7. ASSUME NEW t \in Threads, Mark(t) PROVE [Atomic!Next]_Atomic!vars
    BY <1>7 DEF Mark, IInv, CertTypeOK, Labels,
        CallStatus, CallResult, StoreLoaded, TrustCount, Initialising
<1>8. ASSUME NEW t \in Threads, Unlock(t) PROVE [Atomic!Next]_Atomic!vars
    BY <1>8 DEF Unlock, IInv, CertTypeOK, Labels,
        CallStatus, CallResult, StoreLoaded, TrustCount, Initialising
<1>9. CASE UNCHANGED vars
    BY <1>9 DEF vars, CallStatus, CallResult, StoreLoaded, TrustCount,
        Initialising
<1>10. QED
    BY <1>1, <1>2, <1>3, <1>4, <1>5, <1>6, <1>7, <1>8, <1>9 DEF Next

(***************************************************************************)
(* When pthread_mutex_lock never fails, cert_store_load is atomic: every   *)
(* behaviour of the threads is, under the mapping of CertStoreRefinement,  *)
(* one of the atomic CertLoad, in which each call takes effect at one      *)
(* instant, fails only for want of a store, and installs the trusted       *)
(* certificates only if it finds the store not loaded.                     *)
(***************************************************************************)
THEOREM CertLoadAtomic ==
    ASSUME ~LockMayFail
    PROVE  Spec => CertLoadRefinement
<1>1. Spec => [](IInv /\ TrustInv)
    BY InitIInv, NextIInv, InitTrustInv, NextTrustInv, PTL DEF Spec
<1>2. QED
    BY <1>1, InitRefines, StepRefines, PTL DEF Spec, CertLoadRefinement, Atomic!Spec
====
