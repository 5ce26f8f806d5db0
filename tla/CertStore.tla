----------------------------- MODULE CertStore ------------------------------
(***************************************************************************)
(* cert_store_load of shared/linux/cert_util_linux.c, called concurrently *)
(* by several threads on the one process-wide cert store.  Each thread    *)
(* gets the store, locks its mutex, and unless the store is loaded resets *)
(* the system certificates, installs the trusted certificates and marks   *)
(* the store loaded; then it unlocks.  A failed pthread_mutex_lock is     *)
(* only logged: the thread goes on without the lock and unlocks anyway.   *)
(* cert_store_get_int and cert_store_set_trusted_int are not in this      *)
(* source tree: they are a step that may fail, and a write of the store.  *)
(***************************************************************************)
EXTENDS Naturals, FiniteSets

CONSTANTS
    Threads,       \* the threads that call cert_store_load
    NONE,          \* no thread holds the mutex
    GetMayFail,    \* cert_store_get_int may return NULL
    LockMayFail,   \* pthread_mutex_lock may return an error
    HaveTrusted    \* trusted_certs != NULL && trusted_cert_count > 0

ASSUME CertAssumption ==
    /\ IsFiniteSet(Threads) /\ NONE \notin Threads
    /\ GetMayFail \in BOOLEAN /\ LockMayFail \in BOOLEAN
    /\ HaveTrusted \in BOOLEAN

CL_SUCCESS == "CL_SUCCESS"
CL_EOPEN == "CL_EOPEN"

\* The labels of cert_store_load a thread can be at.
Labels == {"get", "lock", "check", "reset", "trust", "mark", "unlock", "done"}

VARIABLES
    pc,          \* pc[t]: where thread t is in cert_store_load
    ret,         \* ret[t]: thread t's local ret
    holder,      \* the thread that holds store->mutex, or NONE
    loaded,      \* store->loaded
    trustSets,   \* calls of cert_store_set_trusted_int so far
    inside       \* history: threads between their check of loaded and their unlock

vars == <<pc, ret, holder, loaded, trustSets, inside>>

Init ==
    /\ pc = [t \in Threads |-> "get"] /\ ret = [t \in Threads |-> CL_EOPEN]
    /\ holder = NONE /\ loaded = FALSE /\ trustSets = 0 /\ inside = {}

\* store = cert_store_get_int(); a NULL store breaks out and skips the unlock.
Get(t) ==
    /\ pc[t] = "get"
    /\ \/ pc' = [pc EXCEPT ![t] = "lock"]
       \/ GetMayFail /\ pc' = [pc EXCEPT ![t] = "done"]
    /\ UNCHANGED <<ret, holder, loaded, trustSets, inside>>

\* A lock that does not wait for the holder to release the mutex.
LockNoWait(t) ==
    /\ pc[t] = "lock"
    /\ holder' = t /\ pc' = [pc EXCEPT ![t] = "check"]
    /\ UNCHANGED <<ret, loaded, trustSets, inside>>

\* pthread_mutex_lock blocks while another thread holds the mutex.
Lock(t) ==
    /\ pc[t] = "lock" /\ holder = NONE
    /\ holder' = t /\ pc' = [pc EXCEPT ![t] = "check"]
    /\ UNCHANGED <<ret, loaded, trustSets, inside>>

\* pthread_mutex_lock returns an error: logged, and the thread goes on.
LockFails(t) ==
    /\ pc[t] = "lock" /\ LockMayFail
    /\ pc' = [pc EXCEPT ![t] = "check"]
    /\ UNCHANGED <<ret, holder, loaded, trustSets, inside>>

\* if (store->loaded) { ret = 0; break; }
Check(t) ==
    /\ pc[t] = "check"
    /\ inside' = inside \cup {t}
    /\ IF loaded
       THEN pc' = [pc EXCEPT ![t] = "unlock"] /\ ret' = [ret EXCEPT ![t] = CL_SUCCESS]
       ELSE pc' = [pc EXCEPT ![t] = "reset"] /\ UNCHANGED ret
    /\ UNCHANGED <<holder, loaded, trustSets>>

\* store->system_certs.count = 0; .certificates = NULL.
Reset(t) ==
    /\ pc[t] = "reset"
    /\ pc' = [pc EXCEPT ![t] = IF HaveTrusted THEN "trust" ELSE "mark"]
    /\ UNCHANGED <<ret, holder, loaded, trustSets, inside>>

\* cert_store_set_trusted_int: on success or failure alike (only the log
\* differs) the thread goes on to mark the store loaded.
Trust(t) ==
    /\ pc[t] = "trust"
    /\ trustSets' = trustSets + 1
    /\ pc' = [pc EXCEPT ![t] = "mark"]
    /\ UNCHANGED <<ret, holder, loaded, inside>>

\* store->loaded = true; ret = 0.
Mark(t) ==
    /\ pc[t] = "mark"
    /\ loaded' = TRUE /\ ret' = [ret EXCEPT ![t] = CL_SUCCESS]
    /\ pc' = [pc EXCEPT ![t] = "unlock"]
    /\ UNCHANGED <<holder, trustSets, inside>>

\* An unlock that leaves the mutex held by its owner.
UnlockKeeps(t) ==
    /\ pc[t] = "unlock"
    /\ holder' = holder
    /\ pc' = [pc EXCEPT ![t] = "done"] /\ inside' = inside \ {t}
    /\ UNCHANGED <<ret, loaded, trustSets>>

(***************************************************************************)
(* pthread_mutex_unlock.  By a thread that does not hold the mutex (its   *)
(* lock failed) it is undefined for a default mutex: the mutex may be     *)
(* released from under its holder, or the call may fail and change        *)
(* nothing.                                                                *)
(***************************************************************************)
Unlock(t) ==
    /\ pc[t] = "unlock"
    /\ \/ holder = t /\ holder' = NONE
       \/ holder # t /\ holder' \in {holder, NONE}
    /\ pc' = [pc EXCEPT ![t] = "done"] /\ inside' = inside \ {t}
    /\ UNCHANGED <<ret, loaded, trustSets>>

Next == \E t \in Threads :
            Get(t) \/ Lock(t) \/ LockFails(t) \/ Check(t) \/ Reset(t)
            \/ Trust(t) \/ Mark(t) \/ Unlock(t)

\* Each thread keeps running (weak fairness of each of its steps).  No
\* fairness of the mutex is assumed: each thread locks it at most once, so
\* a waiting thread can be overtaken only finitely often.  A failing lock
\* is never forced: LockFails has no fairness.
Fairness == \A t \in Threads :
               WF_vars(Get(t) \/ Lock(t) \/ Check(t) \/ Reset(t)
                       \/ Trust(t) \/ Mark(t) \/ Unlock(t))

Spec == Init /\ [][Next]_vars /\ Fairness

-----------------------------------------------------------------------------
(***************************************************************************)
(* The store is initialised once: however the threads interleave,         *)
(* cert_store_set_trusted_int runs at most once and no thread is still    *)
(* initialising once another has found the store loaded.                   *)
(***************************************************************************)
LoadedOnce ==
    /\ trustSets <= 1
    /\ \A t, u \in Threads :
          pc[t] \in {"reset", "trust", "mark"} /\ u # t => u \notin inside

(***************************************************************************)
(* Every thread returns from cert_store_load: no thread waits for ever on *)
(* store->mutex, even when a thread whose lock failed unlocks it.          *)
(***************************************************************************)
AllReturn == <>(\A t \in Threads : pc[t] = "done")
=============================================================================
