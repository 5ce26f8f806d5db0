------------------------- MODULE CertStoreRefinement -------------------------
(***************************************************************************)
(* cert_store_load as an atomic load (CertLoad).  A call takes effect at   *)
(* its check of store->loaded under the mutex, or when it finds no store.  *)
(* From the check on, a thread that found the store unloaded is counted as *)
(* having loaded it and installed the trusted certificates, and its call   *)
(* as having succeeded.                                                    *)
(***************************************************************************)
EXTENDS CertStore

\* The threads initialising the store, between their check and their mark.
Initialising == {t \in Threads : pc[t] \in {"reset", "trust", "mark"}}

CallStatus ==
    [t \in Threads |-> IF pc[t] \in {"get", "lock", "check"} THEN "pending" ELSE "returned"]
CallResult == [t \in Threads |-> IF t \in Initialising THEN CL_SUCCESS ELSE ret[t]]
StoreLoaded == loaded \/ Initialising # {}
TrustCount ==
    trustSets + (IF HaveTrusted /\ \E t \in Threads : pc[t] \in {"reset", "trust"}
                 THEN 1 ELSE 0)

Atomic == INSTANCE CertLoad WITH status <- CallStatus, result <- CallResult,
                                 loaded <- StoreLoaded, trustSets <- TrustCount

(***************************************************************************)
(* cert_store_load is atomic: however the threads interleave on the store, *)
(* the calls behave as if each ran alone at one instant, so the store is   *)
(* loaded, and the trusted certificates installed, once.                   *)
(***************************************************************************)
CertLoadRefinement == Atomic!Spec
=============================================================================
