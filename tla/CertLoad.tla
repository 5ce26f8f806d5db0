------------------------------ MODULE CertLoad -------------------------------
(***************************************************************************)
(* What cert_store_load promises the threads that call it: each call takes *)
(* effect in one step.  A call either finds no store (CL_EOPEN) or returns *)
(* CL_SUCCESS with the store loaded, and only a call that finds the store  *)
(* not yet loaded installs the trusted certificates.                       *)
(***************************************************************************)
EXTENDS Naturals

CONSTANTS
    Threads,       \* the threads that call cert_store_load
    GetMayFail,    \* the store may be missing
    HaveTrusted    \* there are trusted certificates to install

VARIABLES
    status,        \* status[t]: "pending" until t's call has taken effect
    result,        \* result[t]: what t's call returns
    loaded,        \* the store is loaded
    trustSets      \* installations of the trusted certificates

vars == <<status, result, loaded, trustSets>>

Init ==
    /\ status = [t \in Threads |-> "pending"]
    /\ result = [t \in Threads |-> "CL_EOPEN"]
    /\ loaded = FALSE /\ trustSets = 0

\* The call finds no store and returns CL_EOPEN.
NoStore(t) ==
    /\ status[t] = "pending" /\ GetMayFail
    /\ status' = [status EXCEPT ![t] = "returned"]
    /\ UNCHANGED <<result, loaded, trustSets>>

\* The call loads the store unless it is loaded, and succeeds.
Load(t) ==
    /\ status[t] = "pending"
    /\ status' = [status EXCEPT ![t] = "returned"]
    /\ result' = [result EXCEPT ![t] = "CL_SUCCESS"]
    /\ loaded' = TRUE
    /\ trustSets' = IF ~loaded /\ HaveTrusted THEN trustSets + 1 ELSE trustSets

Next == \E t \in Threads : NoStore(t) \/ Load(t)

Spec == Init /\ [][Next]_vars
=============================================================================
