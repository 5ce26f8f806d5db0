\* Two threads whose pthread_mutex_lock may fail: a failed lock is only
\* logged, so both threads can initialise the store.
CONSTANTS
    Threads = {t1, t2}
    NONE = NONE
    GetMayFail = FALSE
    LockMayFail = TRUE
    HaveTrusted = TRUE
SPECIFICATION Spec
INVARIANT LoadedOnce
CHECK_DEADLOCK FALSE
