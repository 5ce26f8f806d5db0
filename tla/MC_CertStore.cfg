\* Three threads whose pthread_mutex_lock may fail: whatever a failed lock
\* and the unlock that follows it do to the mutex, every thread returns.
CONSTANTS
    Threads = {t1, t2, t3}
    NONE = NONE
    GetMayFail = TRUE
    LockMayFail = TRUE
    HaveTrusted = TRUE
SPECIFICATION Spec
PROPERTY AllReturn
CHECK_DEADLOCK FALSE
