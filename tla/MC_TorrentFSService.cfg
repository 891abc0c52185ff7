\* The node starts and stops the service once: the monitor goroutine that
\* Start spawned is still running after Stop returned.
SPECIFICATION Spec
CHECK_DEADLOCK FALSE
INVARIANT
    NoGoroutineAfterStop
