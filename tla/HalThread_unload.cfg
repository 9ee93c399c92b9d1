\* The threads are stopped, and not waited for, before functs are removed.
SPECIFICATION Spec
CONSTANTS
    Threads = {servo, base}
    Functs = {sum, step}
    Entries = {e1, e2, e3, e4}
    Reentrant = {sum}
    UsesFP = {servo, sum}
    Periods = {1}
    PrioHighest = 3
    PrioLowest = 1
    MaxPosition = 3
    Callers = "stopped"
    Free = Free
    None = None
INVARIANT FreedNotCalled
