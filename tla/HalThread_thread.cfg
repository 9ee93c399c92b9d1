\* Two threads, a reentrant funct and one that is not.  Functs are added and removed
\* at any time.
SPECIFICATION FairSpec
CONSTANTS
    Threads = {servo, base}
    Functs = {sum, step}
    Entries = {e1, e2}
    Reentrant = {sum}
    UsesFP = {servo, sum}
    Periods = {1}
    PrioHighest = 4
    PrioLowest = 1
    MaxPosition = 2
    Callers = "any"
    Free = Free
    None = None
INVARIANTS TypeOK UsersRight ListsSound NoReentry OlderNotBelow
PROPERTIES WalkKept  EachFunctRuns
