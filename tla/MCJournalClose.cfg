SPECIFICATION JournalSpec
CONSTANTS
    ic1 = ic1
    ic2 = ic2
    e1 = e1
    x1 = x1
    Entries = {e1, e2}
    Ours = {e1, e2}
    Closes = {x1, x2}
    Condors = {ic1, ic2}
    LegsInUse <- MCLegs
    Polls = {l1}
    OwnerAudit = TRUE
    MaxLosses = 1
    NoClose = NoClose
INVARIANTS ClosedByOwnClose
CHECK_DEADLOCK FALSE
