SPECIFICATION FairSpec
CONSTANTS
    Users = {u1, u2}
    Slots = {s1}
    Mails = {m1}
    Kinds = {"due", "assigned", "unassigned", "moved"}
    Attempts = 3
    Stalls = 1
    None = None
CHECK_DEADLOCK FALSE
INVARIANTS TypeOK RemindersCounted 
PROPERTY QueuesDrain
