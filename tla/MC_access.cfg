\* Two requests at a time on the documents of two users.
SPECIFICATION Spec
CONSTANTS
    None = None
    Ids = {u1, u2}
    e1 = e1
    e2 = e2
    p1 = p1
    Emails = {e1, e2}
    Passwords = {p1}
    UserBodies <- SentBodies
    Devices = {web}
    Requests = {r1, r2}
    MaxInputs = 3
    Workers = {w1, w2}
    MaxMails = 1
INVARIANTS TypeOK NumbersDiffer
PROPERTIES ChangesOnlyItsOwn EndedIsTold
CHECK_DEADLOCK FALSE
