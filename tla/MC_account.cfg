\* A request at a time beside both crons; a user who is his own partner stands for a chain of them.
SPECIFICATION FairSpec
CONSTANTS
    None = None
    trial = trial
    year = year
    Users = {u1}
    Requests = {r1}
    Renewer = Renewer
    Stopper = Stopper
    Products = {trial, year}
    Trials = {trial}
    DefaultProduct = year
    Cost <- Costs
    Value <- Values
    Sums <- Amounts
    Fields = {"bonus", "days"}
    Dollar = 8
    Window = 0
    MaxRequests = 3
    MaxNow = 2
INVARIANTS TypeOK BooksBalance TrialOnce NeverOverdrawn
PROPERTIES ExpiredIsStopped RenewalHappens
