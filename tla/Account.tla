------------------------------ MODULE Account ------------------------------
(***************************************************************************)
(* The account of a user: money and subscription in MongoDB, the marks of   *)
(* what was activated and the trading switch in the user document of Redis. *)
(*                                                                          *)
(* Requests of the API and two crons of the trader work on both.  Every     *)
(* one reads a whole document, computes and writes the whole document back; *)
(* nothing keeps two of them apart, and each may die between two calls.     *)
(***************************************************************************)
EXTENDS PaymentDesk, FiniteSets, Functions

CONSTANTS
    None,            \* no user, no copy of a document
    Requests,        \* requests the API may be working on at once
    Renewer,         \* the cron continueUserAccountSubscription
    Stopper,         \* the cron updateTradingStatus
    Products,        \* active products (the ids of PRODUCTS)
    Trials,          \* those that are trials
    DefaultProduct,
    Cost, Value,     \* of a product: money, and time it buys
    Fields,          \* what a correction may name: purses, or the days
    Dollar,          \* one dollar in the unit of Sums
    Window,          \* half an hour before the end the cron renews
    MaxNow           \* bound: the clock stops here

Purses == {"main", "bonus", "referral"}

Coupon == "DISCOUNT_50_PERCENT_REFERRAL"

ASSUME ProductsAssumption ==
    /\ Trials \subseteq Products
    /\ DefaultProduct \in Products \ Trials
    /\ Coupon \notin Products
    /\ Cost \in [Products -> Nat] /\ Value \in [Products -> Nat]
    /\ \A t \in Trials : Cost[t] = 0

ASSUME BoundsAssumption ==
    /\ Fields \subseteq Purses \union {"days"}
    /\ Sums \subseteq Int /\ Dollar \in Nat \ {0}
    /\ Window \in Nat /\ MaxRequests \in Nat /\ MaxNow \in Nat \ {0}

ASSUME ActorsAssumption ==
    /\ None \notin Users /\ IsFiniteSet(Requests)
    /\ Renewer \notin Requests /\ Stopper \notin Requests /\ Renewer # Stopper

VARIABLES
    account,         \* collection AccountBalance
    user,            \* hash of users: the fields that matter here
    partner,         \* collection Referrals: who brought the user, or None
    now,             \* Date.now()
    pc,              \* of each actor: the call that comes next
    local,           \* of each actor: its variables
    booked,          \* history: what it should hold, the payments aside
    trials,          \* history: trials the account was extended by
    owing,           \* history: users a correction has left a debt with
    disturbed        \* history: users of whom a copy grew stale or an actor died

vars == <<account, user, partner, now, pc, local, left, booked, trials, owing, disturbed, deskVars>>

Actors == Requests \union {Renewer, Stopper}

Max0(n) == IF n < 0 THEN 0 ELSE n

Min2(a, b) == IF a < b THEN a ELSE b

Total(b) == b.main + b.bonus + b.referral

-----------------------------------------------------------------------------
(* Documents *)

\* An account nobody has written yet; a till of 0 is one that is missing.
NewAccount == [main |-> 0, bonus |-> 0, referral |-> 0, till |-> 0,
               autoRenew |-> FALSE, product |-> DefaultProduct]

\* getAccountBalance(): what is missing is filled in.
Filled(b) == IF b.till = 0 THEN [b EXCEPT !.till = now] ELSE b

\* subscriptionDaysLeft
TimeLeft(b) == Max0(b.till - now)

NewUser == [active |-> FALSE, activated |-> {}, coupon |-> FALSE]

\* getUserProducts(): no trial twice, half the price for those whose partner has the coupon.
Offered(u) == Products \ (Trials \intersect user[u].activated)

Discounted(u) ==
    /\ Coupon \notin user[u].activated
    /\ partner[u] # None
    /\ user[partner[u]].coupon

Price(u, p) == IF Discounted(u) THEN Cost[p] \div 2 ELSE Cost[p]

-----------------------------------------------------------------------------
(* What the operations make of an account.  A request names one purse or    *)
(* the time, and a sum.                                                     *)

Ends(b, till) == [b EXCEPT !.till = till]

\* setUserAccountBalance(): the end is compared with a number of days, so it is always set,
\* to the present when no days are given.  A purse becomes what is asked for, a debt too.
Set(b, field, sum) ==
    IF field = "days" THEN Ends(b, now + Max0(sum)) ELSE Ends([b EXCEPT ![field] = sum], now)

\* changeUserAccountBalance(): a sum of less than nothing is passed over.
Change(b, field, sum) ==
    IF sum < 0 THEN b
    ELSE IF field = "days" THEN Ends(b, now + sum) ELSE [b EXCEPT ![field] = sum]

Add(b, field, sum) ==
    IF field = "days" THEN Ends(b, b.till + sum) ELSE [b EXCEPT ![field] = @ + sum]

\* Mutant: the days are not looked at.
MinusDaysToo(b, field, sum) ==
    LET n == IF field = "days" THEN Ends(b, b.till - sum) ELSE [b EXCEPT ![field] = @ - sum]
    IN  IF \E f \in Purses : n[f] < 0 THEN None ELSE n

\* minusUserAccountBalance(): None when a purse or the time does not suffice; a sum of less
\* than nothing adds.
Minus(b, field, sum) ==
    LET n == IF field = "days" THEN Ends(b, b.till - sum) ELSE [b EXCEPT ![field] = @ - sum]
    IN  IF n.till < now \/ \E f \in Purses : n[f] < 0 THEN None ELSE n

\* Mutant: the remainder is written off, but the sum that was asked for arrives.
TransferAsked(b, sum, writeOff) ==
    LET rest == b.referral - sum IN
    IF rest < (IF writeOff THEN 1 - Dollar ELSE 0) THEN None
    ELSE [b EXCEPT !.referral = IF writeOff /\ rest < Dollar THEN 0 ELSE rest, !.main = @ + sum]

\* transferReferralBalance(): with writeOff a remainder of less than a dollar goes along.
Transfer(b, sum, writeOff) ==
    LET rest == b.referral - sum
        small == rest # 0 /\ -Dollar < rest /\ rest < Dollar
        moved == IF writeOff /\ small THEN b.referral ELSE sum
    IN  IF (rest < 0 /\ ~writeOff) \/ (rest <= -Dollar /\ writeOff) THEN None
        ELSE [b EXCEPT !.referral = @ - moved, !.main = @ + moved]

Reset(b) == [NewAccount EXCEPT !.till = now]

\* changeAutoRenewSubscriptionStatus(): a product that is not offered leaves the old one.
AutoRenew(b, u, status, p) ==
    [b EXCEPT !.autoRenew = status, !.product = IF status /\ p \in Offered(u) THEN p ELSE @]

\* Mutant: the main balance pays what is left, whether it holds it or not.
ChargedUnchecked(b, cost, useReferral) ==
    LET bonus == Min2(Max0(b.bonus), cost) IN [b EXCEPT !.bonus = @ - bonus, !.main = @ - (cost - bonus)]

\* What a purse can pay of a price: nothing when it is in debt.
Pays(purse, price) == Min2(Max0(purse), price)

\* continueUserAccountSubscription(): bonus first, then (on request) referral, then main.
Charged(b, cost, useReferral) ==
    LET bonus == Pays(b.bonus, cost)
        referral == IF useReferral THEN Pays(b.referral, cost - bonus) ELSE 0
        main == Pays(b.main, cost - bonus - referral)
    IN  IF bonus + referral + main < cost THEN None
        ELSE [b EXCEPT !.bonus = @ - bonus, !.referral = @ - referral, !.main = @ - main]

Extended(b, p) == Ends(b, (IF b.till > now THEN b.till ELSE now) + Value[p])

\* REFERRAL_REWARD, in per cent
Reward(level, sum) == (sum * (IF level = 1 THEN 20 ELSE 10)) \div 100

-----------------------------------------------------------------------------
(* Actors *)

NoLocal == [op |-> None, u |-> None, field |-> None, sum |-> 0, flag |-> FALSE,
            b |-> None, d |-> None, cost |-> 0, level |-> 0, users |-> {}]

Init ==
    /\ account = [u \in Users |-> NewAccount]
    /\ user = [u \in Users |-> NewUser]
    /\ partner = [u \in Users |-> None]
    /\ now = 1
    /\ pc = [r \in Actors |-> "idle"]
    /\ local = [r \in Actors |-> NoLocal]
    /\ DeskInit
    /\ booked = [u \in Users |-> 0]
    /\ trials = [u \in Users |-> 0]
    /\ owing = {} /\ disturbed = {}

Goes(r, where, l) == pc' = [pc EXCEPT ![r] = where] /\ local' = [local EXCEPT ![r] = l]

Returns(r) == Goes(r, "idle", NoLocal)

\* A request arrives.  What it reads first is read with its arrival.
Arrives(r, where, l) ==
    /\ pc[r] = "idle" /\ left > 0
    /\ left' = left - 1
    /\ Goes(r, where, l)
    /\ UNCHANGED <<account, user, partner, now, booked, trials, owing, disturbed, deskVars>>

\* Somebody else works on a copy of the account, or of the user document.
Copied(r, u) ==
    \E q \in Actors \ {r} : local[q].u = u /\ (local[q].b # None \/ local[q].d # None)

Snapshot(r, u) == \E q \in Actors \ {r} : q = Stopper /\ u \in local[q].users

Disturbs(r, u) == disturbed' =
    IF Copied(r, u) \/ Snapshot(r, u) THEN disturbed \union {u} ELSE disturbed

\* updateAccountBalance() and setUser() write the whole document.
SaveAccount(r, u, b) == account' = [account EXCEPT ![u] = b] /\ Disturbs(r, u)

SaveUser(r, u, d) == user' = [user EXCEPT ![u] = d] /\ Disturbs(r, u)

-----------------------------------------------------------------------------
(* Requests that read the account, compute and write it *)

BalanceRequest(r, op, u, field, sum, flag) ==
    Arrives(r, "write", [NoLocal EXCEPT !.op = op, !.u = u, !.field = field, !.sum = sum,
                                        !.flag = flag, !.b = Filled(account[u])])

\* A body names at least one purse or the time; one of them here.  Any number will do.
UserAccountChangeBalanceBodyDto == [userId : Users, field : Fields, sum : Sums]

Correction(r, op) == \E body \in UserAccountChangeBalanceBodyDto :
    BalanceRequest(r, op, body.userId, body.field, body.sum, FALSE)

SetUserAccountBalance(r) == Correction(r, "set")

ChangeUserAccountBalance(r) == Correction(r, "change")

\* The one correction that refuses a sum of less than nothing.
AddUserAccountBalance(r) == \E body \in UserAccountChangeBalanceBodyDto :
    /\ body.sum >= 0
    /\ BalanceRequest(r, "add", body.userId, body.field, body.sum, FALSE)

MinusUserAccountBalance(r) == Correction(r, "minus")

TransferReferralBalance(r) == \E u \in Users, s \in Sums, off \in BOOLEAN :
    s > 0 /\ BalanceRequest(r, "transfer", u, "referral", s, off)

ResetUserAccountBalance(r) == \E u \in Users :
    BalanceRequest(r, "reset", u, None, 0, FALSE)

UserSubscriptionAutoRenewBodyDto == [userId : Users, product : Products, on : BOOLEAN]

ChangeAutoRenewSubscriptionStatus(r) == \E body \in UserSubscriptionAutoRenewBodyDto :
    BalanceRequest(r, "autoRenew", body.userId, body.product, 0, body.on)

Result(l) ==
    CASE l.op = "set"       -> Set(l.b, l.field, l.sum)
      [] l.op = "change"    -> Change(l.b, l.field, l.sum)
      [] l.op = "add"       -> Add(l.b, l.field, l.sum)
      [] l.op = "minus"     -> Minus(l.b, l.field, l.sum)
      [] l.op = "transfer"  -> Transfer(l.b, l.sum, l.flag)
      [] l.op = "reset"     -> Reset(l.b)
      [] l.op = "autoRenew" -> AutoRenew(l.b, l.u, l.flag, l.field)
      [] OTHER              -> Add(l.b, "main", l.sum)

\* What the request is to bring or take, as its caller knows it.
Amount(l) ==
    LET money == l.field \in Purses IN
    CASE l.op = "set" /\ money    -> l.sum - l.b[l.field]
      [] l.op = "change" /\ money -> IF l.sum < 0 THEN 0 ELSE l.sum - l.b[l.field]
      [] l.op = "add" /\ money   -> l.sum
      [] l.op = "minus" /\ money -> -l.sum
      [] l.op = "reset"          -> -Total(l.b)
      [] OTHER                   -> 0

\* Nothing is written when the request fails, or asks for the renewal that is set already.
Unwritten(l) ==
    \/ Result(l) = None
    \/ l.op = "autoRenew" /\ l.flag = l.b.autoRenew /\ l.field = l.b.product

\* A correction asks for a debt.
Indebts(l) == l.op = "set" /\ l.field \in Purses /\ l.sum < 0

WriteBalance(r) ==
    LET l == local[r] IN
    /\ pc[r] = "write"
    /\ IF Unwritten(l)
       THEN UNCHANGED <<account, booked, owing, disturbed>>
       ELSE /\ SaveAccount(r, l.u, Result(l))
            /\ booked' = [booked EXCEPT ![l.u] = @ + Amount(l)]
            /\ owing' = IF Indebts(l) THEN owing \union {l.u} ELSE owing
    /\ IF l.op = "payment" THEN Goes(r, "record", [l EXCEPT !.b = None]) ELSE Returns(r)
    /\ UNCHANGED <<user, partner, now, left, trials, deskVars>>

-----------------------------------------------------------------------------
(* addPaymentRequest(): credit, record the payment, reward the partners *)

AddPaymentRequest(r) == \E u \in Users, s \in Sums :
    s > 0 /\ BalanceRequest(r, "payment", u, "main", s, FALSE)

\* addPayment(), and the partners are looked up; the second one only if there is a first.
AddPayment(r) ==
    LET l == local[r] IN
    /\ pc[r] = "record"
    /\ payments' = Recorded(l.u, l.sum)
    /\ Goes(r, "reward", [l EXCEPT !.level = 1, !.u = partner[l.u]])
    /\ UNCHANGED <<account, user, partner, now, left, booked, trials, owing, disturbed, payouts, profiles>>

\* addReferralReward(): read the partner's account ...
RewardRead(r) ==
    LET l == local[r] IN
    /\ pc[r] = "reward"
    /\ IF l.u = None THEN Returns(r)
       ELSE Goes(r, "rewardWrite", [l EXCEPT !.b = Filled(account[l.u])])
    /\ UNCHANGED <<account, user, partner, now, left, booked, trials, owing, disturbed, deskVars>>

\* ... write it ...
RewardWrite(r) ==
    LET l == local[r] IN
    /\ pc[r] = "rewardWrite"
    /\ SaveAccount(r, l.u, [l.b EXCEPT !.referral = @ + Reward(l.level, l.sum)])
    /\ Goes(r, "rewardRecord", [l EXCEPT !.b = None])
    /\ UNCHANGED <<user, partner, now, left, booked, trials, owing, deskVars>>

\* ... and note the reward; the partner of the partner comes next.
RewardRecord(r) ==
    LET l == local[r] IN
    /\ pc[r] = "rewardRecord"
    /\ booked' = [booked EXCEPT ![l.u] = @ + Reward(l.level, l.sum)]
    /\ IF l.level = 1 THEN Goes(r, "reward", [l EXCEPT !.level = 2, !.u = partner[l.u]])
       ELSE Returns(r)
    /\ UNCHANGED <<account, user, partner, now, left, trials, owing, disturbed, deskVars>>

-----------------------------------------------------------------------------
(* continueUserAccountSubscription(): of the API and of the cron *)

\* The second version of the request names the product, the first one its length.
ContinueUserAccountSubscriptionV2BodyDto ==
    [userId : Users, product : Products, useReferral : BOOLEAN]

ContinueUserAccountSubscriptionBodyDto ==
    [userId : Users, days : {Value[p] : p \in Products}, useReferral : BOOLEAN]

\* The product is looked up among those offered to the user.
ContinueUserAccountSubscription(r, u, p, ref) ==
    /\ p \in Offered(u)
    /\ Arrives(r, "renew", [NoLocal EXCEPT !.op = "renew", !.u = u, !.field = p,
                                           !.cost = Price(u, p), !.flag = ref])

ContinueUserAccountSubscriptionV2(r) == \E body \in ContinueUserAccountSubscriptionV2BodyDto :
    ContinueUserAccountSubscription(r, body.userId, body.product, body.useReferral)

ContinueUserAccountSubscriptionV1(r) ==
    \E body \in ContinueUserAccountSubscriptionBodyDto, p \in Products :
        /\ Value[p] = body.days
        /\ ContinueUserAccountSubscription(r, body.userId, p, body.useReferral)

After(r, l) == IF r = Renewer THEN Goes(r, "users", [NoLocal EXCEPT !.users = l.users])
               ELSE Returns(r)

\* The user document is read; a trial that is marked there is refused.
RenewReadUser(r) ==
    LET l == local[r] IN
    /\ pc[r] = "renew"
    /\ IF l.field \in Trials \intersect user[l.u].activated THEN After(r, l)
       ELSE Goes(r, "renewRead", [l EXCEPT !.d = user[l.u]])
    /\ UNCHANGED <<account, user, partner, now, left, booked, trials, owing, disturbed, deskVars>>

RenewReadAccount(r) ==
    LET l == local[r]
        b == Filled(account[l.u]) IN
    /\ pc[r] = "renewRead"
    /\ IF Charged(b, l.cost, l.flag) = None THEN After(r, l)
       ELSE Goes(r, "renewWrite", [l EXCEPT !.b = b])
    /\ UNCHANGED <<account, user, partner, now, left, booked, trials, owing, disturbed, deskVars>>

\* Charge and extension are one write.
RenewWrite(r) ==
    LET l == local[r] IN
    /\ pc[r] = "renewWrite"
    /\ SaveAccount(r, l.u, Extended(Charged(l.b, l.cost, l.flag), l.field))
    /\ booked' = [booked EXCEPT ![l.u] = @ - l.cost]
    /\ trials' = IF l.field \in Trials THEN [trials EXCEPT ![l.u] = @ + 1] ELSE trials
    /\ Goes(r, "renewMark", [l EXCEPT !.b = None])
    /\ UNCHANGED <<user, partner, now, left, owing, deskVars>>

\* Mutant: the product is not marked.
RenewMarkForgets(r) ==
    /\ pc[r] = "renewMark"
    /\ SaveUser(r, local[r].u, local[r].d)
    /\ After(r, local[r])
    /\ UNCHANGED <<account, partner, now, left, booked, trials, owing, deskVars>>

\* The product is marked as activated, and the coupon if the partner has it there.
RenewMark(r) ==
    LET l == local[r]
        p == partner[l.u]
        passed == IF p # None /\ Coupon \in user[p].activated THEN {Coupon} ELSE {} IN
    /\ pc[r] = "renewMark"
    /\ SaveUser(r, l.u, [l.d EXCEPT !.activated = @ \union {l.field} \union passed])
    /\ After(r, l)
    /\ UNCHANGED <<account, partner, now, left, booked, trials, owing, deskVars>>

\* The cron of the main trader takes the users one by one.
RenewerStart ==
    /\ pc[Renewer] = "idle"
    /\ Goes(Renewer, "users", [NoLocal EXCEPT !.users = Users])
    /\ UNCHANGED <<account, user, partner, now, left, booked, trials, owing, disturbed, deskVars>>

\* What the cron takes for the product to renew: the one of that length on offer.
Renewed(u, b) == IF b.product \in Offered(u) THEN b.product ELSE DefaultProduct

\* The default product costs its full price when the cron falls back to it.
RenewalCost(u, b) == IF b.product \in Offered(u) THEN Price(u, b.product) ELSE Cost[DefaultProduct]

NearEnd(b) == b.autoRenew /\ TimeLeft(b) <= Window

\* Mutant: only the main balance is compared with the price.
RenewerTakeMain ==
    /\ pc[Renewer] = "users"
    /\ IF local[Renewer].users = {} THEN Returns(Renewer)
       ELSE \E u \in local[Renewer].users :
              LET rest == local[Renewer].users \ {u}
                  b == Filled(account[u])
                  l == [NoLocal EXCEPT !.op = "renew", !.u = u, !.field = Renewed(u, b),
                                       !.cost = RenewalCost(u, b), !.users = rest]
              IN  IF ~NearEnd(b) THEN Goes(Renewer, "users", [NoLocal EXCEPT !.users = rest])
                  ELSE IF b.product \in Offered(u) THEN
                       IF l.cost > b.main
                       THEN Goes(Renewer, "users", [NoLocal EXCEPT !.users = rest])
                       ELSE Goes(Renewer, "renew", l)
                  ELSE Goes(Renewer, "fallback", [l EXCEPT !.flag = l.cost <= b.main + b.bonus])
    /\ UNCHANGED <<account, user, partner, now, left, booked, trials, owing, disturbed, deskVars>>

\* The users near the end whose money suffices.
RenewerTake ==
    /\ pc[Renewer] = "users"
    /\ IF local[Renewer].users = {} THEN Returns(Renewer)
       ELSE \E u \in local[Renewer].users :
              LET rest == local[Renewer].users \ {u}
                  b == Filled(account[u])
                  l == [NoLocal EXCEPT !.op = "renew", !.u = u, !.field = Renewed(u, b),
                                       !.cost = RenewalCost(u, b), !.users = rest]
              IN  IF ~NearEnd(b) THEN Goes(Renewer, "users", [NoLocal EXCEPT !.users = rest])
                  ELSE IF b.product \in Offered(u) THEN
                       IF l.cost > b.main + b.bonus
                       THEN Goes(Renewer, "users", [NoLocal EXCEPT !.users = rest])
                       ELSE Goes(Renewer, "renew", l)
                  ELSE Goes(Renewer, "fallback", [l EXCEPT !.flag = l.cost <= b.main + b.bonus])
    /\ UNCHANGED <<account, user, partner, now, left, booked, trials, owing, disturbed, deskVars>>

\* The product is not on offer: changeAutoRenewSubscriptionStatus() sets the account to the
\* default one, and if the money the cron saw before suffices it renews with that.
RenewerFallback ==
    LET l == local[Renewer] IN
    /\ pc[Renewer] = "fallback"
    /\ Goes(Renewer, "fallbackWrite", [l EXCEPT !.b = Filled(account[l.u])])
    /\ UNCHANGED <<account, user, partner, now, left, booked, trials, owing, disturbed, deskVars>>

RenewerFallbackWrite ==
    LET l == local[Renewer] IN
    /\ pc[Renewer] = "fallbackWrite"
    /\ SaveAccount(Renewer, l.u, AutoRenew(l.b, l.u, TRUE, l.field))
    /\ IF l.flag THEN Goes(Renewer, "renew", [l EXCEPT !.b = None, !.flag = FALSE])
       ELSE After(Renewer, l)
    /\ UNCHANGED <<user, partner, now, left, booked, trials, owing, deskVars>>

-----------------------------------------------------------------------------
(* The trading switch *)

\* changeTradingStatus(): switched off at once, switched on when time is left.
ChangeTradingStatus(r, u, on) ==
    Arrives(r, "switch", [NoLocal EXCEPT !.op = "switch", !.u = u, !.flag = on, !.d = user[u]])

SwitchCheck(r) ==
    LET l == local[r] IN
    /\ pc[r] = "switch"
    /\ IF l.d.active = l.flag \/ (l.flag /\ TimeLeft(Filled(account[l.u])) = 0)
       THEN Returns(r)
       ELSE Goes(r, "mark", [l EXCEPT !.d.active = l.flag])
    /\ UNCHANGED <<account, user, partner, now, left, booked, trials, owing, disturbed, deskVars>>

SwitchRequest(r) == \E u \in Users, on \in BOOLEAN : ChangeTradingStatus(r, u, on)

ResetTrials(r, u) ==
    Arrives(r, "mark", [NoLocal EXCEPT !.op = "resetTrials", !.u = u,
                                       !.d = [user[u] EXCEPT !.activated = @ \ Trials]])

ResetRequest(r) == \E u \in Users : ResetTrials(r, u)

AddUserCoupon(r, u) ==
    Arrives(r, "mark", [NoLocal EXCEPT !.op = "coupon", !.u = u,
                                       !.d = [user[u] EXCEPT !.coupon = TRUE]])

CouponRequest(r) == \E u \in Users : AddUserCoupon(r, u)

MarkUser(r) ==
    LET l == local[r] IN
    /\ pc[r] = "mark"
    /\ SaveUser(r, l.u, l.d)
    /\ trials' = IF l.op = "resetTrials" THEN [trials EXCEPT ![l.u] = 0] ELSE trials
    /\ Returns(r)
    /\ UNCHANGED <<account, partner, now, left, booked, owing, deskVars>>

\* addReferral(): of several the first one counts.
AddReferral(r, u, p) ==
    /\ pc[r] = "idle" /\ left > 0 /\ partner[u] = None
    /\ partner' = [partner EXCEPT ![u] = p]
    /\ left' = left - 1
    /\ UNCHANGED <<account, user, now, pc, local, booked, trials, owing, disturbed, deskVars>>

ReferralRequest(r) == \E u, p \in Users : AddReferral(r, u, p)

\* updateTradingStatus(): one snapshot of the active users; those whose time is up are
\* written back from it as not active.
StopperStart ==
    LET active == {u \in Users : user[u].active} IN
    /\ pc[Stopper] = "idle" /\ active # {}
    /\ Goes(Stopper, "users", [NoLocal EXCEPT !.users = active, !.d = user])
    /\ UNCHANGED <<account, user, partner, now, left, booked, trials, owing, disturbed, deskVars>>

\* Mutant: a robot is stopped only when less than nothing is left.
StopperTakeBelow ==
    /\ pc[Stopper] = "users"
    /\ IF local[Stopper].users = {} THEN Returns(Stopper)
       ELSE \E u \in local[Stopper].users :
              IF TimeLeft(Filled(account[u])) < 0
              THEN Goes(Stopper, "stop", [local[Stopper] EXCEPT !.u = u, !.users = @ \ {u}])
              ELSE Goes(Stopper, "users", [local[Stopper] EXCEPT !.u = None, !.users = @ \ {u}])
    /\ UNCHANGED <<account, user, partner, now, left, booked, trials, owing, disturbed, deskVars>>

StopperTake ==
    /\ pc[Stopper] = "users"
    /\ IF local[Stopper].users = {} THEN Returns(Stopper)
       ELSE \E u \in local[Stopper].users :
              IF TimeLeft(Filled(account[u])) = 0
              THEN Goes(Stopper, "stop", [local[Stopper] EXCEPT !.u = u, !.users = @ \ {u}])
              ELSE Goes(Stopper, "users", [local[Stopper] EXCEPT !.u = None, !.users = @ \ {u}])
    /\ UNCHANGED <<account, user, partner, now, left, booked, trials, owing, disturbed, deskVars>>

StopperWrite ==
    LET l == local[Stopper] IN
    /\ pc[Stopper] = "stop"
    /\ SaveUser(Stopper, l.u, [l.d[l.u] EXCEPT !.active = FALSE])
    /\ Goes(Stopper, "users", [l EXCEPT !.u = None])
    /\ UNCHANGED <<account, partner, now, left, booked, trials, owing, deskVars>>

-----------------------------------------------------------------------------
(* Time, and the death of a process *)

Tick ==
    /\ now < MaxNow
    /\ now' = now + 1
    /\ UNCHANGED <<account, user, partner, pc, local, left, booked, trials, owing, disturbed, deskVars>>

Crash(r) ==
    /\ pc[r] # "idle" /\ left > 0
    /\ left' = left - 1
    /\ Returns(r)
    /\ disturbed' = IF local[r].u = None THEN disturbed ELSE disturbed \union {local[r].u}
    /\ UNCHANGED <<account, user, partner, now, booked, trials, owing, deskVars>>

\* The papers are changed beside all of it.
Desk == DeskNext /\ UNCHANGED <<account, user, partner, now, pc, local, booked, trials, owing, disturbed>>

Request(r) ==
    \/ SetUserAccountBalance(r) \/ ChangeUserAccountBalance(r) \/ AddUserAccountBalance(r)
    \/ MinusUserAccountBalance(r) \/ TransferReferralBalance(r) \/ ResetUserAccountBalance(r)
    \/ ChangeAutoRenewSubscriptionStatus(r) \/ AddPaymentRequest(r)
    \/ ContinueUserAccountSubscriptionV1(r) \/ ContinueUserAccountSubscriptionV2(r)
    \/ SwitchRequest(r) \/ ResetRequest(r) \/ CouponRequest(r) \/ ReferralRequest(r)

RenewStep(r) ==
    RenewReadUser(r) \/ RenewReadAccount(r) \/ RenewWrite(r) \/ RenewMark(r)

RequestStep(r) ==
    \/ WriteBalance(r) \/ AddPayment(r) \/ RewardRead(r) \/ RewardWrite(r) \/ RewardRecord(r)
    \/ RenewStep(r) \/ SwitchCheck(r) \/ MarkUser(r)

RenewerStep ==
    \/ RenewerStart \/ RenewerTake \/ RenewerFallback \/ RenewerFallbackWrite
    \/ RenewStep(Renewer)

StopperStep == StopperStart \/ StopperTake \/ StopperWrite

Next ==
    \/ \E r \in Requests : Request(r) \/ RequestStep(r)
    \/ RenewerStep \/ StopperStep
    \/ Desk
    \/ Tick
    \/ \E r \in Actors : Crash(r)

Spec == Init /\ [][Next]_vars

\* Node.js goes on with every request it has begun, and the crons run for ever.
FairSpec ==
    /\ Spec
    /\ \A r \in Requests : WF_vars(RequestStep(r))
    /\ WF_vars(RenewerStep) /\ WF_vars(StopperStep)
    /\ WF_vars(Tick)
-----------------------------------------------------------------------------
(* Properties *)

Balance == [main : Int, bonus : Int, referral : Int, till : Nat, autoRenew : BOOLEAN,
            product : Products]

UserDoc == [active : BOOLEAN, activated : SUBSET (Products \union {Coupon}), coupon : BOOLEAN]

\* No document is taken for a missing one.
ASSUME DocumentsAssumption == None \notin Balance \union UserDoc \union [Users -> UserDoc]

\* The documents have their types.
TypeOK ==
    /\ DeskTypeOK
    /\ account \in [Users -> Balance]
    /\ user \in [Users -> UserDoc]
    /\ partner \in [Users -> Users \union {None}]
    /\ now \in 1..MaxNow
    /\ booked \in [Users -> Int] /\ trials \in [Users -> Nat]
    /\ owing \subseteq Users /\ disturbed \subseteq Users

\* Credited and not yet recorded, or never to be because the credit was the last that happened.
Owed(r, u) ==
    IF local[r].u # u THEN 0
    ELSE CASE pc[r] = "record"       -> local[r].sum
           [] pc[r] = "rewardRecord" -> Reward(local[r].level, local[r].sum)
           [] OTHER                  -> 0

Unrecorded(u) == SumFunctionOnSet([r \in Requests |-> Owed(r, u)], Requests)

Paid(u) ==
    SumFunctionOnSet([i \in DOMAIN payments |-> IF payments[i].user = u THEN payments[i].sum ELSE 0],
                     DOMAIN payments)

\* Unless somebody wrote the account over somebody else's change, or died on the way, a user
\* has exactly the money of his recorded payments, rewards and corrections, less what was
\* charged: a payment keeps its credit even when it is cancelled, rejected or deleted later.
BooksBalance == \A u \in Users \ disturbed : Total(account[u]) = booked[u] + Paid(u) + Unrecorded(u)

\* Under the same condition a user gets a trial once: the mark in the user document of Redis
\* keeps up with the account in MongoDB, from wherever the renewal comes.
TrialOnce == \A u \in Users \ disturbed : trials[u] <= 1

\* Whatever was written over what: only setUserAccountBalance() makes a debt.  A user it was never
\* used on to do so is overdrawn by no transfer, charge, withdrawal, reward or other correction.
NeverOverdrawn == \A u \in Users \ owing, f \in Purses : account[u][f] >= 0

Due(u) ==
    LET b == Filled(account[u]) IN NearEnd(b) /\ RenewalCost(u, b) <= b.main + b.bonus

\* A robot whose time is up is stopped, although the cron writes users it has read before.
ExpiredIsStopped == \A u \in Users :
    (user[u].active /\ TimeLeft(Filled(account[u])) = 0)
        ~> (~user[u].active \/ TimeLeft(Filled(account[u])) > 0)

\* Whoever renews automatically and can pay is renewed near the end, by the cron of the
\* trader or by a request of his own, unless he spends the money or switches it off.
RenewalHappens == \A u \in Users : Due(u) ~> ~Due(u)
=============================================================================
