---------------------------- MODULE AccountProofs ----------------------------
(***************************************************************************)
(* No purse is ever overdrawn, for any number of users, requests, products  *)
(* and sums, and whoever dies between two calls, until the back office sets *)
(* one to a debt.  Everybody writes whole accounts, so it is enough that    *)
(* every copy somebody holds is solvent, that whoever is about to charge    *)
(* one has one that suffices, and that what is made of a solvent account    *)
(* is solvent.                                                              *)
(*                                                                          *)
(* And where nobody writes over what somebody else has changed, and nobody  *)
(* dies at work, the books balance and a trial is granted once.  There      *)
(* every copy is fresh as long as it is held, so a write changes an account *)
(* by what the writer means to change; what was credited and is not yet     *)
(* recorded is owed by one request; and a trial that was granted is marked, *)
(* or the one who is to mark it is the only one with a copy of the marks.   *)
(***************************************************************************)
EXTENDS Account, SequenceTheorems, Sums, TLAPS

Corrections == {"set", "change", "add", "minus"}

Writing == Corrections \union {"transfer", "reset", "autoRenew", "payment"}

LocalOp == Writing \union {"renew", "switch", "resetTrials", "coupon", None}

LocalField == Purses \union {"days"} \union Products \union {None}

LocalDoc == UserDoc \union [Users -> UserDoc] \union {None}

Local ==
    [op : LocalOp, u : Users \union {None}, field : LocalField, sum : Int, flag : BOOLEAN,
     b : Balance \union {None}, d : LocalDoc, cost : Nat, level : 0..2, users : SUBSET Users]

OfRequests == {"write", "record", "reward", "rewardWrite", "rewardRecord", "switch", "mark"}

OfRenewals == {"renew", "renewRead", "renewWrite", "renewMark"}

OfCrons == {"users", "fallback", "fallbackWrite", "stop"}

Places == OfRequests \union OfRenewals \union OfCrons \union {"idle"}

\* What an actor has in hand where it is.
Placed(r, p, l) ==
    /\ p \notin {"idle", "users", "reward"} => l.u \in Users
    /\ p \in {"write", "rewardWrite", "renewWrite", "fallbackWrite"} => l.b \in Balance
    /\ p = "write" => l.op \in Writing
    /\ p = "write" /\ l.op \in Corrections => l.field \in Purses \union {"days"}
    /\ p = "write" /\ l.op \in {"add", "transfer", "payment"} => l.sum \in Nat
    /\ p \in {"record", "reward", "rewardWrite", "rewardRecord"} => l.sum \in Nat
    /\ p \in OfRenewals \union {"fallback", "fallbackWrite"} => l.field \in Products
    /\ p = "renewWrite" => Charged(l.b, l.cost, l.flag) # None
    /\ p \in {"renewRead", "renewWrite", "renewMark", "switch", "mark"} => l.d \in UserDoc
    /\ r = Stopper => p \in {"idle", "users", "stop"}
    /\ r = Stopper /\ p \in {"users", "stop"} => l.d \in [Users -> UserDoc]

ActorsOK ==
    /\ pc \in [Actors -> Places] /\ local \in [Actors -> Local]
    /\ \A r \in Actors : Placed(r, pc[r], local[r])

DocsOK ==
    /\ account \in [Users -> Balance] /\ user \in [Users -> UserDoc]
    /\ partner \in [Users -> Users \union {None}]
    /\ now \in 1..MaxNow

BooksOK ==
    /\ DeskTypeOK
    /\ booked \in [Users -> Int] /\ trials \in [Users -> Nat]
    /\ owing \subseteq Users /\ disturbed \subseteq Users

MoneyInv == ActorsOK /\ DocsOK /\ BooksOK

\* No purse of an account holds less than nothing.
Solvent(b) == b.main >= 0 /\ b.bonus >= 0 /\ b.referral >= 0

-----------------------------------------------------------------------------
(* What is made of an account *)

\* What getAccountBalance() fills in is the end of the subscription.
LEMMA FilledTyped ==
    ASSUME now \in Nat, NEW b \in Balance
    PROVE  Filled(b) \in Balance /\ (Solvent(b) => Solvent(Filled(b)))
<1> QED BY DEF Filled, Balance, Solvent

\* A purse pays a part of the price, and no more than it holds.
LEMMA PaysTyped ==
    ASSUME NEW purse \in Int, NEW price \in Nat
    PROVE  /\ Pays(purse, price) \in Nat /\ Pays(purse, price) <= price
           /\ purse >= 0 => Pays(purse, price) <= purse
<1> QED BY DEF Pays, Min2, Max0

\* What is charged for was found to be paid; no purse pays more than it holds.
LEMMA ChargedTyped ==
    ASSUME NEW b \in Balance, NEW cost \in Nat, NEW ref \in BOOLEAN, Charged(b, cost, ref) # None
    PROVE  /\ Charged(b, cost, ref) \in Balance
           /\ Solvent(b) => Solvent(Charged(b, cost, ref))
<1> DEFINE bonus == Pays(b.bonus, cost)
           referral == IF ref THEN Pays(b.referral, cost - bonus) ELSE 0
           main == Pays(b.main, cost - bonus - referral)
<1>1. b.main \in Int /\ b.bonus \in Int /\ b.referral \in Int
  BY DEF Balance
<1>2. bonus \in Nat /\ bonus <= cost /\ (b.bonus >= 0 => bonus <= b.bonus)
  BY <1>1, PaysTyped
<1> HIDE DEF bonus
<1>3. referral \in Nat /\ referral <= cost - bonus /\ (b.referral >= 0 => referral <= b.referral)
  <2>1. cost - bonus \in Nat
    BY <1>2
  <2>2. CASE ref
    <3>1. referral = Pays(b.referral, cost - bonus)
      BY <2>2
    <3> HIDE DEF referral
    <3> QED BY <1>1, <2>1, <3>1, PaysTyped
  <2>3. CASE ~ref
    BY <2>1, <2>3
  <2> QED BY <2>2, <2>3
<1> HIDE DEF referral
<1>4. main \in Nat /\ (b.main >= 0 => main <= b.main)
  <2>1. cost - bonus - referral \in Nat
    BY <1>2, <1>3
  <2> QED BY <1>1, <2>1, PaysTyped
<1> DEFINE newBonus == b.bonus - bonus
           newReferral == b.referral - referral
           newMain == b.main - main
<1>5. Charged(b, cost, ref) =
          [b EXCEPT !.bonus = newBonus, !.referral = newReferral, !.main = newMain]
  BY DEF Charged, bonus, referral
<1> HIDE DEF main
<1>6. newBonus \in Int /\ newReferral \in Int /\ newMain \in Int
  BY <1>1, <1>2, <1>3, <1>4
<1>7. Solvent(b) => newBonus >= 0 /\ newReferral >= 0 /\ newMain >= 0
  BY <1>1, <1>2, <1>3, <1>4 DEF Solvent
<1> HIDE DEF newBonus, newReferral, newMain
<1> QED BY <1>5, <1>6, <1>7 DEF Balance, Solvent

\* An extension moves the end only.
LEMMA ExtendedTyped ==
    ASSUME now \in Nat, NEW b \in Balance, NEW p \in Products
    PROVE  Extended(b, p) \in Balance /\ (Solvent(b) => Solvent(Extended(b, p)))
<1> QED BY ProductsAssumption DEF Extended, Ends, Balance, Solvent

\* A reward is a share of the payment, rounded down.
LEMMA RewardNat ==
    ASSUME NEW level, NEW sum \in Nat
    PROVE  Reward(level, sum) \in Nat
<1>1. sum * 20 \in Nat /\ sum * 10 \in Nat
  OBVIOUS
<1>2. \A n \in Nat : n \div 100 \in Nat
  OBVIOUS
<1> QED BY <1>1, <1>2 DEF Reward

\* So is a discounted price.
LEMMA PriceNat ==
    ASSUME NEW u \in Users, NEW p \in Products
    PROVE  Price(u, p) \in Nat
<1>1. Cost[p] \in Nat
  BY ProductsAssumption
<1>2. \A n \in Nat : n \div 2 \in Nat
  OBVIOUS
<1> QED BY <1>1, <1>2 DEF Price

\* A correction sets, adds or takes where there is enough; only setting makes a debt.
LEMMA CorrectionTyped ==
    ASSUME now \in Nat, NEW b \in Balance, NEW f \in Purses \union {"days"}, NEW s \in Int
    PROVE  /\ Set(b, f, s) \in Balance /\ Change(b, f, s) \in Balance
           /\ s \in Nat => Add(b, f, s) \in Balance
           /\ Minus(b, f, s) # None => Minus(b, f, s) \in Balance /\ Solvent(Minus(b, f, s))
           /\ Solvent(b) => /\ f = "days" \/ s \in Nat => Solvent(Set(b, f, s))
                            /\ Solvent(Change(b, f, s))
                            /\ s \in Nat => Solvent(Add(b, f, s))
<1> USE DEF Balance, Purses, Solvent
<1>1. Set(b, f, s) \in Balance /\ (Solvent(b) /\ (f = "days" \/ s \in Nat) => Solvent(Set(b, f, s)))
  <2>1. CASE f = "days"
    BY <2>1 DEF Set, Ends, Max0
  <2>2. CASE f \in Purses
    <3> DEFINE n == [b EXCEPT ![f] = s]
    <3>1. n \in Balance /\ (Solvent(b) /\ s \in Nat => Solvent(n))
      BY <2>2
    <3>2. Set(b, f, s) = Ends(n, now)
      BY <2>2 DEF Set
    <3> HIDE DEF n, Purses
    <3>3. f # "days"
      BY <2>2 DEF Purses
    <3> QED BY <3>1, <3>2, <3>3 DEF Ends
  <2> QED BY <2>1, <2>2
<1>2. Change(b, f, s) \in Balance /\ (Solvent(b) => Solvent(Change(b, f, s)))
  BY DEF Change, Ends
<1>3. s \in Nat => Add(b, f, s) \in Balance /\ (Solvent(b) => Solvent(Add(b, f, s)))
  BY DEF Add, Ends
<1>4. ASSUME Minus(b, f, s) # None PROVE Minus(b, f, s) \in Balance /\ Solvent(Minus(b, f, s))
  <2> DEFINE n == IF f = "days" THEN Ends(b, b.till - s) ELSE [b EXCEPT ![f] = @ - s]
  <2>1. Minus(b, f, s) = n /\ ~(n.till < now) /\ \A g \in Purses : ~(n[g] < 0)
    BY <1>4 DEF Minus
  <2>2. n \in [main : Int, bonus : Int, referral : Int, till : Int, autoRenew : BOOLEAN,
               product : Products]
    BY DEF Ends
  <2>3. ~(n.main < 0) /\ ~(n.bonus < 0) /\ ~(n.referral < 0)
    BY <2>1
  <2> HIDE DEF n
  <2>4. n.main \in Nat /\ n.bonus \in Nat /\ n.referral \in Nat /\ n.till \in Nat
    BY <2>1, <2>2, <2>3
  <2> QED BY <2>1, <2>2, <2>4
<1> QED BY <1>1, <1>2, <1>3, <1>4

\* A transfer moves what a sound referral purse holds, and no more.
LEMMA TransferTyped ==
    ASSUME NEW b \in Balance, NEW s \in Nat, NEW off \in BOOLEAN, Transfer(b, s, off) # None
    PROVE  Transfer(b, s, off) \in Balance /\ (Solvent(b) => Solvent(Transfer(b, s, off)))
<1> DEFINE rest == b.referral - s
           small == rest # 0 /\ -Dollar < rest /\ rest < Dollar
           moved == IF off /\ small THEN b.referral ELSE s
<1>1. b.referral \in Int /\ b.main \in Int /\ Dollar \in Nat \ {0}
  BY BoundsAssumption DEF Balance
<1>2. ~((rest < 0 /\ ~off) \/ (rest <= -Dollar /\ off))
  BY DEF Transfer
<1>3. moved \in Int /\ (b.referral >= 0 => moved >= 0 /\ moved <= b.referral)
  BY <1>1, <1>2
<1> DEFINE newReferral == b.referral - moved
           newMain == b.main + moved
<1>4. Transfer(b, s, off) = [b EXCEPT !.referral = newReferral, !.main = newMain]
  BY <1>2 DEF Transfer
<1> HIDE DEF moved
<1>5. newReferral \in Int /\ newMain \in Int
  BY <1>1, <1>3
<1>6. Solvent(b) => newReferral >= 0 /\ newMain >= 0
  BY <1>1, <1>3 DEF Solvent
<1> HIDE DEF newReferral, newMain
<1> QED BY <1>4, <1>5, <1>6 DEF Balance, Solvent

\* Whatever a request makes of an account, or nothing.
LEMMA ResultTyped ==
    ASSUME now \in Nat, NEW l \in Local, NEW r, Placed(r, "write", l)
    PROVE  /\ Result(l) # None => Result(l) \in Balance
           /\ Result(l) # None /\ Solvent(l.b) /\ ~Indebts(l) => Solvent(Result(l))
           /\ Amount(l) \in Int
<1> USE DEF Placed
<1>1. l.b \in Balance /\ l.sum \in Int /\ l.flag \in BOOLEAN /\ l.op \in Writing
  BY DEF Local
<1>7. Amount(l) \in Int
  BY <1>1 DEF Amount, Total, Balance, Purses
<1>2. CASE l.op \in Corrections
  <2>1. l.field \in Purses \union {"days"}
    BY <1>2
  <2>2. /\ l.op = "set" => Result(l) = Set(l.b, l.field, l.sum)
        /\ l.op = "change" => Result(l) = Change(l.b, l.field, l.sum)
        /\ l.op = "add" => Result(l) = Add(l.b, l.field, l.sum)
        /\ l.op = "minus" => Result(l) = Minus(l.b, l.field, l.sum)
    BY DEF Result
  <2>3. l.op = "add" => l.sum \in Nat
    OBVIOUS
  <2>4. l.op = "set" /\ ~Indebts(l) => l.field = "days" \/ l.sum \in Nat
    BY <1>1, <2>1 DEF Indebts
  <2>5. l.op \in {"set", "change", "add", "minus"}
    BY <1>2 DEF Corrections
  <2> QED BY <1>7, <1>1, <2>1, <2>2, <2>3, <2>4, <2>5, CorrectionTyped
<1>3. CASE l.op = "transfer"
  <2>1. Result(l) = Transfer(l.b, l.sum, l.flag) /\ l.sum \in Nat
    BY <1>3 DEF Result
  <2> QED BY <1>7, <1>1, <2>1, TransferTyped
<1>4. CASE l.op = "reset"
  <2>1. Result(l) = [NewAccount EXCEPT !.till = now]
    BY <1>4 DEF Result, Reset
  <2>2. NewAccount \in Balance /\ Solvent(NewAccount)
    BY ProductsAssumption DEF NewAccount, Balance, Solvent
  <2> QED BY <1>7, <2>1, <2>2 DEF Balance, Solvent
<1>5. CASE l.op = "autoRenew"
  <2>1. Result(l) = AutoRenew(l.b, l.u, l.flag, l.field)
    BY <1>5 DEF Result
  <2>2. PICK p \in Products : AutoRenew(l.b, l.u, l.flag, l.field)
                                 = [l.b EXCEPT !.autoRenew = l.flag, !.product = p]
    BY <1>1 DEF AutoRenew, Offered, Balance
  <2> DEFINE n == [l.b EXCEPT !.autoRenew = l.flag, !.product = p]
  <2>3. n \in Balance /\ (Solvent(l.b) => Solvent(n))
    BY <1>1 DEF Balance, Solvent
  <2> QED BY <1>7, <2>1, <2>2, <2>3
<1>6. CASE l.op = "payment"
  <2>1. Result(l) = Add(l.b, "main", l.sum) /\ l.sum \in Nat
    BY <1>6 DEF Result
  <2> QED BY <1>7, <1>1, <2>1, CorrectionTyped DEF Purses
<1> QED BY <1>1, <1>2, <1>3, <1>4, <1>5, <1>6 DEF Writing
-----------------------------------------------------------------------------
(* The papers *)

\* The papers keep their types.
LEMMA DeskKept ==
    ASSUME DeskTypeOK, DeskNext
    PROVE  DeskTypeOK'
<1> USE DEF DeskTypeOK, deskVars, Comes
<1>7. Comes
  BY DEF DeskNext, PaymentRequest, PayoutRequest, ProfileRequest, CancelPaymentRequest,
         DeletePaymentRequest, ChangePaymentRequestStatus, AddPayoutRequest, CancelPayoutRequest,
         DeletePayoutRequest, ChangePayoutRequestStatus, AddPayoutProfile, ChangePayoutProfile, Refused
<1>0. left' \in 0..MaxRequests /\ MaxRequests \in Nat
  BY <1>7, BoundsAssumption
<1>1. ASSUME NEW i \in DOMAIN payments, NEW status \in PaymentStatus, SetPayment(i, status)
      PROVE  payments' \in Seq(UserPayment)
  <2>0. payments[i] \in UserPayment
    BY ElementOfSeq
  <2>1. [payments[i] EXCEPT !.status = status] \in UserPayment
    BY <2>0 DEF UserPayment
  <2> QED BY <1>1, <2>1, ExceptSeq DEF SetPayment
<1>2. CASE CancelPaymentRequest \/ ChangePaymentRequestStatus
  BY <1>0, <1>1, <1>2 DEF CancelPaymentRequest, ChangePaymentRequestStatus, PaymentStatus
<1>3. CASE DeletePaymentRequest
  <2>1. PICK i \in DOMAIN payments :
            payments' = [payments EXCEPT ![i] = [payments[i] EXCEPT !.deleted = TRUE]]
    BY <1>3 DEF DeletePaymentRequest
  <2>0. payments[i] \in UserPayment
    BY ElementOfSeq
  <2>2. [payments[i] EXCEPT !.deleted = TRUE] \in UserPayment
    BY <2>0 DEF UserPayment
  <2>3. payments' \in Seq(UserPayment)
    BY <2>1, <2>2, ExceptSeq
  <2> QED BY <1>0, <1>3, <2>3 DEF DeletePaymentRequest
<1>4. CASE PayoutRequest
  <2>1. CASE AddPayoutRequest
    <3>1. PICK u \in Users, sum \in Int : payouts' =
              Append(payouts, [user |-> u, sum |-> sum, status |-> "pending", deleted |-> FALSE])
      BY <2>1, BoundsAssumption DEF AddPayoutRequest
    <3> QED BY <1>0, <2>1, <3>1 DEF AddPayoutRequest, PayoutStatus
  <2>2. CASE CancelPayoutRequest \/ DeletePayoutRequest \/ ChangePayoutRequestStatus
    BY <1>0, <2>2 DEF CancelPayoutRequest, DeletePayoutRequest, ChangePayoutRequestStatus, Refused
  <2> QED BY <1>4, <2>1, <2>2 DEF PayoutRequest
<1>5. CASE AddPayoutProfile
  BY <1>0, <1>5 DEF AddPayoutProfile, PayoutProfile, ProfileStatus
<1>6. CASE ChangePayoutProfile
  <2>1. PICK i \in DOMAIN profiles, status \in ProfileStatus :
            profiles' = [profiles EXCEPT ![i] = [profiles[i] EXCEPT !.status = status]]
    BY <1>6 DEF ChangePayoutProfile
  <2>0. profiles[i] \in PayoutProfile
    BY ElementOfSeq
  <2>2. [profiles[i] EXCEPT !.status = status] \in PayoutProfile
    BY <2>0 DEF PayoutProfile
  <2>3. profiles' \in Seq(PayoutProfile)
    BY <2>1, <2>2, ExceptSeq
  <2> QED BY <1>0, <1>6, <2>3 DEF ChangePayoutProfile
<1> QED BY <1>2, <1>3, <1>4, <1>5, <1>6 DEF DeskNext, PaymentRequest, ProfileRequest

-----------------------------------------------------------------------------
(* Actors *)

\* An actor goes on with what the next place needs.
LEMMA GoesOK ==
    ASSUME ActorsOK, NEW r \in Actors, NEW where \in Places, NEW l \in Local, Goes(r, where, l),
           Placed(r, where, l)
    PROVE  ActorsOK'
<1> QED BY DEF ActorsOK, Goes

\* Nobody holds anything at first, and after an error.
LEMMA NoLocalOK == NoLocal \in Local /\ \A r : Placed(r, "idle", NoLocal)
<1> QED BY DEF NoLocal, Local, LocalOp, LocalField, LocalDoc, Placed, OfRenewals

\* Who returns holds nothing any more.
LEMMA ReturnsOK ==
    ASSUME ActorsOK, NEW r \in Actors, Returns(r)
    PROVE  ActorsOK'
<1> QED BY GoesOK, NoLocalOK DEF Returns, Places

\* An actor in one of the places of requests and renewals is not the cron that stops robots.
LEMMA NotStopper ==
    ASSUME ActorsOK, NEW r \in Actors, pc[r] \notin {"idle", "users", "stop"}
    PROVE  r # Stopper /\ local[r] \in Local /\ Placed(r, pc[r], local[r])
<1> QED BY DEF ActorsOK, Placed

\* A request arrives: it changes nothing but what it holds.
LEMMA ArrivesOK ==
    ASSUME MoneyInv, NEW r \in Requests, NEW where \in Places, NEW l \in Local,
           Arrives(r, where, l), Placed(r, where, l)
    PROVE  MoneyInv'
<1>1. ActorsOK'
  BY GoesOK DEF Arrives, MoneyInv, Actors
<1>2. DocsOK'
  BY DEF Arrives, MoneyInv, DocsOK
<1>3. BooksOK'
  BY BoundsAssumption DEF Arrives, MoneyInv, BooksOK, DeskTypeOK, deskVars
<1> QED BY <1>1, <1>2, <1>3 DEF MoneyInv

\* A request that reads the account reads a sound one.
LEMMA BalanceRequestOK ==
    ASSUME MoneyInv, NEW r \in Requests, NEW op \in Writing, NEW u \in Users,
           NEW field \in LocalField, NEW sum \in Int,
           op \in {"add", "transfer", "payment"} => sum \in Nat,
           NEW flag \in BOOLEAN, BalanceRequest(r, op, u, field, sum, flag),
           op \in Corrections => field \in Purses \union {"days"}
    PROVE  MoneyInv'
<1> DEFINE b == Filled(account[u])
           l == [NoLocal EXCEPT !.op = op, !.u = u, !.field = field, !.sum = sum,
                                !.flag = flag, !.b = b]
<1>1. b \in Balance
  BY FilledTyped DEF MoneyInv, DocsOK
<1>2. Arrives(r, "write", l)
  BY DEF BalanceRequest
<1> HIDE DEF b
<1>3. l \in Local
  BY <1>1, NoLocalOK DEF LocalOp, Local
<1>4. Placed(r, "write", l)
  BY <1>1, ActorsAssumption DEF Placed, NoLocal, OfRenewals
<1> HIDE DEF l
<1> QED BY <1>2, <1>3, <1>4, ArrivesOK DEF Places, OfRequests

\* No request changes more than that when it arrives.
LEMMA RequestOK ==
    ASSUME MoneyInv, NEW r \in Requests, Request(r)
    PROVE  MoneyInv'
<1> USE BoundsAssumption
<1>1. ASSUME NEW op \in Corrections, NEW body \in UserAccountChangeBalanceBodyDto,
             BalanceRequest(r, op, body.userId, body.field, body.sum, FALSE),
             op = "add" => body.sum >= 0
      PROVE  MoneyInv'
  <2>1. body.userId \in Users /\ body.field \in Purses \union {"days"} /\ body.sum \in Int
    BY DEF UserAccountChangeBalanceBodyDto
  <2>2. op \in {"add", "transfer", "payment"} => body.sum \in Nat
    BY <1>1, <2>1 DEF Corrections
  <2> QED BY <1>1, <2>1, <2>2, BalanceRequestOK DEF LocalField, Writing
<1>2. CASE \/ SetUserAccountBalance(r) \/ ChangeUserAccountBalance(r)
           \/ AddUserAccountBalance(r) \/ MinusUserAccountBalance(r)
  BY <1>1, <1>2 DEF SetUserAccountBalance, ChangeUserAccountBalance, AddUserAccountBalance,
                    MinusUserAccountBalance, Correction, Corrections
<1>3. CASE TransferReferralBalance(r)
  <2>1. PICK u \in Users, s \in Sums, off \in BOOLEAN :
            s > 0 /\ BalanceRequest(r, "transfer", u, "referral", s, off)
    BY <1>3 DEF TransferReferralBalance
  <2>2. s \in Nat /\ s \in Int
    BY <2>1
  <2> QED BY <2>1, <2>2, BalanceRequestOK DEF LocalField, Writing, Corrections, Purses
<1>4. CASE ResetUserAccountBalance(r)
  <2>1. PICK u \in Users : BalanceRequest(r, "reset", u, None, 0, FALSE)
    BY <1>4 DEF ResetUserAccountBalance
  <2>2. "reset" \in Writing \ Corrections /\ "reset" \notin {"add", "transfer", "payment"}
    BY DEF Writing, Corrections
  <2>3. 0 \in Int /\ None \in LocalField
    BY DEF LocalField
  <2> QED BY <2>1, <2>2, <2>3, BalanceRequestOK
<1>5. CASE ChangeAutoRenewSubscriptionStatus(r)
  <2>1. PICK body \in UserSubscriptionAutoRenewBodyDto :
            BalanceRequest(r, "autoRenew", body.userId, body.product, 0, body.on)
    BY <1>5 DEF ChangeAutoRenewSubscriptionStatus
  <2>2. body.userId \in Users /\ body.product \in Products /\ body.on \in BOOLEAN
    BY DEF UserSubscriptionAutoRenewBodyDto
  <2> QED BY <2>1, <2>2, BalanceRequestOK DEF LocalField, Writing, Corrections
<1>6. CASE AddPaymentRequest(r)
  <2>1. PICK u \in Users, s \in Sums : s > 0 /\ BalanceRequest(r, "payment", u, "main", s, FALSE)
    BY <1>6 DEF AddPaymentRequest
  <2>2. s \in Nat /\ s \in Int
    BY <2>1
  <2> QED BY <2>1, <2>2, BalanceRequestOK DEF LocalField, Writing, Corrections, Purses
<1>7. ASSUME NEW u \in Users, NEW p \in Products, NEW ref \in BOOLEAN,
             ContinueUserAccountSubscription(r, u, p, ref)
      PROVE  MoneyInv'
  <2> DEFINE cost == Price(u, p)
             l == [NoLocal EXCEPT !.op = "renew", !.u = u, !.field = p, !.cost = cost, !.flag = ref]
  <2>1. cost \in Nat
    BY PriceNat
  <2>2. Arrives(r, "renew", l)
    BY <1>7 DEF ContinueUserAccountSubscription
  <2> HIDE DEF cost
  <2>3. l \in Local
    BY <2>1, NoLocalOK DEF Local, LocalOp, LocalField
  <2>4. Placed(r, "renew", l)
    BY ActorsAssumption DEF Placed, NoLocal
  <2> HIDE DEF l
  <2> QED BY <2>2, <2>3, <2>4, ArrivesOK DEF Places, OfRenewals
<1>8. CASE ContinueUserAccountSubscriptionV1(r) \/ ContinueUserAccountSubscriptionV2(r)
  BY <1>7, <1>8 DEF ContinueUserAccountSubscriptionV1, ContinueUserAccountSubscriptionV2,
                    ContinueUserAccountSubscriptionBodyDto, ContinueUserAccountSubscriptionV2BodyDto
<1>9. ASSUME NEW op \in {"resetTrials", "coupon"}, NEW u \in Users, NEW d \in UserDoc,
             Arrives(r, "mark", [NoLocal EXCEPT !.op = op, !.u = u, !.d = d])
      PROVE  MoneyInv'
  <2> DEFINE l == [NoLocal EXCEPT !.op = op, !.u = u, !.d = d]
  <2>1. l \in Local
    BY NoLocalOK DEF Local, LocalOp, LocalDoc
  <2>2. Placed(r, "mark", l)
    BY ActorsAssumption DEF Placed, NoLocal, OfRenewals
  <2> HIDE DEF l
  <2> QED BY <1>9, <2>1, <2>2, ArrivesOK DEF Places, OfRequests, l
<1>10. \A u \in Users : user[u] \in UserDoc
  BY DEF MoneyInv, DocsOK
<1>11. CASE SwitchRequest(r)
  <2>1. PICK u \in Users, on \in BOOLEAN :
            Arrives(r, "switch", [NoLocal EXCEPT !.op = "switch", !.u = u, !.flag = on, !.d = user[u]])
    BY <1>11 DEF SwitchRequest, ChangeTradingStatus
  <2> DEFINE l == [NoLocal EXCEPT !.op = "switch", !.u = u, !.flag = on, !.d = user[u]]
  <2>2. l \in Local
    BY <1>10, NoLocalOK DEF Local, LocalOp, LocalDoc
  <2>3. Placed(r, "switch", l)
    BY <1>10, ActorsAssumption DEF Placed, NoLocal, OfRenewals
  <2> HIDE DEF l
  <2> QED BY <2>1, <2>2, <2>3, ArrivesOK DEF Places, OfRequests, l
<1>12. CASE ResetRequest(r)
  <2>1. PICK u \in Users : Arrives(r, "mark", [NoLocal EXCEPT !.op = "resetTrials", !.u = u,
                                       !.d = [user[u] EXCEPT !.activated = @ \ Trials]])
    BY <1>12 DEF ResetRequest, ResetTrials
  <2>2. [user[u] EXCEPT !.activated = @ \ Trials] \in UserDoc
    BY <1>10 DEF UserDoc
  <2> QED BY <1>9, <2>1, <2>2
<1>13. CASE CouponRequest(r)
  <2>1. PICK u \in Users : Arrives(r, "mark", [NoLocal EXCEPT !.op = "coupon", !.u = u,
                                       !.d = [user[u] EXCEPT !.coupon = TRUE]])
    BY <1>13 DEF CouponRequest, AddUserCoupon
  <2>2. [user[u] EXCEPT !.coupon = TRUE] \in UserDoc
    BY <1>10 DEF UserDoc
  <2> QED BY <1>9, <2>1, <2>2
<1>14. CASE ReferralRequest(r)
  <2> USE <1>14 DEF ReferralRequest, AddReferral, MoneyInv, deskVars
  <2>1. ActorsOK'
    BY DEF ActorsOK
  <2>2. DocsOK'
    BY DEF DocsOK
  <2>3. BooksOK'
    BY DEF BooksOK, DeskTypeOK
  <2> QED BY <2>1, <2>2, <2>3
<1> QED BY <1>2, <1>3, <1>4, <1>5, <1>6, <1>8, <1>11, <1>12, <1>13, <1>14 DEF Request

-----------------------------------------------------------------------------
(* Steps *)

\* The write of a sound account.
LEMMA SaveAccountOK ==
    ASSUME MoneyInv, NEW r, NEW u \in Users, NEW b \in Balance, SaveAccount(r, u, b)
    PROVE  account' \in [Users -> Balance] /\ disturbed' \subseteq Users
<1> QED BY DEF SaveAccount, Disturbs, MoneyInv, DocsOK, BooksOK

\* The write of a user document.
LEMMA SaveUserOK ==
    ASSUME MoneyInv, NEW r, NEW u \in Users, NEW d \in UserDoc, SaveUser(r, u, d)
    PROVE  user' \in [Users -> UserDoc] /\ disturbed' \subseteq Users
<1> QED BY DEF SaveUser, Disturbs, MoneyInv, DocsOK, BooksOK

\* A step of an actor that writes neither accounts nor users nor books.
LEMMA QuietOK ==
    ASSUME MoneyInv, ActorsOK',
           UNCHANGED <<account, user, partner, now, left, booked, trials, owing, disturbed, deskVars>>
    PROVE  MoneyInv'
<1> QED BY DEF MoneyInv, DocsOK, BooksOK, DeskTypeOK, deskVars

\* What an actor goes on with: no copy, another user, or an account it has read.
LEMMA LocalNext ==
    ASSUME NEW l \in Local
    PROVE  /\ [l EXCEPT !.b = None] \in Local
           /\ \A b \in Balance : [l EXCEPT !.b = b] \in Local
           /\ \A d \in LocalDoc : [l EXCEPT !.d = d] \in Local
           /\ \A n \in 0..2, u \in Users \union {None} : [l EXCEPT !.level = n, !.u = u] \in Local
<1> QED BY DEF Local

\* The request writes what it has computed, or nothing.
LEMMA WriteBalanceOK ==
    ASSUME MoneyInv, NEW r \in Requests, WriteBalance(r)
    PROVE  MoneyInv'
<1> DEFINE l == local[r]
<1>1. r \in Actors /\ r # Stopper /\ l \in Local /\ Placed(r, "write", l) /\ now \in Nat
  BY NotStopper DEF WriteBalance, MoneyInv, Actors, DocsOK
<1>2. l.u \in Users
  BY <1>1 DEF Placed
<1>3. ActorsOK'
  <2>1. CASE l.op = "payment"
    <3>1. Goes(r, "record", [l EXCEPT !.b = None])
      BY <2>1 DEF WriteBalance
    <3>2. /\ [l EXCEPT !.b = None] \in Local /\ [l EXCEPT !.b = None].u = l.u
          /\ [l EXCEPT !.b = None].sum = l.sum
      BY <1>1, LocalNext DEF Local
    <3>4. l.sum \in Nat
      BY <1>1, <2>1 DEF Placed
    <3>3. Placed(r, "record", [l EXCEPT !.b = None])
      BY <1>1, <1>2, <3>2, <3>4 DEF Placed, OfRenewals
    <3> QED BY <1>1, <3>1, <3>2, <3>3, GoesOK DEF MoneyInv, Places, OfRequests
  <2>2. CASE l.op # "payment"
    BY <1>1, <2>2, ReturnsOK DEF WriteBalance, MoneyInv
  <2> QED BY <2>1, <2>2
<1>4. account' \in [Users -> Balance] /\ disturbed' \subseteq Users /\ booked' \in [Users -> Int]
      /\ owing' \subseteq Users /\ UNCHANGED deskVars
  <2>1. CASE Unwritten(l)
    BY <2>1 DEF WriteBalance, MoneyInv, DocsOK, BooksOK
  <2>2. CASE ~Unwritten(l)
    <3>1. SaveAccount(r, l.u, Result(l)) /\ booked' = [booked EXCEPT ![l.u] = @ + Amount(l)]
      BY <2>2 DEF WriteBalance
    <3>2. Result(l) \in Balance /\ Amount(l) \in Int
      BY <1>1, <2>2, ResultTyped DEF Unwritten
    <3>3. UNCHANGED deskVars
      BY <2>2 DEF WriteBalance, SaveAccount, Disturbs, deskVars
    <3>4. owing' \subseteq Users /\ booked' \in [Users -> Int]
      BY <1>2, <2>2, <3>1, <3>2 DEF WriteBalance, MoneyInv, BooksOK
    <3> QED BY <1>2, <3>1, <3>2, <3>3, <3>4, SaveAccountOK
  <2> QED BY <2>1, <2>2
<1>5. DocsOK' /\ BooksOK'
  BY <1>4 DEF WriteBalance, MoneyInv, DocsOK, BooksOK, DeskTypeOK, deskVars
<1> QED BY <1>3, <1>5 DEF MoneyInv


\* A payment is recorded, and rewards go to the partners.
LEMMA PaymentStepOK ==
    ASSUME MoneyInv, NEW r \in Requests,
           AddPayment(r) \/ RewardRead(r) \/ RewardWrite(r) \/ RewardRecord(r)
    PROVE  MoneyInv'
<1> DEFINE l == local[r]
<1>1. /\ r \in Actors /\ r # Stopper /\ l \in Local /\ now \in Nat /\ Placed(r, pc[r], l)
      /\ \A n \in 0..2, u \in Users \union {None} :
             /\ [l EXCEPT !.level = n, !.u = u] \in Local
             /\ Placed(r, "reward", [l EXCEPT !.level = n, !.u = u])
  <2>1. r \in Actors /\ r # Stopper /\ l \in Local /\ Placed(r, pc[r], l)
    BY NotStopper DEF AddPayment, RewardRead, RewardWrite, RewardRecord, MoneyInv, Actors
  <2>2. now \in Nat
    BY DEF MoneyInv, DocsOK
  <2>3. l.sum \in Nat
    BY <2>1 DEF AddPayment, RewardRead, RewardWrite, RewardRecord, Placed, WriteBalance
  <2>4. \A n \in 0..2, u \in Users \union {None} :
            /\ [l EXCEPT !.level = n, !.u = u] \in Local
            /\ [l EXCEPT !.level = n, !.u = u].sum = l.sum
    BY <2>1, LocalNext DEF Local
  <2> HIDE DEF l
  <2> QED BY <2>1, <2>2, <2>3, <2>4 DEF Placed, OfRenewals
<1>2. \A u \in Users : partner[u] \in Users \union {None} /\ account[u] \in Balance
  BY DEF MoneyInv, DocsOK
<1>3. CASE AddPayment(r)
  <2>1. l.u \in Users /\ l.sum \in Nat
    BY <1>1, <1>3 DEF AddPayment, Placed, Local
  <2>2. ActorsOK'
    <3>1. Goes(r, "reward", [l EXCEPT !.level = 1, !.u = partner[l.u]])
      BY <1>3 DEF AddPayment
    <3>2. /\ [l EXCEPT !.level = 1, !.u = partner[l.u]] \in Local
          /\ Placed(r, "reward", [l EXCEPT !.level = 1, !.u = partner[l.u]])
      <4>1. partner[l.u] \in Users \union {None} /\ 1 \in 0..2
        BY <1>2, <2>1
      <4> HIDE DEF l
      <4> QED BY <1>1, <4>1
    <3> QED BY <1>1, <3>1, <3>2, GoesOK DEF MoneyInv, Places, OfRequests
  <2>3. payments' \in Seq(UserPayment)
    BY <1>3, <2>1 DEF AddPayment, Recorded, UserPayment, PaymentStatus, MoneyInv, BooksOK, DeskTypeOK
  <2> QED BY <1>3, <2>2, <2>3 DEF AddPayment, MoneyInv, DocsOK, BooksOK, DeskTypeOK
<1>4. CASE RewardRead(r)
  <2>1. ActorsOK'
    <3>1. CASE l.u = None
      BY <1>1, <1>4, <3>1, ReturnsOK DEF RewardRead, MoneyInv
    <3>2. CASE l.u # None
      <4> DEFINE b == Filled(account[l.u])
      <4>1. l.u \in Users /\ b \in Balance
        BY <1>1, <1>2, <3>2, FilledTyped DEF Local
      <4>2. Goes(r, "rewardWrite", [l EXCEPT !.b = b])
        BY <1>4, <3>2 DEF RewardRead
      <4> HIDE DEF b
      <4>3. [l EXCEPT !.b = b] \in Local /\ Placed(r, "rewardWrite", [l EXCEPT !.b = b])
        BY <1>1, <4>1, LocalNext DEF Placed, Local, OfRenewals
      <4> QED BY <1>1, <4>2, <4>3, GoesOK DEF MoneyInv, Places, OfRequests
    <3> QED BY <3>1, <3>2
  <2> QED BY <1>4, <2>1, QuietOK DEF RewardRead
<1>5. CASE RewardWrite(r)
  <2> DEFINE n == l.b.referral + Reward(l.level, l.sum)
  <2>1. l.u \in Users /\ l.b \in Balance /\ l.sum \in Nat
    BY <1>1, <1>5 DEF RewardWrite, Placed, Local
  <2>2. n \in Int
    BY <2>1, RewardNat DEF Balance
  <2>3. SaveAccount(r, l.u, [l.b EXCEPT !.referral = n])
    BY <1>5 DEF RewardWrite
  <2> HIDE DEF n
  <2>4. [l.b EXCEPT !.referral = n] \in Balance
    BY <2>1, <2>2 DEF Balance
  <2>5. account' \in [Users -> Balance] /\ disturbed' \subseteq Users
    BY <2>1, <2>3, <2>4, SaveAccountOK
  <2>6. [l EXCEPT !.b = None] \in Local /\ Placed(r, "rewardRecord", [l EXCEPT !.b = None])
    BY <1>1, <2>1, LocalNext DEF Placed, Local, OfRenewals
  <2>7. ActorsOK'
    BY <1>1, <1>5, <2>6, GoesOK DEF RewardWrite, MoneyInv, Places, OfRequests
  <2> QED BY <1>5, <2>5, <2>7 DEF RewardWrite, MoneyInv, DocsOK, BooksOK, DeskTypeOK, deskVars
<1>6. CASE RewardRecord(r)
  <2>1. l.u \in Users /\ Reward(l.level, l.sum) \in Nat
    BY <1>1, <1>6, RewardNat DEF RewardRecord, Placed, Local
  <2>2. booked' \in [Users -> Int]
    BY <1>6, <2>1 DEF RewardRecord, MoneyInv, BooksOK
  <2>3. ActorsOK'
    <3>1. CASE l.level = 1
      <4>1. Goes(r, "reward", [l EXCEPT !.level = 2, !.u = partner[l.u]])
        BY <1>6, <3>1 DEF RewardRecord
      <4>2. /\ [l EXCEPT !.level = 2, !.u = partner[l.u]] \in Local
            /\ Placed(r, "reward", [l EXCEPT !.level = 2, !.u = partner[l.u]])
        <5>1. partner[l.u] \in Users \union {None} /\ 2 \in 0..2
          BY <1>2, <2>1
        <5> HIDE DEF l
        <5> QED BY <1>1, <5>1
      <4> QED BY <1>1, <4>1, <4>2, GoesOK DEF MoneyInv, Places, OfRequests
    <3>2. CASE l.level # 1
      BY <1>1, <1>6, <3>2, ReturnsOK DEF RewardRecord, MoneyInv
    <3> QED BY <3>1, <3>2
  <2> QED BY <1>6, <2>2, <2>3 DEF RewardRecord, MoneyInv, DocsOK, BooksOK, DeskTypeOK, deskVars
<1> QED BY <1>3, <1>4, <1>5, <1>6

\* Where a renewal ends, for the API and for the cron.
LEMMA AfterOK ==
    ASSUME ActorsOK, NEW r \in Requests \union {Renewer}, NEW l \in Local, After(r, l)
    PROVE  ActorsOK'
<1>1. r \in Actors /\ r # Stopper
  BY ActorsAssumption DEF Actors
<1>2. CASE r = Renewer
  <2>1. /\ [NoLocal EXCEPT !.users = l.users] \in Local
        /\ Placed(r, "users", [NoLocal EXCEPT !.users = l.users])
    BY <1>1, NoLocalOK DEF Local, Placed, OfRenewals
  <2> QED BY <1>1, <1>2, <2>1, GoesOK DEF After, Places, OfCrons
<1>3. CASE r # Renewer
  BY <1>1, <1>3, ReturnsOK DEF After
<1> QED BY <1>2, <1>3

\* A renewal writes an account only from a copy that suffices for the charge.
LEMMA RenewStepOK ==
    ASSUME MoneyInv, NEW r \in Requests \union {Renewer}, RenewStep(r)
    PROVE  MoneyInv'
<1> DEFINE l == local[r]
<1>1. /\ r \in Actors /\ r # Stopper /\ l \in Local /\ Placed(r, pc[r], l)
      /\ l.u \in Users /\ l.field \in Products /\ now \in Nat
  <2>1. r \in Actors /\ pc[r] \in OfRenewals
    BY DEF RenewStep, RenewReadUser, RenewReadAccount, RenewWrite, RenewMark, Actors, OfRenewals
  <2>2. r # Stopper /\ l \in Local /\ Placed(r, pc[r], l)
    BY <2>1, NotStopper DEF MoneyInv, OfRenewals
  <2>3. l.u \in Users /\ l.field \in Products
    BY <2>1, <2>2 DEF Placed, OfRenewals
  <2> QED BY <2>1, <2>2, <2>3 DEF MoneyInv, DocsOK
<1>2. account[l.u] \in Balance /\ user[l.u] \in UserDoc
  BY <1>1 DEF MoneyInv, DocsOK
<1>3. CASE RenewReadUser(r)
  <2>1. ActorsOK'
    <3>1. CASE l.field \in Trials \intersect user[l.u].activated
      BY <1>1, <1>3, <3>1, AfterOK DEF RenewReadUser, MoneyInv
    <3>2. CASE ~(l.field \in Trials \intersect user[l.u].activated)
      <4>1. Goes(r, "renewRead", [l EXCEPT !.d = user[l.u]])
        BY <1>3, <3>2 DEF RenewReadUser
      <4>2. [l EXCEPT !.d = user[l.u]] \in Local
        BY <1>1, <1>2, LocalNext DEF LocalDoc
      <4>3. Placed(r, "renewRead", [l EXCEPT !.d = user[l.u]])
        BY <1>1, <1>2 DEF Placed, Local
      <4> QED BY <1>1, <4>1, <4>2, <4>3, GoesOK DEF MoneyInv, Places, OfRenewals
    <3> QED BY <3>1, <3>2
  <2> QED BY <1>3, <2>1, QuietOK DEF RenewReadUser
<1>4. CASE RenewReadAccount(r)
  <2> DEFINE b == Filled(account[l.u])
  <2>1. ActorsOK'
    <3>1. CASE Charged(b, l.cost, l.flag) = None
      BY <1>1, <1>4, <3>1, AfterOK DEF RenewReadAccount, MoneyInv
    <3>2. CASE Charged(b, l.cost, l.flag) # None
      <4>1. Goes(r, "renewWrite", [l EXCEPT !.b = b])
        BY <1>4, <3>2 DEF RenewReadAccount
      <4>2. b \in Balance /\ l.d \in UserDoc
        BY <1>1, <1>2, <1>4, FilledTyped DEF RenewReadAccount, Placed
      <4> HIDE DEF b
      <4>3. /\ [l EXCEPT !.b = b] \in Local
            /\ [l EXCEPT !.b = b].b = b /\ [l EXCEPT !.b = b].cost = l.cost
            /\ [l EXCEPT !.b = b].flag = l.flag /\ [l EXCEPT !.b = b].d = l.d
            /\ [l EXCEPT !.b = b].u = l.u /\ [l EXCEPT !.b = b].field = l.field
        BY <1>1, <4>2, LocalNext DEF Local
      <4>4. Placed(r, "renewWrite", [l EXCEPT !.b = b])
        BY <1>1, <3>2, <4>2, <4>3 DEF Placed
      <4> QED BY <1>1, <4>1, <4>3, <4>4, GoesOK DEF MoneyInv, Places, OfRenewals
    <3> QED BY <3>1, <3>2
  <2> QED BY <1>4, <2>1, QuietOK DEF RenewReadAccount
<1>5. CASE RenewWrite(r)
  <2>1. l.b \in Balance /\ l.cost \in Nat /\ l.flag \in BOOLEAN /\ Charged(l.b, l.cost, l.flag) # None
        /\ l.d \in UserDoc
    BY <1>1, <1>5 DEF RenewWrite, Placed, Local
  <2>2. Extended(Charged(l.b, l.cost, l.flag), l.field) \in Balance
    BY <1>1, <2>1, ChargedTyped, ExtendedTyped
  <2>3. account' \in [Users -> Balance] /\ disturbed' \subseteq Users
    BY <1>1, <1>5, <2>2, SaveAccountOK DEF RenewWrite
  <2>4. booked' \in [Users -> Int] /\ trials' \in [Users -> Nat]
    BY <1>1, <1>5, <2>1 DEF RenewWrite, MoneyInv, BooksOK
  <2>5. [l EXCEPT !.b = None] \in Local /\ Placed(r, "renewMark", [l EXCEPT !.b = None])
    BY <1>1, <2>1, LocalNext DEF Placed, Local
  <2>6. ActorsOK'
    BY <1>1, <1>5, <2>5, GoesOK DEF RenewWrite, MoneyInv, Places, OfRenewals
  <2> QED BY <1>5, <2>3, <2>4, <2>6 DEF RenewWrite, MoneyInv, DocsOK, BooksOK, DeskTypeOK, deskVars
<1>6. CASE RenewMark(r)
  <2> DEFINE p == partner[l.u]
             passed == IF p # None /\ Coupon \in user[p].activated THEN {Coupon} ELSE {}
             act == l.d.activated \union {l.field} \union passed
  <2>1. l.d \in UserDoc
    BY <1>1, <1>6 DEF RenewMark, Placed
  <2>2. act \subseteq Products \union {Coupon}
    BY <1>1, <2>1 DEF UserDoc
  <2>3. SaveUser(r, l.u, [l.d EXCEPT !.activated = act])
    BY <1>6 DEF RenewMark
  <2> HIDE DEF act
  <2>4. [l.d EXCEPT !.activated = act] \in UserDoc
    BY <2>1, <2>2 DEF UserDoc
  <2>5. user' \in [Users -> UserDoc] /\ disturbed' \subseteq Users
    BY <1>1, <2>3, <2>4, SaveUserOK
  <2>6. ActorsOK'
    BY <1>1, <1>6, AfterOK DEF RenewMark, MoneyInv
  <2> QED BY <1>6, <2>5, <2>6 DEF RenewMark, MoneyInv, DocsOK, BooksOK, DeskTypeOK, deskVars
<1> QED BY <1>3, <1>4, <1>5, <1>6 DEF RenewStep


\* The trading switch, and the marks of trials and coupons.
LEMMA UserStepOK ==
    ASSUME MoneyInv, NEW r \in Requests, SwitchCheck(r) \/ MarkUser(r)
    PROVE  MoneyInv'
<1> DEFINE l == local[r]
<1>1. r \in Actors /\ r # Stopper /\ l \in Local /\ l.u \in Users /\ l.d \in UserDoc
  BY NotStopper DEF SwitchCheck, MarkUser, Placed, MoneyInv, Actors
<1>2. CASE SwitchCheck(r)
  <2>1. ActorsOK'
    <3> DEFINE cond == l.d.active = l.flag \/ (l.flag /\ TimeLeft(Filled(account[l.u])) = 0)
    <3>1. CASE cond
      BY <1>1, <1>2, <3>1, ReturnsOK DEF SwitchCheck, MoneyInv
    <3>2. CASE ~cond
      <4> DEFINE d == [l.d EXCEPT !.active = l.flag]
      <4>1. Goes(r, "mark", [l EXCEPT !.d = d])
        BY <1>2, <3>2 DEF SwitchCheck
      <4>2. d \in UserDoc /\ d \in LocalDoc
        BY <1>1 DEF UserDoc, Local, LocalDoc
      <4> HIDE DEF d, cond
      <4>3. [l EXCEPT !.d = d] \in Local
        BY <1>1, <4>2, LocalNext
      <4>4. Placed(r, "mark", [l EXCEPT !.d = d])
        BY <1>1, <4>2 DEF Placed, Local, OfRenewals
      <4> QED BY <1>1, <4>1, <4>3, <4>4, GoesOK DEF MoneyInv, Places, OfRequests
    <3> QED BY <3>1, <3>2
  <2> QED BY <1>2, <2>1, QuietOK DEF SwitchCheck
<1>3. CASE MarkUser(r)
  <2>1. user' \in [Users -> UserDoc] /\ disturbed' \subseteq Users
    BY <1>1, <1>3, SaveUserOK DEF MarkUser
  <2>2. trials' \in [Users -> Nat]
    BY <1>1, <1>3 DEF MarkUser, MoneyInv, BooksOK
  <2>3. ActorsOK'
    BY <1>1, <1>3, ReturnsOK DEF MarkUser, MoneyInv
  <2> QED BY <1>3, <2>1, <2>2, <2>3
          DEF MarkUser, MoneyInv, DocsOK, BooksOK, DeskTypeOK, deskVars
<1> QED BY <1>2, <1>3

\* The cron that renews chooses a product that is on sale, and its price.
LEMMA RenewerStepOK ==
    ASSUME MoneyInv, RenewerStep
    PROVE  MoneyInv'
<1> DEFINE l == local[Renewer]
<1>1. /\ Renewer \in Actors /\ Renewer # Stopper /\ l \in Local /\ now \in Nat
      /\ Placed(Renewer, pc[Renewer], l)
  BY ActorsAssumption DEF Actors, MoneyInv, ActorsOK, DocsOK
<1>2. CASE RenewerStart
  <2>1. /\ [NoLocal EXCEPT !.users = Users] \in Local
        /\ Placed(Renewer, "users", [NoLocal EXCEPT !.users = Users])
    BY <1>1, NoLocalOK DEF Local, Placed, OfRenewals
  <2>2. ActorsOK'
    BY <1>1, <1>2, <2>1, GoesOK DEF RenewerStart, MoneyInv, Places, OfCrons
  <2> QED BY <1>2, <2>2, QuietOK DEF RenewerStart
<1>3. CASE RenewerTake
  <2>1. CASE l.users = {}
    <3>1. ActorsOK'
      BY <1>1, <1>3, <2>1, ReturnsOK DEF RenewerTake, MoneyInv
    <3> QED BY <1>3, <3>1, QuietOK DEF RenewerTake
  <2>2. CASE l.users # {}
    <3>1. PICK u \in l.users :
             LET rest == local[Renewer].users \ {u}
                 b == Filled(account[u])
                 new == [NoLocal EXCEPT !.op = "renew", !.u = u, !.field = Renewed(u, b),
                                      !.cost = RenewalCost(u, b), !.users = rest]
             IN  IF ~NearEnd(b) THEN Goes(Renewer, "users", [NoLocal EXCEPT !.users = rest])
                 ELSE IF b.product \in Offered(u) THEN
                      IF new.cost > b.main + b.bonus
                      THEN Goes(Renewer, "users", [NoLocal EXCEPT !.users = rest])
                      ELSE Goes(Renewer, "renew", new)
                 ELSE Goes(Renewer, "fallback", [new EXCEPT !.flag = new.cost <= b.main + b.bonus])
      BY <1>3, <2>2 DEF RenewerTake
    <3> DEFINE rest == l.users \ {u}
               b == Filled(account[u])
               field == Renewed(u, b)
               cost == RenewalCost(u, b)
               new == [NoLocal EXCEPT !.op = "renew", !.u = u, !.field = field,
                                      !.cost = cost, !.users = rest]
               flag == new.cost <= b.main + b.bonus
    <3>2. u \in Users /\ rest \subseteq Users
      BY <1>1 DEF Local
    <3>3. b \in Balance
      BY <1>1, <3>2, FilledTyped DEF MoneyInv, DocsOK
    <3>4. field \in Products /\ cost \in Nat
      BY <3>2, <3>3, PriceNat, ProductsAssumption DEF Renewed, RenewalCost, Balance
    <3>5. \/ Goes(Renewer, "users", [NoLocal EXCEPT !.users = rest])
          \/ Goes(Renewer, "renew", new)
          \/ Goes(Renewer, "fallback", [new EXCEPT !.flag = flag])
      BY <3>1
    <3>6. flag \in BOOLEAN
      OBVIOUS
    <3> HIDE DEF rest, b, field, cost, flag
    <3>7. /\ [NoLocal EXCEPT !.users = rest] \in Local
          /\ Placed(Renewer, "users", [NoLocal EXCEPT !.users = rest])
      BY <1>1, <3>2, NoLocalOK DEF Local, Placed, OfRenewals
    <3>8. new \in Local /\ new.u = u /\ new.field = field
      BY <3>2, <3>4, NoLocalOK DEF Local, LocalOp, LocalField
    <3> HIDE DEF new
    <3>9. Placed(Renewer, "renew", new)
      BY <1>1, <3>2, <3>4, <3>8 DEF Placed
    <3>10. /\ [new EXCEPT !.flag = flag] \in Local
           /\ [new EXCEPT !.flag = flag].u = u /\ [new EXCEPT !.flag = flag].field = field
      BY <3>6, <3>8 DEF Local
    <3>11. Placed(Renewer, "fallback", [new EXCEPT !.flag = flag])
      BY <1>1, <3>2, <3>4, <3>10 DEF Placed, OfRenewals
    <3>12. ActorsOK'
      BY <1>1, <3>5, <3>7, <3>8, <3>9, <3>10, <3>11, GoesOK DEF MoneyInv, Places, OfRenewals, OfCrons
    <3> QED BY <1>3, <3>12, QuietOK DEF RenewerTake
  <2> QED BY <2>1, <2>2
<1>4. CASE RenewerFallback
  <2> DEFINE b == Filled(account[l.u])
  <2>1. l.u \in Users /\ l.field \in Products
    BY <1>1, <1>4 DEF RenewerFallback, Placed
  <2>2. b \in Balance
    BY <1>1, <2>1, FilledTyped DEF MoneyInv, DocsOK
  <2>3. Goes(Renewer, "fallbackWrite", [l EXCEPT !.b = b])
    BY <1>4 DEF RenewerFallback
  <2> HIDE DEF b
  <2>4. [l EXCEPT !.b = b] \in Local /\ Placed(Renewer, "fallbackWrite", [l EXCEPT !.b = b])
    BY <1>1, <2>1, <2>2, LocalNext DEF Placed, Local, OfRenewals
  <2>5. ActorsOK'
    BY <1>1, <2>3, <2>4, GoesOK DEF MoneyInv, Places, OfCrons
  <2> QED BY <1>4, <2>5, QuietOK DEF RenewerFallback
<1>5. CASE RenewerFallbackWrite
  <2>1. l.u \in Users /\ l.field \in Products /\ l.b \in Balance
    BY <1>1, <1>5 DEF RenewerFallbackWrite, Placed
  <2>2. AutoRenew(l.b, l.u, TRUE, l.field) \in Balance
    <3>1. PICK p \in Products : AutoRenew(l.b, l.u, TRUE, l.field)
                                 = [l.b EXCEPT !.autoRenew = TRUE, !.product = p]
      BY <2>1 DEF AutoRenew, Offered, Balance
    <3> QED BY <2>1, <3>1 DEF Balance
  <2>3. account' \in [Users -> Balance] /\ disturbed' \subseteq Users
    BY <1>5, <2>1, <2>2, SaveAccountOK DEF RenewerFallbackWrite
  <2>4. ActorsOK'
    <3>1. CASE l.flag
      <4>1. Goes(Renewer, "renew", [l EXCEPT !.b = None, !.flag = FALSE])
        BY <1>5, <3>1 DEF RenewerFallbackWrite
      <4>2. /\ [l EXCEPT !.b = None, !.flag = FALSE] \in Local
            /\ Placed(Renewer, "renew", [l EXCEPT !.b = None, !.flag = FALSE])
        BY <1>1, <2>1 DEF Placed, Local
      <4> QED BY <1>1, <4>1, <4>2, GoesOK DEF MoneyInv, Places, OfRenewals
    <3>2. CASE ~l.flag
      BY <1>1, <1>5, <3>2, AfterOK DEF RenewerFallbackWrite, MoneyInv
    <3> QED BY <3>1, <3>2
  <2> QED BY <1>5, <2>3, <2>4
          DEF RenewerFallbackWrite, MoneyInv, DocsOK, BooksOK, DeskTypeOK, deskVars
<1>6. CASE RenewStep(Renewer)
  BY <1>6, RenewStepOK
<1> QED BY <1>2, <1>3, <1>4, <1>5, <1>6 DEF RenewerStep

\* The cron that stops robots writes users only.
LEMMA StopperStepOK ==
    ASSUME MoneyInv, StopperStep
    PROVE  MoneyInv'
<1> DEFINE l == local[Stopper]
<1>1. Stopper \in Actors /\ l \in Local /\ Placed(Stopper, pc[Stopper], l)
  BY DEF Actors, MoneyInv, ActorsOK
<1>2. CASE StopperStart
  <2> DEFINE active == {u \in Users : user[u].active}
             new == [NoLocal EXCEPT !.users = active, !.d = user]
  <2>1. active \subseteq Users /\ user \in [Users -> UserDoc]
    BY DEF MoneyInv, DocsOK
  <2>2. Goes(Stopper, "users", new)
    BY <1>2 DEF StopperStart
  <2> HIDE DEF active
  <2>3. new \in Local /\ new.d = user
    BY <2>1, NoLocalOK DEF Local, LocalDoc
  <2> HIDE DEF new
  <2>4. Placed(Stopper, "users", new)
    BY <2>1, <2>3 DEF Placed, OfRenewals
  <2>5. ActorsOK'
    BY <1>1, <2>2, <2>3, <2>4, GoesOK DEF MoneyInv, Places, OfCrons
  <2> QED BY <1>2, <2>5, QuietOK DEF StopperStart
<1>3. CASE StopperTake
  <2>1. CASE l.users = {}
    <3>1. ActorsOK'
      BY <1>1, <1>3, <2>1, ReturnsOK DEF StopperTake, MoneyInv
    <3> QED BY <1>3, <3>1, QuietOK DEF StopperTake
  <2>2. CASE l.users # {}
    <3>1. PICK u \in l.users :
              \/ Goes(Stopper, "stop", [l EXCEPT !.u = u, !.users = l.users \ {u}])
              \/ Goes(Stopper, "users", [l EXCEPT !.u = None, !.users = l.users \ {u}])
      BY <1>3, <2>2 DEF StopperTake
    <3>2. u \in Users /\ l.d \in [Users -> UserDoc]
      BY <1>1, <1>3 DEF StopperTake, Placed, Local
    <3>3. \A v \in Users \union {None} :
              /\ [l EXCEPT !.u = v, !.users = l.users \ {u}] \in Local
              /\ [l EXCEPT !.u = v, !.users = l.users \ {u}].u = v
              /\ [l EXCEPT !.u = v, !.users = l.users \ {u}].d = l.d
      BY <1>1 DEF Local
    <3>4. /\ Placed(Stopper, "stop", [l EXCEPT !.u = u, !.users = l.users \ {u}])
          /\ Placed(Stopper, "users", [l EXCEPT !.u = None, !.users = l.users \ {u}])
      BY <3>2, <3>3 DEF Placed, OfRenewals
    <3>5. ActorsOK'
      BY <1>1, <3>1, <3>2, <3>3, <3>4, GoesOK DEF MoneyInv, Places, OfCrons
    <3> QED BY <1>3, <3>5, QuietOK DEF StopperTake
  <2> QED BY <2>1, <2>2
<1>4. CASE StopperWrite
  <2>1. l.u \in Users /\ l.d \in [Users -> UserDoc]
    BY <1>1, <1>4 DEF StopperWrite, Placed
  <2>2. [l.d[l.u] EXCEPT !.active = FALSE] \in UserDoc
    BY <2>1 DEF UserDoc
  <2>3. user' \in [Users -> UserDoc] /\ disturbed' \subseteq Users
    BY <1>4, <2>1, <2>2, SaveUserOK DEF StopperWrite
  <2>4. /\ [l EXCEPT !.u = None] \in Local /\ [l EXCEPT !.u = None].d = l.d
    BY <1>1 DEF Local
  <2>5. Placed(Stopper, "users", [l EXCEPT !.u = None])
    BY <2>1, <2>4 DEF Placed, OfRenewals
  <2>6. ActorsOK'
    BY <1>1, <1>4, <2>4, <2>5, GoesOK DEF StopperWrite, MoneyInv, Places, OfCrons
  <2> QED BY <1>4, <2>3, <2>6 DEF StopperWrite, MoneyInv, DocsOK, BooksOK, DeskTypeOK, deskVars
<1> QED BY <1>2, <1>3, <1>4 DEF StopperStep

\* The invariant is inductive.
LEMMA NextOK == MoneyInv /\ [Next]_vars => MoneyInv'
<1> SUFFICES ASSUME MoneyInv, [Next]_vars PROVE MoneyInv'
  OBVIOUS
<1>1. ASSUME NEW r \in Requests, Request(r) \/ RequestStep(r) PROVE MoneyInv'
  BY <1>1, RequestOK, WriteBalanceOK, PaymentStepOK, RenewStepOK, UserStepOK DEF RequestStep
<1>2. CASE RenewerStep
  BY <1>2, RenewerStepOK
<1>3. CASE StopperStep
  BY <1>3, StopperStepOK
<1>4. CASE Desk
  <2>1. DeskTypeOK'
    BY <1>4, DeskKept DEF Desk, MoneyInv, BooksOK
  <2> QED BY <1>4, <2>1 DEF Desk, MoneyInv, ActorsOK, DocsOK, BooksOK
<1>5. CASE Tick
  <2>1. now' \in 1..MaxNow
    BY <1>5, BoundsAssumption DEF Tick, MoneyInv, DocsOK
  <2> QED BY <1>5, <2>1 DEF Tick, MoneyInv, ActorsOK, DocsOK, BooksOK, DeskTypeOK, deskVars
<1>6. ASSUME NEW r \in Actors, Crash(r) PROVE MoneyInv'
  <2>1. ActorsOK'
    BY <1>6, ReturnsOK DEF Crash, MoneyInv
  <2>2. disturbed' \subseteq Users
    BY <1>6 DEF Crash, MoneyInv, BooksOK, ActorsOK, Local
  <2>3. left' \in 0..MaxRequests
    BY <1>6, BoundsAssumption DEF Crash, MoneyInv, BooksOK, DeskTypeOK
  <2> QED BY <1>6, <2>1, <2>2, <2>3 DEF Crash, MoneyInv, DocsOK, BooksOK, DeskTypeOK, deskVars
<1>7. CASE UNCHANGED vars
  BY <1>7, QuietOK DEF vars, MoneyInv, ActorsOK
<1> QED BY <1>1, <1>2, <1>3, <1>4, <1>5, <1>6, <1>7 DEF Next

\* At first everybody has a new account.
LEMMA InitOK == Init => MoneyInv
<1> SUFFICES ASSUME Init PROVE MoneyInv
  OBVIOUS
<1> USE ProductsAssumption, BoundsAssumption DEF Init
<1>1. NewAccount \in Balance /\ NewUser \in UserDoc
  BY DEF NewAccount, Balance, NewUser, UserDoc
<1>2. ActorsOK
  BY NoLocalOK DEF ActorsOK, Places
<1>3. DocsOK
  BY <1>1 DEF DocsOK
<1>4. BooksOK
  BY EmptySeq DEF BooksOK, DeskTypeOK, DeskInit
<1> QED BY <1>2, <1>3, <1>4 DEF MoneyInv

\* Documents, papers and counts have their types.
THEOREM AccountTyping == Spec => []TypeOK
<1>1. MoneyInv => TypeOK
  BY DEF MoneyInv, DocsOK, BooksOK, TypeOK, Balance, Balance, UserDoc
<1> QED BY <1>1, InitOK, NextOK, PTL DEF Spec

HoldsBalance(p) == p \in {"write", "rewardWrite", "renewWrite", "fallbackWrite"}

\* The accounts of users no correction left a debt with, and every copy of them, are solvent.
SolventInv == \A u \in Users \ owing :
    /\ Solvent(account[u])
    /\ \A r \in Actors : HoldsBalance(pc[r]) /\ local[r].u = u => Solvent(local[r].b)

\* An actor goes on; a copy it has read is solvent.
LEMMA SolventGoes ==
    ASSUME MoneyInv, SolventInv, NEW r \in Actors, NEW where, NEW l, Goes(r, where, l),
           UNCHANGED <<account, owing>>,
           HoldsBalance(where) /\ l.u \notin owing => Solvent(l.b)
    PROVE  SolventInv'
<1>1. ASSUME NEW q \in Actors
      PROVE  \/ pc'[q] = pc[q] /\ local'[q] = local[q]
             \/ pc'[q] = where /\ local'[q] = l
  BY DEF Goes, MoneyInv, ActorsOK
<1> QED BY <1>1 DEF SolventInv

\* An actor that writes a solvent account, and holds none then.
LEMMA SolventSave ==
    ASSUME MoneyInv, SolventInv, NEW r \in Actors, NEW where, NEW l, Goes(r, where, l),
           ~HoldsBalance(where), NEW v \in Users, NEW b, SaveAccount(r, v, b),
           owing \subseteq owing', v \notin owing' => Solvent(b)
    PROVE  SolventInv'
<1>1. ASSUME NEW q \in Actors, HoldsBalance(pc'[q])
      PROVE  pc'[q] = pc[q] /\ local'[q] = local[q]
  BY <1>1 DEF Goes, MoneyInv, ActorsOK
<1>2. \A u \in Users : account'[u] = IF u = v THEN b ELSE account[u]
  BY DEF SaveAccount, MoneyInv, DocsOK
<1> QED BY <1>1, <1>2 DEF SolventInv

\* What an actor reads is as solvent as the account.
LEMMA SolventRead ==
    ASSUME MoneyInv, SolventInv, NEW u \in Users, u \notin owing
    PROVE  Solvent(Filled(account[u]))
<1> QED BY FilledTyped DEF MoneyInv, DocsOK, SolventInv

\* A request that arrives holds at most what it has read.
LEMMA SolventRequest ==
    ASSUME MoneyInv, SolventInv, NEW r \in Requests, Request(r)
    PROVE  SolventInv'
<1>0. r \in Actors
  BY DEF Actors
<1>1. ASSUME NEW op, NEW u \in Users, NEW field, NEW sum, NEW flag,
             BalanceRequest(r, op, u, field, sum, flag)
      PROVE  SolventInv'
  <2> DEFINE l == [NoLocal EXCEPT !.op = op, !.u = u, !.field = field, !.sum = sum,
                                  !.flag = flag, !.b = Filled(account[u])]
  <2>1. Goes(r, "write", l) /\ UNCHANGED <<account, owing>>
    BY <1>1 DEF BalanceRequest, Arrives
  <2>2. l.u = u /\ l.b = Filled(account[u])
    BY DEF NoLocal
  <2> HIDE DEF l
  <2> QED BY <1>0, <2>1, <2>2, SolventRead, SolventGoes
<1>2. ASSUME NEW where \in {"renew", "switch", "mark"}, NEW l, Arrives(r, where, l)
      PROVE  SolventInv'
  BY <1>0, <1>2, SolventGoes DEF Arrives, HoldsBalance
<1>3. ASSUME NEW op, NEW body \in UserAccountChangeBalanceBodyDto,
             BalanceRequest(r, op, body.userId, body.field, body.sum, FALSE)
      PROVE  SolventInv'
  BY <1>1, <1>3 DEF UserAccountChangeBalanceBodyDto
<1>4. CASE \/ SetUserAccountBalance(r) \/ ChangeUserAccountBalance(r)
           \/ AddUserAccountBalance(r) \/ MinusUserAccountBalance(r)
  BY <1>3, <1>4 DEF SetUserAccountBalance, ChangeUserAccountBalance, AddUserAccountBalance,
                    MinusUserAccountBalance, Correction
<1>5. CASE TransferReferralBalance(r) \/ ResetUserAccountBalance(r) \/ AddPaymentRequest(r)
  BY <1>1, <1>5 DEF TransferReferralBalance, ResetUserAccountBalance, AddPaymentRequest
<1>6. CASE ChangeAutoRenewSubscriptionStatus(r)
  BY <1>1, <1>6 DEF ChangeAutoRenewSubscriptionStatus, UserSubscriptionAutoRenewBodyDto
<1>7. CASE ContinueUserAccountSubscriptionV1(r) \/ ContinueUserAccountSubscriptionV2(r)
  BY <1>2, <1>7 DEF ContinueUserAccountSubscriptionV1, ContinueUserAccountSubscriptionV2,
                    ContinueUserAccountSubscription
<1>8. CASE SwitchRequest(r) \/ ResetRequest(r) \/ CouponRequest(r)
  BY <1>2, <1>8 DEF SwitchRequest, ResetRequest, CouponRequest, ChangeTradingStatus,
                    ResetTrials, AddUserCoupon
<1>9. CASE ReferralRequest(r)
  BY <1>9 DEF ReferralRequest, AddReferral, SolventInv
<1> QED BY <1>4, <1>5, <1>6, <1>7, <1>8, <1>9 DEF Request

\* A renewal charges a solvent copy that suffices.
LEMMA SolventRenewal ==
    ASSUME MoneyInv, SolventInv, NEW r \in Requests \union {Renewer}, RenewStep(r)
    PROVE  SolventInv'
<1> DEFINE l == local[r]
<1>0. r \in Actors /\ l \in Local /\ Placed(r, pc[r], l) /\ now \in Nat
  BY DEF Actors, MoneyInv, ActorsOK, DocsOK
<1>1. ASSUME NEW where, NEW n, Goes(r, where, n), ~HoldsBalance(where), UNCHANGED <<account, owing>>
      PROVE  SolventInv'
  BY <1>0, <1>1, SolventGoes
<1>2. CASE RenewReadUser(r) \/ RenewMark(r)
  BY <1>1, <1>2 DEF RenewReadUser, RenewMark, After, Returns, HoldsBalance
<1>3. CASE RenewReadAccount(r)
  <2>1. CASE Charged(Filled(account[l.u]), l.cost, l.flag) = None
    BY <1>1, <1>3, <2>1 DEF RenewReadAccount, After, Returns, HoldsBalance
  <2>2. CASE Charged(Filled(account[l.u]), l.cost, l.flag) # None
    <3> DEFINE n == [l EXCEPT !.b = Filled(account[l.u])]
    <3>1. Goes(r, "renewWrite", n) /\ UNCHANGED <<account, owing>>
      BY <1>3, <2>2 DEF RenewReadAccount
    <3>2. l.u \in Users /\ n.u = l.u /\ n.b = Filled(account[l.u])
      BY <1>0, <1>3 DEF RenewReadAccount, Placed, Local
    <3> HIDE DEF n
    <3> QED BY <1>0, <3>1, <3>2, SolventRead, SolventGoes
  <2> QED BY <2>1, <2>2
<1>4. CASE RenewWrite(r)
  <2> DEFINE paid == Charged(l.b, l.cost, l.flag)
  <2>1. /\ SaveAccount(r, l.u, Extended(paid, l.field)) /\ UNCHANGED owing /\ pc[r] = "renewWrite"
        /\ Goes(r, "renewMark", [l EXCEPT !.b = None])
    BY <1>4 DEF RenewWrite
  <2>2. /\ l.u \in Users /\ l.b \in Balance /\ l.cost \in Nat /\ l.flag \in BOOLEAN
        /\ l.field \in Products /\ paid # None /\ (l.u \notin owing => Solvent(l.b))
    BY <1>0, <2>1 DEF Placed, Local, OfRenewals, SolventInv, HoldsBalance
  <2>3. paid \in Balance /\ (Solvent(l.b) => Solvent(paid))
    BY <2>2, ChargedTyped
  <2> HIDE DEF paid, l
  <2>4. l.u \notin owing => Solvent(Extended(paid, l.field))
    BY <1>0, <2>2, <2>3, ExtendedTyped
  <2> QED BY <1>0, <2>1, <2>2, <2>4, SolventSave DEF HoldsBalance
<1> QED BY <1>2, <1>3, <1>4 DEF RenewStep

\* What a request, a reward or a renewal makes of a solvent copy is solvent, unless a correction
\* asks for a debt, and then the user is one who owes.
LEMMA SolventStep ==
    ASSUME MoneyInv, SolventInv, NEW r \in Requests, RequestStep(r)
    PROVE  SolventInv'
<1> DEFINE l == local[r]
<1>0. /\ r \in Actors /\ l \in Local /\ Placed(r, pc[r], l) /\ now \in Nat
  BY DEF Actors, MoneyInv, ActorsOK, DocsOK
<1>1. ASSUME NEW where, NEW n, Goes(r, where, n), ~HoldsBalance(where), UNCHANGED <<account, owing>>
      PROVE  SolventInv'
  BY <1>0, <1>1, SolventGoes
<1>2. ASSUME HoldsBalance(pc[r])
      PROVE  l.u \in Users /\ l.b \in Balance /\ (l.u \notin owing => Solvent(l.b))
  BY <1>0, <1>2 DEF HoldsBalance, Placed, SolventInv
<1>3. CASE WriteBalance(r)
  <2>1. PICK where \in {"record", "idle"} : \E n : Goes(r, where, n)
    BY <1>3 DEF WriteBalance, Returns
  <2>2. CASE Unwritten(l)
    BY <1>1, <1>3, <2>1, <2>2 DEF WriteBalance, HoldsBalance
  <2>3. CASE ~Unwritten(l)
    <3>1. /\ SaveAccount(r, l.u, Result(l)) /\ pc[r] = "write"
          /\ owing' = IF Indebts(l) THEN owing \union {l.u} ELSE owing
      BY <1>3, <2>3 DEF WriteBalance
    <3>2. l.u \notin owing' => Solvent(Result(l))
      BY <1>0, <1>2, <2>3, <3>1, ResultTyped DEF Unwritten, HoldsBalance
    <3> HIDE DEF l
    <3> QED BY <1>0, <1>2, <2>1, <3>1, <3>2, SolventSave DEF HoldsBalance
  <2> QED BY <2>2, <2>3
<1>4. CASE AddPayment(r) \/ RewardRecord(r)
  BY <1>1, <1>4 DEF AddPayment, RewardRecord, Returns, HoldsBalance
<1>5. CASE RewardRead(r)
  <2>1. CASE l.u = None
    BY <1>1, <1>5, <2>1 DEF RewardRead, Returns, HoldsBalance
  <2>2. CASE l.u # None
    <3> DEFINE n == [l EXCEPT !.b = Filled(account[l.u])]
    <3>1. Goes(r, "rewardWrite", n) /\ UNCHANGED <<account, owing>>
      BY <1>5, <2>2 DEF RewardRead
    <3>2. l.u \in Users /\ n.u = l.u /\ n.b = Filled(account[l.u])
      BY <1>0, <2>2 DEF Local
    <3> HIDE DEF n
    <3> QED BY <1>0, <3>1, <3>2, SolventRead, SolventGoes
  <2> QED BY <2>1, <2>2
<1>6. CASE RewardWrite(r)
  <2> DEFINE money == l.b.referral + Reward(l.level, l.sum)
             n == [l.b EXCEPT !.referral = money]
  <2>1. /\ SaveAccount(r, l.u, n) /\ Goes(r, "rewardRecord", [l EXCEPT !.b = None])
        /\ UNCHANGED owing /\ pc[r] = "rewardWrite"
    BY <1>6 DEF RewardWrite
  <2>2. l.sum \in Nat
    BY <1>0, <2>1 DEF Placed
  <2>3. l.u \in Users /\ l.b \in Balance /\ (l.u \notin owing => Solvent(l.b))
    BY <1>2, <2>1 DEF HoldsBalance
  <2>4. l.b.referral >= 0 => money >= 0
    BY <2>2, <2>3, RewardNat DEF Balance
  <2> HIDE DEF money, l
  <2>5. l.u \notin owing => Solvent(n)
    BY <2>3, <2>4 DEF Solvent, Balance
  <2> HIDE DEF n
  <2> QED BY <1>0, <2>1, <2>3, <2>5, SolventSave DEF HoldsBalance
<1>7. CASE SwitchCheck(r) \/ MarkUser(r)
  BY <1>1, <1>7 DEF SwitchCheck, MarkUser, Returns, HoldsBalance
<1>8. CASE RenewStep(r)
  BY <1>8, SolventRenewal
<1> QED BY <1>3, <1>4, <1>5, <1>6, <1>7, <1>8 DEF RequestStep

\* The cron that renews changes the product, never the money.
LEMMA SolventRenewer ==
    ASSUME MoneyInv, SolventInv, RenewerStep
    PROVE  SolventInv'
<1> DEFINE l == local[Renewer]
<1>0. Renewer \in Actors /\ l \in Local /\ Placed(Renewer, pc[Renewer], l)
  BY DEF Actors, MoneyInv, ActorsOK
<1>1. ASSUME NEW where, NEW n, Goes(Renewer, where, n), ~HoldsBalance(where),
             UNCHANGED <<account, owing>>
      PROVE  SolventInv'
  BY <1>0, <1>1, SolventGoes
<1>2. CASE RenewerStart
  BY <1>1, <1>2 DEF RenewerStart, HoldsBalance
<1>3. CASE RenewerTake
  <2>1. PICK where \in {"idle", "users", "renew", "fallback"} : \E n : Goes(Renewer, where, n)
    <3>1. CASE l.users = {}
      BY <1>3, <3>1 DEF RenewerTake, Returns
    <3>2. CASE l.users # {}
      BY <1>3, <3>2 DEF RenewerTake
    <3> QED BY <3>1, <3>2
  <2> QED BY <1>1, <1>3, <2>1 DEF RenewerTake, HoldsBalance
<1>4. CASE RenewerFallback
  <2> DEFINE n == [l EXCEPT !.b = Filled(account[l.u])]
  <2>1. Goes(Renewer, "fallbackWrite", n) /\ UNCHANGED <<account, owing>>
    BY <1>4 DEF RenewerFallback
  <2>2. l.u \in Users /\ n.u = l.u /\ n.b = Filled(account[l.u])
    BY <1>0, <1>4 DEF RenewerFallback, Placed, Local
  <2> HIDE DEF n
  <2> QED BY <1>0, <2>1, <2>2, SolventRead, SolventGoes
<1>5. CASE RenewerFallbackWrite
  <2>1. PICK where \in {"renew", "users"} : \E n : Goes(Renewer, where, n)
    BY <1>5 DEF RenewerFallbackWrite, After
  <2>2. /\ l.u \in Users /\ l.b \in Balance /\ (l.u \notin owing => Solvent(l.b))
        /\ SaveAccount(Renewer, l.u, AutoRenew(l.b, l.u, TRUE, l.field)) /\ UNCHANGED owing
    BY <1>0, <1>5 DEF RenewerFallbackWrite, Placed, SolventInv, HoldsBalance
  <2>3. Solvent(l.b) => Solvent(AutoRenew(l.b, l.u, TRUE, l.field))
    BY <2>2 DEF AutoRenew, Solvent, Balance
  <2> HIDE DEF l
  <2> QED BY <1>0, <2>1, <2>2, <2>3, SolventSave DEF HoldsBalance
<1>6. CASE RenewStep(Renewer)
  BY <1>6, SolventRenewal
<1> QED BY <1>2, <1>3, <1>4, <1>5, <1>6 DEF RenewerStep

\* No step overdraws the account of a user whom no correction left with a debt.
LEMMA SolventNext == MoneyInv /\ SolventInv /\ [Next]_vars => SolventInv'
<1> SUFFICES ASSUME MoneyInv, SolventInv, [Next]_vars PROVE SolventInv'
  OBVIOUS
<1>1. ASSUME NEW r \in Requests, Request(r) \/ RequestStep(r) PROVE SolventInv'
  BY <1>1, SolventRequest, SolventStep
<1>2. CASE RenewerStep
  BY <1>2, SolventRenewer
<1>3. CASE StopperStep
  <2>1. PICK where \in {"users", "stop", "idle"} : \E n : Goes(Stopper, where, n)
    <3>1. CASE StopperTake /\ local[Stopper].users = {}
      BY <3>1 DEF StopperTake, Returns
    <3>2. CASE StopperTake /\ local[Stopper].users # {}
      BY <3>2 DEF StopperTake
    <3>3. CASE StopperStart \/ StopperWrite
      BY <3>3 DEF StopperStart, StopperWrite
    <3> QED BY <1>3, <3>1, <3>2, <3>3 DEF StopperStep
  <2>2. UNCHANGED <<account, owing>>
    BY <1>3 DEF StopperStep, StopperStart, StopperTake, StopperWrite
  <2> QED BY <2>1, <2>2, SolventGoes DEF HoldsBalance, Actors
<1>4. CASE Desk \/ Tick \/ UNCHANGED vars
  BY <1>4 DEF Desk, Tick, vars, SolventInv
<1>5. ASSUME NEW r \in Actors, Crash(r) PROVE SolventInv'
  BY <1>5, SolventGoes DEF Crash, Returns, HoldsBalance
<1> QED BY <1>1, <1>2, <1>3, <1>4, <1>5 DEF Next

\* Whatever was written over what, and whoever died between two calls: a user is overdrawn by no
\* transfer, charge, withdrawal or reward, and by no correction but the one that asks for a debt.
THEOREM NobodyOverdraws == Spec => []NeverOverdrawn
<1>1. MoneyInv /\ SolventInv => NeverOverdrawn
  BY DEF SolventInv, NeverOverdrawn, Solvent, Purses
<1>2. Init => SolventInv
  <2> SUFFICES ASSUME Init, NEW u \in Users
      PROVE  Solvent(account[u]) /\ \A r \in Actors : ~HoldsBalance(pc[r])
    BY DEF SolventInv
  <2>1. account[u] = NewAccount /\ \A r \in Actors : pc[r] = "idle"
    BY DEF Init
  <2>2. Solvent(NewAccount)
    BY DEF NewAccount, Solvent
  <2> QED BY <2>1, <2>2 DEF HoldsBalance
<1> QED BY <1>1, <1>2, InitOK, NextOK, SolventNext, PTL DEF Spec

-----------------------------------------------------------------------------
(* Who works on a copy that nobody has written over, writes what is true    *)

SameMoney(a, b) == a.main = b.main /\ a.bonus = b.bonus /\ a.referral = b.referral

\* A request that resets the trials has changed the marks already.
HoldsMarks(p, l) ==
    \/ p \in {"switch", "renewRead", "renewWrite", "renewMark"}
    \/ p = "mark" /\ l.op # "resetTrials"

HoldsSnapshot(r, p, l, u) == r = Stopper /\ p \in {"users", "stop"} /\ (u \in l.users \/ l.u = u)

\* A copy is what the document still says: the money, the marks, and no trial that is marked
\* is being renewed.
FreshBy(r, p, l, u) ==
    /\ HoldsBalance(p) /\ l.u = u => SameMoney(l.b, account[u])
    /\ HoldsMarks(p, l) /\ l.u = u => l.d.activated = user[u].activated
    /\ p \in {"renewRead", "renewWrite"} /\ l.u = u =>
           ~(l.field \in Trials /\ l.field \in user[u].activated)
    /\ HoldsSnapshot(r, p, l, u) => l.d[u].activated = user[u].activated

\* The cron that stops robots has taken the user it writes off its list.
Aside(p, l) == (p = "stop" => l.u \notin l.users) /\ (p = "users" => l.u = None)

FreshInv ==
    /\ \A u \in Users \ disturbed, r \in Actors : FreshBy(r, pc[r], local[r], u)
    /\ Aside(pc[Stopper], local[Stopper])

\* Somebody has been granted a trial and is about to mark it.
Marking(r, u) == pc[r] = "renewMark" /\ local[r].u = u /\ local[r].field \in Trials

Granted(u) == Trials \intersect user[u].activated # {} \/ \E r \in Actors : Marking(r, u)

TrialInv == TrialOnce /\ \A u \in Users \ disturbed : trials[u] = 1 => Granted(u)

\* A write of a document of u leaves u undisturbed only if nobody else has a copy of his.
LEMMA Alone ==
    ASSUME MoneyInv, NEW r \in Actors, NEW u \in Users, Disturbs(r, u), u \notin disturbed'
    PROVE  /\ disturbed' = disturbed
           /\ \A q \in Actors \ {r} :
                 /\ HoldsBalance(pc[q]) \/ HoldsMarks(pc[q], local[q]) => local[q].u # u
                 /\ ~HoldsSnapshot(q, pc[q], local[q], u)
<1>1. disturbed' = disturbed /\ ~Copied(r, u) /\ ~Snapshot(r, u)
  BY DEF Disturbs
<1>2. ASSUME NEW q \in Actors \ {r}
      PROVE  /\ HoldsBalance(pc[q]) \/ HoldsMarks(pc[q], local[q]) => local[q].u # u
             /\ ~HoldsSnapshot(q, pc[q], local[q], u)
  <2>1. Placed(q, pc[q], local[q])
    BY DEF MoneyInv, ActorsOK
  <2>2. local[q].u = u => local[q].b = None /\ local[q].d = None
    BY <1>1 DEF Copied
  <2>3. None \notin Balance /\ None \notin UserDoc /\ None \notin [Users -> UserDoc]
    <3>1. Balance \subseteq Balance
      BY DEF Balance, Balance
    <3> QED BY <3>1, DocumentsAssumption
  <2>4. HoldsBalance(pc[q]) \/ HoldsMarks(pc[q], local[q]) => local[q].u # u
    BY <2>1, <2>2, <2>3 DEF HoldsBalance, HoldsMarks, Placed
  <2>5. q = Stopper => u \notin local[q].users
    BY <1>1 DEF Snapshot
  <2>6. q = Stopper /\ pc[q] \in {"users", "stop"} => local[q].u # u
    BY <2>1, <2>2, <2>3 DEF Placed
  <2> QED BY <2>4, <2>5, <2>6 DEF HoldsSnapshot
<1> QED BY <1>1, <1>2

\* An actor that goes on without writing: what it has in hand then must be fresh.
LEMMA FreshGoes ==
    ASSUME FreshInv, ActorsOK, NEW r \in Actors, NEW where, NEW l, Goes(r, where, l),
           UNCHANGED <<account, user>>, disturbed \subseteq disturbed',
           \A u \in Users \ disturbed : FreshBy(r, where, l, u),
           r = Stopper => Aside(where, l)
    PROVE  FreshInv'
<1>1. ASSUME NEW u \in Users \ disturbed', NEW q \in Actors PROVE FreshBy(q, pc[q], local[q], u)'
  <2>1. u \in Users \ disturbed
    OBVIOUS
  <2>2. CASE q = r
    <3>1. pc'[q] = where /\ local'[q] = l
      BY <2>2 DEF Goes, ActorsOK
    <3> QED BY <2>1, <2>2, <3>1
            DEF FreshBy, SameMoney, HoldsBalance, HoldsMarks, HoldsSnapshot
  <2>3. CASE q # r
    <3>1. pc'[q] = pc[q] /\ local'[q] = local[q]
      BY <2>3 DEF Goes, ActorsOK
    <3> QED BY <2>1, <3>1
            DEF FreshInv, FreshBy, SameMoney, HoldsBalance, HoldsMarks, HoldsSnapshot
  <2> QED BY <2>2, <2>3
<1>2. Aside(pc[Stopper], local[Stopper])'
  <2>0. Stopper \in Actors
    BY DEF Actors
  <2>1. CASE r = Stopper
    BY <2>0, <2>1 DEF Goes, ActorsOK, Aside
  <2>2. CASE r # Stopper
    BY <2>0, <2>2 DEF Goes, ActorsOK, FreshInv, Aside
  <2> QED BY <2>1, <2>2
<1> QED BY <1>1, <1>2 DEF FreshInv

\* An actor that writes an account keeps no copy of it.
LEMMA FreshSaveAccount ==
    ASSUME FreshInv, MoneyInv, NEW r \in Actors \ {Stopper}, NEW where, NEW l, Goes(r, where, l),
           NEW v \in Users, NEW b, SaveAccount(r, v, b), UNCHANGED user, ~HoldsBalance(where),
           \A u \in Users \ disturbed : FreshBy(r, where, l, u)
    PROVE  FreshInv'
<1>1. ASSUME NEW u \in Users \ disturbed', NEW q \in Actors PROVE FreshBy(q, pc[q], local[q], u)'
  <2>1. u \in Users \ disturbed
    BY DEF SaveAccount, Disturbs
  <2>2. CASE q = r
    <3>1. pc'[q] = where /\ local'[q] = l
      BY <2>2 DEF Goes, MoneyInv, ActorsOK
    <3> QED BY <2>1, <2>2, <3>1 DEF FreshBy, HoldsBalance, HoldsMarks, HoldsSnapshot
  <2>3. CASE q # r
    <3>1. pc'[q] = pc[q] /\ local'[q] = local[q]
      BY <2>3 DEF Goes, MoneyInv, ActorsOK
    <3>2. FreshBy(q, pc[q], local[q], u)
      BY <2>1 DEF FreshInv
    <3>3. CASE u = v
      <4>1. HoldsBalance(pc[q]) => local[q].u # u
        BY <2>3, <3>3, Alone DEF SaveAccount
      <4> QED BY <3>1, <3>2, <4>1 DEF FreshBy, HoldsBalance, HoldsMarks, HoldsSnapshot
    <3>4. CASE u # v
      <4>1. account'[u] = account[u]
        BY <3>4 DEF SaveAccount, MoneyInv, DocsOK
      <4> QED BY <3>1, <3>2, <4>1
              DEF FreshBy, SameMoney, HoldsBalance, HoldsMarks, HoldsSnapshot
    <3> QED BY <3>3, <3>4
  <2> QED BY <2>2, <2>3
<1>2. Aside(pc[Stopper], local[Stopper])'
  BY DEF Goes, MoneyInv, ActorsOK, FreshInv, Aside, Actors
<1> QED BY <1>1, <1>2 DEF FreshInv

\* Nor one who writes a user document; the cron that stops robots keeps those of others.
LEMMA FreshSaveUser ==
    ASSUME FreshInv, MoneyInv, NEW r \in Actors, NEW where \in {"idle", "users"}, NEW l,
           Goes(r, where, l), NEW v \in Users, NEW d, SaveUser(r, v, d), UNCHANGED account,
           r = Stopper => /\ Aside(where, l) /\ v \notin l.users /\ l.u = None
                          /\ \A u \in Users \ disturbed : FreshBy(r, where, l, u)
    PROVE  FreshInv'
<1>1. ASSUME NEW u \in Users \ disturbed', NEW q \in Actors PROVE FreshBy(q, pc[q], local[q], u)'
  <2>1. u \in Users \ disturbed
    BY DEF SaveUser, Disturbs
  <2>4. u # v => user'[u] = user[u]
    BY DEF SaveUser, MoneyInv, DocsOK
  <2>2. CASE q = r
    <3>1. pc'[q] = where /\ local'[q] = l
      BY <2>2 DEF Goes, MoneyInv, ActorsOK
    <3>2. CASE r # Stopper
      BY <2>2, <3>1, <3>2 DEF FreshBy, HoldsBalance, HoldsMarks, HoldsSnapshot
    <3>3. CASE r = Stopper
      <4>1. HoldsSnapshot(q, where, l, u) => u # v /\ l.d[u].activated = user[u].activated
        BY <2>1, <2>2, <3>3, ActorsAssumption DEF HoldsSnapshot, FreshBy
      <4> QED BY <2>2, <2>4, <3>1, <4>1 DEF FreshBy, HoldsBalance, HoldsMarks, HoldsSnapshot
    <3> QED BY <3>2, <3>3
  <2>3. CASE q # r
    <3>1. pc'[q] = pc[q] /\ local'[q] = local[q]
      BY <2>3 DEF Goes, MoneyInv, ActorsOK
    <3>2. FreshBy(q, pc[q], local[q], u)
      BY <2>1 DEF FreshInv
    <3>3. CASE u = v
      <4>1. /\ HoldsBalance(pc[q]) \/ HoldsMarks(pc[q], local[q]) => local[q].u # u
            /\ ~HoldsSnapshot(q, pc[q], local[q], u)
        BY <2>3, <3>3, Alone DEF SaveUser
      <4> QED BY <3>1, <3>2, <4>1 DEF FreshBy, HoldsBalance, HoldsMarks, HoldsSnapshot
    <3>4. CASE u # v
      BY <2>4, <3>1, <3>2, <3>4
         DEF FreshBy, SameMoney, HoldsBalance, HoldsMarks, HoldsSnapshot
    <3> QED BY <3>3, <3>4
  <2> QED BY <2>2, <2>3
<1>2. Aside(pc[Stopper], local[Stopper])'
  BY DEF Goes, MoneyInv, ActorsOK, FreshInv, Aside, Actors
<1> QED BY <1>1, <1>2 DEF FreshInv
-----------------------------------------------------------------------------
(* The books: every step takes from one place what it brings to another     *)

OwedAt(p, l, u) ==
    IF l.u # u THEN 0
    ELSE CASE p = "record"       -> l.sum
           [] p = "rewardRecord" -> Reward(l.level, l.sum)
           [] OTHER              -> 0

PaidIn(ps, u) ==
    SumFunctionOnSet([i \in DOMAIN ps |-> IF ps[i].user = u THEN ps[i].sum ELSE 0], DOMAIN ps)

LEMMA PaidIs == \A u : Paid(u) = PaidIn(payments, u) /\ Paid(u)' = PaidIn(payments', u)
<1> QED BY DEF Paid, PaidIn

LEMMA PaidInt ==
    ASSUME NEW ps \in Seq(UserPayment), NEW u
    PROVE  /\ PaidIn(ps, u) \in Nat
           /\ \A i \in DOMAIN ps : (IF ps[i].user = u THEN ps[i].sum ELSE 0) \in Nat
           /\ IsFiniteSet(DOMAIN ps)
<1> DEFINE f == [i \in DOMAIN ps |-> IF ps[i].user = u THEN ps[i].sum ELSE 0]
<1>1. \A i \in DOMAIN ps : ps[i].sum \in Nat
  <2>1. \A i \in DOMAIN ps : ps[i] \in UserPayment
    BY ElementOfSeq
  <2> QED BY <2>1 DEF UserPayment
<1>2. \A i \in DOMAIN ps : f[i] \in Nat
  BY <1>1
<1>3. IsFiniteSet(DOMAIN ps)
  <2>1. PICK n \in Nat : DOMAIN ps = 1..n
    BY LenProperties
  <2> QED BY <2>1, FS_Interval
<1>4. \A i \in DOMAIN ps : (IF ps[i].user = u THEN ps[i].sum ELSE 0) \in Nat
  BY <1>1
<1> HIDE DEF f
<1>5. SumFunctionOnSet(f, DOMAIN ps) \in Nat
  BY <1>2, <1>3, SumType
<1> QED BY <1>3, <1>4, <1>5 DEF PaidIn, f

\* A recorded payment adds its sum to what its user has paid,
LEMMA PaidAppends ==
    ASSUME NEW ps \in Seq(UserPayment), NEW p \in UserPayment, NEW u
    PROVE  PaidIn(Append(ps, p), u) = PaidIn(ps, u) + (IF p.user = u THEN p.sum ELSE 0)
<1> DEFINE qs == Append(ps, p)
           n == Len(ps)
           f == [i \in DOMAIN ps |-> IF ps[i].user = u THEN ps[i].sum ELSE 0]
           g == [i \in DOMAIN qs |-> IF qs[i].user = u THEN qs[i].sum ELSE 0]
<1>1. /\ n \in Nat /\ DOMAIN ps = 1..n /\ DOMAIN qs = DOMAIN ps \union {n + 1}
      /\ n + 1 \notin DOMAIN ps /\ qs[n + 1] = p /\ \A i \in DOMAIN ps : qs[i] = ps[i]
      /\ qs \in Seq(UserPayment)
  <2>1. n \in Nat /\ DOMAIN ps = 1..n
    BY LenProperties
  <2>2. /\ qs \in Seq(UserPayment) /\ Len(qs) = n + 1 /\ \A i \in 1..n : qs[i] = ps[i]
        /\ qs[n + 1] = p
    BY AppendProperties
  <2>3. DOMAIN qs = 1..(n + 1)
    BY <2>2, LenProperties
  <2> HIDE DEF qs, n
  <2>4. 1..(n + 1) = 1..n \union {n + 1} /\ n + 1 \notin 1..n
    BY <2>1
  <2> QED BY <2>1, <2>2, <2>3, <2>4
<1>2. \A i \in DOMAIN ps : f[i] = g[i]
  BY <1>1
<1>3. g[n + 1] = (IF p.user = u THEN p.sum ELSE 0)
  BY <1>1
<1>4. /\ \A i \in DOMAIN ps : f[i] \in Int /\ g[i] \in Int
      /\ g[n + 1] \in Int /\ IsFiniteSet(DOMAIN ps)
  <2>1. \A i \in DOMAIN ps : f[i] \in Nat
    BY PaidInt
  <2>2. p.sum \in Nat
    BY DEF UserPayment
  <2> HIDE DEF f, g
  <2>3. IsFiniteSet(DOMAIN ps)
    BY PaidInt
  <2> QED BY <1>2, <1>3, <2>1, <2>2, <2>3
<1>5. PaidIn(qs, u) = SumFunctionOnSet(g, DOMAIN qs) /\ PaidIn(ps, u) = SumFunctionOnSet(f, DOMAIN ps)
  BY DEF PaidIn
<1> HIDE DEF f, g, qs, n
<1>6. SumFunctionOnSet(g, DOMAIN qs) = g[n + 1] + SumFunctionOnSet(g, DOMAIN ps)
  BY <1>1, <1>4, SumAdds
<1>7. SumFunctionOnSet(g, DOMAIN ps) = SumFunctionOnSet(f, DOMAIN ps)
  BY <1>2, <1>4, SumSame
<1>8. SumFunctionOnSet(f, DOMAIN ps) \in Int
  BY <1>4, SumType
<1>9. PaidIn(qs, u) = PaidIn(ps, u) + g[n + 1]
  BY <1>4, <1>5, <1>6, <1>7, <1>8
<1> QED BY <1>3, <1>9 DEF qs

\* ... and neither its status nor the mark of a deleted one changes that.
LEMMA PaidKept ==
    ASSUME NEW ps, NEW qs, DOMAIN ps = DOMAIN qs,
           \A i \in DOMAIN ps : ps[i].user = qs[i].user /\ ps[i].sum = qs[i].sum, NEW u
    PROVE  PaidIn(qs, u) = PaidIn(ps, u)
<1> DEFINE f == [i \in DOMAIN ps |-> IF ps[i].user = u THEN ps[i].sum ELSE 0]
           g == [i \in DOMAIN ps |-> IF qs[i].user = u THEN qs[i].sum ELSE 0]
<1>1. f = g
  OBVIOUS
<1>2. PaidIn(qs, u) = SumFunctionOnSet(g, DOMAIN ps) /\ PaidIn(ps, u) = SumFunctionOnSet(f, DOMAIN ps)
  BY DEF PaidIn
<1> HIDE DEF f, g
<1> QED BY <1>1, <1>2

LEMMA OwedNat ==
    ASSUME ActorsOK, NEW q \in Requests, NEW u
    PROVE  Owed(q, u) \in Nat
<1>1. pc[q] \in {"record", "rewardRecord"} => local[q].sum \in Nat
  BY DEF ActorsOK, Placed, Actors
<1>2. pc[q] \in {"record", "rewardRecord"} => Reward(local[q].level, local[q].sum) \in Nat
  BY <1>1, RewardNat
<1> QED BY <1>1, <1>2 DEF Owed

\* A step of one actor changes what is unrecorded by what it owes itself.
LEMMA UnrecordedMoves ==
    ASSUME ActorsOK, ActorsOK', NEW r \in Requests, NEW where, NEW l, Goes(r, where, l), NEW u
    PROVE  /\ Unrecorded(u)' = Unrecorded(u) + OwedAt(where, l, u) - Owed(r, u)
           /\ Unrecorded(u) \in Int /\ OwedAt(where, l, u) \in Nat
<1> DEFINE f == [q \in Requests |-> Owed(q, u)]
           g == [q \in Requests |-> Owed(q, u)']
<1>1. IsFiniteSet(Requests)
  BY ActorsAssumption
<1>2. \A q \in Requests : Owed(q, u) \in Nat /\ Owed(q, u)' \in Nat
  <2>1. \A q \in Requests : Owed(q, u)' \in Nat
    <3>1. SUFFICES ASSUME NEW q \in Requests PROVE Owed(q, u)' \in Nat
      OBVIOUS
    <3>2. pc'[q] \in {"record", "rewardRecord"} => local'[q].sum \in Nat
      BY DEF ActorsOK, Placed, Actors
    <3>3. pc'[q] \in {"record", "rewardRecord"} => Reward(local'[q].level, local'[q].sum) \in Nat
      BY <3>2, RewardNat
    <3> QED BY <3>2, <3>3 DEF Owed, Reward
  <2> QED BY <2>1, OwedNat
<1>3. \A q \in Requests : f[q] \in Int /\ g[q] \in Int
  BY <1>2
<1>4. \A q \in Requests \ {r} : f[q] = g[q]
  <2>1. SUFFICES ASSUME NEW q \in Requests \ {r} PROVE Owed(q, u) = Owed(q, u)'
    OBVIOUS
  <2>2. pc'[q] = pc[q] /\ local'[q] = local[q]
    BY DEF Goes, ActorsOK, Actors
  <2> QED BY <2>2 DEF Owed, Reward
<1>5. g[r] = OwedAt(where, l, u) /\ f[r] = Owed(r, u)
  <2>1. pc'[r] = where /\ local'[r] = l
    BY DEF Goes, ActorsOK, Actors
  <2>2. Owed(r, u)' = OwedAt(where, l, u)
    BY <2>1 DEF Owed, OwedAt, Reward
  <2> QED BY <2>2
<1>6. Unrecorded(u) = SumFunctionOnSet(f, Requests) /\ Unrecorded(u)' = SumFunctionOnSet(g, Requests)
  BY DEF Unrecorded
<1> HIDE DEF f, g
<1>7. /\ SumFunctionOnSet(g, Requests) = SumFunctionOnSet(f, Requests) + g[r] - f[r]
      /\ SumFunctionOnSet(f, Requests) \in Int
  BY <1>1, <1>3, <1>4, SumMoves
<1>8. OwedAt(where, l, u) \in Nat
  BY <1>2, <1>5 DEF g
<1> QED BY <1>5, <1>6, <1>7, <1>8

\* A step of a cron changes nothing of it.
LEMMA UnrecordedStays ==
    ASSUME ActorsOK,
           UNCHANGED <<pc, local>> \/
               \E r \in Actors \ Requests : \E where, l : Goes(r, where, l),
           NEW u
    PROVE  Unrecorded(u)' = Unrecorded(u) /\ Unrecorded(u) \in Int
<1> DEFINE f == [q \in Requests |-> Owed(q, u)]
           g == [q \in Requests |-> Owed(q, u)']
<1>0. IsFiniteSet(Requests)
  BY ActorsAssumption
<1>1. \A q \in Requests : Owed(q, u)' = Owed(q, u)
  <2>1. SUFFICES ASSUME NEW q \in Requests PROVE Owed(q, u)' = Owed(q, u)
    OBVIOUS
  <2>2. pc'[q] = pc[q] /\ local'[q] = local[q]
    BY DEF Goes, ActorsOK, Actors
  <2> QED BY <2>2 DEF Owed, Reward
<1>2. f = g
  BY <1>1
<1>3. Unrecorded(u) = SumFunctionOnSet(f, Requests) /\ Unrecorded(u)' = SumFunctionOnSet(g, Requests)
  BY DEF Unrecorded
<1>4. \A q \in Requests : f[q] \in Int
  BY OwedNat
<1> HIDE DEF f, g
<1>5. SumFunctionOnSet(f, Requests) \in Int
  BY <1>0, <1>4, SumType
<1> QED BY <1>2, <1>3, <1>5

\* A step of a request that keeps the difference keeps the books.
LEMMA BooksMove ==
    ASSUME MoneyInv, MoneyInv', BooksBalance, disturbed \subseteq disturbed',
           NEW r \in Requests, NEW where, NEW l, Goes(r, where, l),
           \A u \in Users \ disturbed' :
               Total(account'[u]) - booked'[u] - Paid(u)' - OwedAt(where, l, u)
                   = Total(account[u]) - booked[u] - Paid(u) - Owed(r, u)
    PROVE  BooksBalance'
<1> SUFFICES ASSUME NEW u \in Users, u \notin disturbed'
             PROVE  Total(account'[u]) = booked'[u] + Paid(u)' + Unrecorded(u)'
  BY DEF BooksBalance, Total
<1>1. /\ Unrecorded(u)' = Unrecorded(u) + OwedAt(where, l, u) - Owed(r, u)
      /\ Unrecorded(u) \in Int /\ OwedAt(where, l, u) \in Nat /\ Owed(r, u) \in Nat
  BY UnrecordedMoves, OwedNat DEF MoneyInv
<1>2. Total(account[u]) = booked[u] + Paid(u) + Unrecorded(u)
  BY DEF BooksBalance
<1>3. Paid(u) \in Nat /\ Paid(u)' \in Nat
  BY PaidIs, PaidInt DEF MoneyInv, BooksOK, DeskTypeOK
<1>4. /\ Total(account[u]) \in Int /\ Total(account'[u]) \in Int
      /\ booked[u] \in Int /\ booked'[u] \in Int
  <2>1. \A b \in Balance : Total(b) \in Int
    BY DEF Balance, Total
  <2> QED BY <2>1 DEF MoneyInv, DocsOK, BooksOK
<1>5. Total(account'[u]) - booked'[u] - Paid(u)' - OwedAt(where, l, u)
          = Total(account[u]) - booked[u] - Paid(u) - Owed(r, u)
  OBVIOUS
<1> QED BY <1>1, <1>2, <1>3, <1>4, <1>5

\* So does one of a cron, or of nobody.
LEMMA BooksStay ==
    ASSUME MoneyInv, MoneyInv', BooksBalance, disturbed \subseteq disturbed',
           UNCHANGED <<pc, local>> \/
               \E r \in Actors \ Requests : \E where, l : Goes(r, where, l),
           \A u \in Users \ disturbed' :
               Total(account'[u]) - booked'[u] - Paid(u)' = Total(account[u]) - booked[u] - Paid(u)
    PROVE  BooksBalance'
<1> SUFFICES ASSUME NEW u \in Users, u \notin disturbed'
             PROVE  Total(account'[u]) = booked'[u] + Paid(u)' + Unrecorded(u)'
  BY DEF BooksBalance, Total
<1>1. Unrecorded(u)' = Unrecorded(u) /\ Unrecorded(u) \in Int
  BY UnrecordedStays DEF MoneyInv
<1>2. Total(account[u]) = booked[u] + Paid(u) + Unrecorded(u)
  BY DEF BooksBalance
<1>3. Paid(u) \in Nat /\ Paid(u)' \in Nat
  BY PaidIs, PaidInt DEF MoneyInv, BooksOK, DeskTypeOK
<1>4. /\ Total(account[u]) \in Int /\ Total(account'[u]) \in Int
      /\ booked[u] \in Int /\ booked'[u] \in Int
  <2>1. \A b \in Balance : Total(b) \in Int
    BY DEF Balance, Total
  <2> QED BY <2>1 DEF MoneyInv, DocsOK, BooksOK
<1> QED BY <1>1, <1>2, <1>3, <1>4
-----------------------------------------------------------------------------
(* What a write makes of the money *)

\* A correction brings or takes what its caller knows of it, a payment its sum, and a
\* transfer, a renewal that is set and a longer subscription nothing.
LEMMA ResultTotal ==
    ASSUME now \in Nat, NEW l \in Local, NEW r, Placed(r, "write", l), Result(l) # None
    PROVE  Total(Result(l)) = Total(l.b) + Amount(l) + (IF l.op = "payment" THEN l.sum ELSE 0)
<1> USE DEF Placed, Total
<1>1. l.b \in Balance /\ l.sum \in Int /\ l.flag \in BOOLEAN /\ l.op \in Writing
  BY DEF Local
<1>2. l.b.main \in Int /\ l.b.bonus \in Int /\ l.b.referral \in Int /\ l.b.till \in Nat
  BY <1>1 DEF Balance
<1>3. CASE l.op \in Corrections
  <2>1. l.field \in Purses \union {"days"}
    BY <1>3
  <2>2. CASE l.op = "set"
    <3>1. Result(l) = Set(l.b, l.field, l.sum)
      BY <2>2 DEF Result
    <3>2. CASE l.field = "days"
      BY <1>1, <1>2, <2>2, <3>1, <3>2 DEF Set, Ends, Amount, Purses, Balance
    <3>3. CASE l.field \in Purses
      <4>1. Result(l) = [[l.b EXCEPT ![l.field] = l.sum] EXCEPT !.till = now]
        BY <3>1, <3>3 DEF Set, Ends, Purses
      <4>2. Total(Result(l)) = Total([l.b EXCEPT ![l.field] = l.sum])
        BY <1>1, <4>1 DEF Balance
      <4>3. Total([l.b EXCEPT ![l.field] = l.sum]) = Total(l.b) + (l.sum - l.b[l.field])
        BY <1>1, <1>2, <3>3 DEF Balance, Purses
      <4>4. Amount(l) = l.sum - l.b[l.field]
        BY <2>2, <3>3 DEF Amount
      <4>5. l.b[l.field] \in Int
        BY <1>2, <3>3 DEF Purses
      <4> HIDE DEF Total
      <4>6. Total(l.b) \in Int
        BY <1>2 DEF Total
      <4> QED BY <1>1, <2>2, <4>2, <4>3, <4>4, <4>5, <4>6
    <3> QED BY <2>1, <3>2, <3>3
  <2>3. CASE l.op = "change"
    <3>1. Result(l) = Change(l.b, l.field, l.sum)
      BY <2>3 DEF Result
    <3>2. CASE l.sum < 0
      BY <1>1, <1>2, <2>1, <2>3, <3>1, <3>2 DEF Change, Amount, Purses
    <3>3. CASE ~(l.sum < 0)
      BY <1>1, <1>2, <2>1, <2>3, <3>1, <3>3 DEF Change, Ends, Amount, Purses, Balance
    <3> QED BY <3>2, <3>3
  <2>4. CASE l.op = "add"
    <3>1. Result(l) = Add(l.b, l.field, l.sum)
      BY <2>4 DEF Result
    <3> QED BY <1>1, <1>2, <2>1, <2>4, <3>1 DEF Add, Ends, Amount, Purses, Balance
  <2>5. CASE l.op = "minus"
    <3>1. Result(l) = IF l.field = "days" THEN Ends(l.b, l.b.till - l.sum)
                      ELSE [l.b EXCEPT ![l.field] = @ - l.sum]
      BY <2>5 DEF Result, Minus
    <3> QED BY <1>1, <1>2, <2>1, <2>5, <3>1 DEF Ends, Amount, Purses, Balance
  <2> QED BY <1>3, <2>2, <2>3, <2>4, <2>5 DEF Corrections
<1>4. CASE l.op = "transfer"
  <2> DEFINE rest == l.b.referral - l.sum
             small == rest # 0 /\ -Dollar < rest /\ rest < Dollar
             moved == IF l.flag /\ small THEN l.b.referral ELSE l.sum
  <2>1. Result(l) = Transfer(l.b, l.sum, l.flag)
    BY <1>4 DEF Result
  <2>2. Result(l) = [l.b EXCEPT !.referral = @ - moved, !.main = @ + moved]
    BY <2>1 DEF Transfer
  <2>3. moved \in Int
    BY <1>1, <1>2
  <2> HIDE DEF moved
  <2>4. Amount(l) = 0
    BY <1>4 DEF Amount
  <2> QED BY <1>1, <1>2, <1>4, <2>2, <2>3, <2>4 DEF Balance
<1>5. CASE l.op = "reset"
  <2>1. Result(l) = [NewAccount EXCEPT !.till = now]
    BY <1>5 DEF Result, Reset
  <2>2. Amount(l) = -(l.b.main + l.b.bonus + l.b.referral)
    BY <1>5 DEF Amount
  <2> QED BY <1>2, <1>5, <2>1, <2>2 DEF NewAccount
<1>6. CASE l.op = "autoRenew"
  <2>1. Result(l) = AutoRenew(l.b, l.u, l.flag, l.field)
    BY <1>6 DEF Result
  <2>2. Amount(l) = 0
    BY <1>6 DEF Amount
  <2> QED BY <1>1, <1>2, <1>6, <2>1, <2>2 DEF AutoRenew, Balance
<1>7. CASE l.op = "payment"
  <2>1. Result(l) = Add(l.b, "main", l.sum)
    BY <1>7 DEF Result
  <2>2. Amount(l) = 0
    BY <1>7 DEF Amount
  <2> QED BY <1>1, <1>2, <1>7, <2>1, <2>2 DEF Add, Balance
<1> QED BY <1>1, <1>3, <1>4, <1>5, <1>6, <1>7 DEF Writing

\* A charge takes its cost, from whichever purses, and the extension nothing.
LEMMA ChargedTotal ==
    ASSUME NEW b \in Balance, NEW cost \in Nat, NEW ref \in BOOLEAN, NEW p,
           Charged(b, cost, ref) # None
    PROVE  Total(Extended(Charged(b, cost, ref), p)) = Total(b) - cost
<1> DEFINE bonus == Pays(b.bonus, cost)
           referral == IF ref THEN Pays(b.referral, cost - bonus) ELSE 0
           main == Pays(b.main, cost - bonus - referral)
<1>1. b.main \in Int /\ b.bonus \in Int /\ b.referral \in Int
  BY DEF Balance
<1>2. bonus \in Nat /\ bonus <= cost
  BY <1>1, PaysTyped
<1>3. referral \in Nat /\ referral <= cost - bonus
  <2> HIDE DEF bonus
  <2>1. cost - bonus \in Nat
    BY <1>2
  <2>2. CASE ref
    <3>1. referral = Pays(b.referral, cost - bonus)
      BY <2>2
    <3> HIDE DEF referral
    <3> QED BY <1>1, <2>1, <3>1, PaysTyped
  <2>3. CASE ~ref
    BY <2>1, <2>3
  <2> QED BY <2>2, <2>3
<1>4. main \in Nat /\ main <= cost - bonus - referral
  <2> HIDE DEF bonus, referral
  <2>1. cost - bonus - referral \in Nat
    BY <1>2, <1>3
  <2> QED BY <1>1, <2>1, PaysTyped
<1>5. /\ ~(bonus + referral + main < cost)
      /\ Charged(b, cost, ref) = [b EXCEPT !.bonus = b.bonus - bonus,
                                           !.referral = b.referral - referral,
                                           !.main = b.main - main]
  BY DEF Charged
<1> HIDE DEF bonus, referral, main
<1>6. Total(Charged(b, cost, ref)) = Total(b) - cost
  BY <1>1, <1>2, <1>3, <1>4, <1>5 DEF Total, Balance
<1>7. Total(Extended(Charged(b, cost, ref), p)) = Total(Charged(b, cost, ref))
  BY <1>5 DEF Extended, Ends, Total, Balance
<1> QED BY <1>6, <1>7

LEMMA SameTotal ==
    ASSUME NEW a, NEW b, SameMoney(a, b)
    PROVE  Total(a) = Total(b)
<1> QED BY DEF SameMoney, Total

-----------------------------------------------------------------------------
(* Steps that write nothing *)

OneTrial == \A s, t \in Trials : s = t

Keeps ==
    /\ FreshInv'
    /\ BooksBalance => BooksBalance'
    /\ OneTrial /\ TrialInv => TrialInv'

\* Nobody loses a trial's mark but by a write of his document, or by the death of who marks it.
LEMMA TrialKept ==
    ASSUME MoneyInv, TrialInv, disturbed \subseteq disturbed', trials' = trials,
           UNCHANGED <<pc, local>> \/ \E r \in Actors : \E where, l :
                                          Goes(r, where, l) /\ pc[r] # "renewMark",
           \A u \in Users \ disturbed' : user'[u].activated = user[u].activated
    PROVE  TrialInv'
<1>1. TrialOnce'
  BY DEF TrialInv, TrialOnce
<1>2. ASSUME NEW u \in Users \ disturbed', trials'[u] = 1 PROVE Granted(u)'
  <2>1. Granted(u)
    BY <1>2 DEF TrialInv
  <2>2. ASSUME NEW q \in Actors, Marking(q, u) PROVE Marking(q, u)'
    <3>1. pc'[q] = pc[q] /\ local'[q] = local[q]
      BY <2>2 DEF Marking, Goes, MoneyInv, ActorsOK
    <3> QED BY <2>2, <3>1 DEF Marking
  <2> QED BY <2>1, <2>2 DEF Granted
<1> QED BY <1>1, <1>2 DEF TrialInv

\* An actor goes on: it has computed or read something, or comes or goes.
LEMMA QuietKeeps ==
    ASSUME MoneyInv, MoneyInv', FreshInv, NEW r \in Actors, NEW where, NEW l, Goes(r, where, l),
           UNCHANGED <<account, user, booked, trials, disturbed, payments>>,
           pc[r] \notin {"record", "rewardRecord", "renewMark"},
           where \notin {"record", "rewardRecord"},
           \A u \in Users \ disturbed : FreshBy(r, where, l, u),
           r = Stopper => Aside(where, l)
    PROVE  Keeps
<1>1. FreshInv'
  BY FreshGoes DEF MoneyInv
<1>2. ASSUME BooksBalance PROVE BooksBalance'
  <2>1. \A u : Paid(u)' = Paid(u)
    BY DEF Paid
  <2>2. CASE r \in Requests
    <3>1. \A u : OwedAt(where, l, u) = 0 /\ Owed(r, u) = 0
      BY DEF OwedAt, Owed
    <3> QED BY <1>2, <2>1, <2>2, <3>1, BooksMove
  <2>3. CASE r \notin Requests
    BY <1>2, <2>1, <2>3, BooksStay
  <2> QED BY <2>2, <2>3
<1>3. ASSUME TrialInv PROVE TrialInv'
  BY <1>3, TrialKept
<1> QED BY <1>1, <1>2, <1>3 DEF Keeps

\* Nothing is fresh or stale in the hands of who has nothing.
LEMMA NothingHeld ==
    ASSUME NEW r \in Actors, NEW p, NEW l, NEW u \in Users,
           \/ p \in {"idle", "record", "reward", "rewardRecord", "renew", "fallback"}
           \/ p = "users" /\ r # Stopper
    PROVE  FreshBy(r, p, l, u) /\ FreshBy(r, p, l, u)'
<1> QED BY DEF FreshBy, HoldsBalance, HoldsMarks, HoldsSnapshot

\* Where a renewal ends.
LEMMA AfterGoes ==
    ASSUME NEW r \in Actors, NEW l, After(r, l)
    PROVE  \E where \in {"idle", "users"} : \E n :
               Goes(r, where, n) /\ (where = "users" => r = Renewer)
<1> QED BY DEF After, Returns

\* Nobody goes on.
LEMMA StillKeeps ==
    ASSUME MoneyInv, MoneyInv', FreshInv,
           UNCHANGED <<account, user, pc, local, booked, trials, disturbed>>,
           \A u : Paid(u)' = Paid(u)
    PROVE  Keeps
<1>1. FreshInv'
  BY DEF FreshInv, FreshBy, SameMoney, HoldsBalance, HoldsMarks, HoldsSnapshot, Aside
<1>2. ASSUME BooksBalance PROVE BooksBalance'
  BY <1>2, BooksStay
<1>3. ASSUME TrialInv PROVE TrialInv'
  BY <1>3, TrialKept
<1> QED BY <1>1, <1>2, <1>3 DEF Keeps
-----------------------------------------------------------------------------
(* A request arrives with a fresh copy, or with none *)

LEMMA ArrivesKeeps ==
    ASSUME MoneyInv, MoneyInv', FreshInv, NEW r \in Requests, NEW where, NEW l,
           Arrives(r, where, l), where \notin {"record", "rewardRecord"},
           \A u \in Users \ disturbed : FreshBy(r, where, l, u)
    PROVE  Keeps
<1>1. r \in Actors /\ r # Stopper
  BY ActorsAssumption DEF Actors
<1> QED BY <1>1, QuietKeeps DEF Arrives, deskVars

LEMMA BalanceRequestKeeps ==
    ASSUME MoneyInv, MoneyInv', FreshInv, NEW r \in Requests, NEW op, NEW u \in Users, NEW field,
           NEW sum, NEW flag, BalanceRequest(r, op, u, field, sum, flag)
    PROVE  Keeps
<1> DEFINE l == [NoLocal EXCEPT !.op = op, !.u = u, !.field = field, !.sum = sum,
                                !.flag = flag, !.b = Filled(account[u])]
<1>1. Arrives(r, "write", l)
  BY DEF BalanceRequest
<1>2. l.u = u /\ l.b = Filled(account[u])
  BY DEF NoLocal
<1>3. SameMoney(Filled(account[u]), account[u])
  <2>1. account[u] \in Balance
    BY DEF MoneyInv, DocsOK
  <2> QED BY <2>1 DEF Filled, SameMoney, Balance
<1>4. r # Stopper
  BY ActorsAssumption
<1> HIDE DEF l
<1>5. \A v \in Users \ disturbed : FreshBy(r, "write", l, v)
  BY <1>2, <1>3, <1>4 DEF FreshBy, HoldsMarks, HoldsSnapshot
<1> QED BY <1>1, <1>5, ArrivesKeeps

LEMMA RequestKeeps ==
    ASSUME MoneyInv, MoneyInv', FreshInv, NEW r \in Requests, Request(r)
    PROVE  Keeps
<1>0. ASSUME NEW op, NEW body \in UserAccountChangeBalanceBodyDto,
             BalanceRequest(r, op, body.userId, body.field, body.sum, FALSE)
      PROVE  Keeps
  <2>1. body.userId \in Users
    BY DEF UserAccountChangeBalanceBodyDto
  <2> QED BY <1>0, <2>1, BalanceRequestKeeps
<1>1. CASE \/ SetUserAccountBalance(r) \/ ChangeUserAccountBalance(r)
           \/ AddUserAccountBalance(r) \/ MinusUserAccountBalance(r)
  BY <1>0, <1>1 DEF SetUserAccountBalance, ChangeUserAccountBalance, AddUserAccountBalance,
                    MinusUserAccountBalance, Correction
<1>2. CASE TransferReferralBalance(r) \/ ResetUserAccountBalance(r) \/ AddPaymentRequest(r)
  BY <1>2, BalanceRequestKeeps
     DEF TransferReferralBalance, ResetUserAccountBalance, AddPaymentRequest
<1>3. CASE ChangeAutoRenewSubscriptionStatus(r)
  <2>1. PICK body \in UserSubscriptionAutoRenewBodyDto :
            BalanceRequest(r, "autoRenew", body.userId, body.product, 0, body.on)
    BY <1>3 DEF ChangeAutoRenewSubscriptionStatus
  <2>2. body.userId \in Users
    BY DEF UserSubscriptionAutoRenewBodyDto
  <2> QED BY <2>1, <2>2, BalanceRequestKeeps
<1>4. CASE ContinueUserAccountSubscriptionV1(r) \/ ContinueUserAccountSubscriptionV2(r)
  <2>1. PICK l : Arrives(r, "renew", l)
    BY <1>4 DEF ContinueUserAccountSubscriptionV1, ContinueUserAccountSubscriptionV2,
                ContinueUserAccountSubscription
  <2>2. r \in Actors
    BY DEF Actors
  <2> QED BY <2>1, <2>2, ArrivesKeeps, NothingHeld
<1>5. ASSUME NEW p \in {"switch", "mark"}, NEW l, NEW u \in Users, Arrives(r, p, l), l.u = u,
             (p = "mark" /\ l.op = "resetTrials") \/ l.d.activated = user[u].activated
      PROVE  Keeps
  <2>1. r # Stopper
    BY ActorsAssumption
  <2>2. \A v \in Users \ disturbed : FreshBy(r, p, l, v)
    BY <1>5, <2>1 DEF FreshBy, HoldsBalance, HoldsMarks, HoldsSnapshot
  <2> QED BY <1>5, <2>2, ArrivesKeeps
<1>6. CASE SwitchRequest(r)
  <2>1. PICK u \in Users, on \in BOOLEAN :
            Arrives(r, "switch", [NoLocal EXCEPT !.op = "switch", !.u = u, !.flag = on, !.d = user[u]])
    BY <1>6 DEF SwitchRequest, ChangeTradingStatus
  <2> QED BY <1>5, <2>1 DEF NoLocal
<1>7. CASE ResetRequest(r)
  <2>1. PICK u \in Users : Arrives(r, "mark", [NoLocal EXCEPT !.op = "resetTrials", !.u = u,
                                       !.d = [user[u] EXCEPT !.activated = @ \ Trials]])
    BY <1>7 DEF ResetRequest, ResetTrials
  <2> QED BY <1>5, <2>1 DEF NoLocal
<1>8. CASE CouponRequest(r)
  <2>1. PICK u \in Users : Arrives(r, "mark", [NoLocal EXCEPT !.op = "coupon", !.u = u,
                                       !.d = [user[u] EXCEPT !.coupon = TRUE]])
    BY <1>8 DEF CouponRequest, AddUserCoupon
  <2>2. user[u] \in UserDoc
    BY DEF MoneyInv, DocsOK
  <2>3. [user[u] EXCEPT !.coupon = TRUE].activated = user[u].activated
    BY <2>2 DEF UserDoc
  <2> QED BY <1>5, <2>1, <2>3 DEF NoLocal
<1>9. CASE ReferralRequest(r)
  <2>1. \A u : Paid(u)' = Paid(u)
    BY <1>9 DEF ReferralRequest, AddReferral, deskVars, Paid
  <2> QED BY <1>9, <2>1, StillKeeps DEF ReferralRequest, AddReferral
<1> QED BY <1>1, <1>2, <1>3, <1>4, <1>6, <1>7, <1>8, <1>9 DEF Request

-----------------------------------------------------------------------------
(* Payments and corrections *)

LEMMA WriteBalanceKeeps ==
    ASSUME MoneyInv, MoneyInv', FreshInv, NEW r \in Requests, WriteBalance(r)
    PROVE  Keeps
<1> DEFINE l == local[r]
<1>1. /\ r \in Actors /\ r # Stopper /\ l \in Local /\ Placed(r, "write", l) /\ now \in Nat
      /\ l.u \in Users /\ l.b \in Balance
  <2>1. r \in Actors /\ r # Stopper /\ l \in Local /\ Placed(r, "write", l) /\ now \in Nat
    BY NotStopper DEF WriteBalance, MoneyInv, Actors, DocsOK
  <2> QED BY <2>1 DEF Placed
<1>2. l.op = "payment" => ~Unwritten(l)
  <2>1. SUFFICES ASSUME l.op = "payment" PROVE Result(l) # None
    BY DEF Unwritten
  <2>2. Result(l) = [l.b EXCEPT !.main = l.b.main + l.sum]
    BY <1>1, <2>1 DEF Result, Add
  <2>3. Result(l) \in Balance
    BY <1>1, <2>2 DEF Balance, Balance, Local
  <2> QED BY <2>3, DocumentsAssumption
<1>3. CASE Unwritten(l)
  <2>1. Goes(r, "idle", NoLocal)
    BY <1>2, <1>3 DEF WriteBalance, Returns
  <2>2. UNCHANGED <<account, user, booked, trials, disturbed, payments>>
    BY <1>3 DEF WriteBalance, deskVars
  <2>3. pc[r] = "write"
    BY DEF WriteBalance
  <2> QED BY <1>1, <2>1, <2>2, <2>3, QuietKeeps, NothingHeld
<1>4. CASE ~Unwritten(l)
  <2>1. /\ SaveAccount(r, l.u, Result(l)) /\ booked' = [booked EXCEPT ![l.u] = @ + Amount(l)]
        /\ pc[r] = "write" /\ UNCHANGED <<user, trials, payments>>
    BY <1>4 DEF WriteBalance, deskVars
  <2>2. PICK where, n :
            /\ where \in {"idle", "record"} /\ Goes(r, where, n)
            /\ \A u \in Users : OwedAt(where, n, u)
                                   = IF u = l.u /\ l.op = "payment" THEN l.sum ELSE 0
    <3>1. CASE l.op = "payment"
      <4>1. Goes(r, "record", [l EXCEPT !.b = None])
        BY <3>1 DEF WriteBalance
      <4>2. [l EXCEPT !.b = None].u = l.u /\ [l EXCEPT !.b = None].sum = l.sum
        BY <1>1 DEF Local
      <4>3. \A u \in Users : OwedAt("record", [l EXCEPT !.b = None], u)
                                = IF u = l.u /\ l.op = "payment" THEN l.sum ELSE 0
        BY <3>1, <4>2 DEF OwedAt
      <4> HIDE DEF l
      <4> QED BY <4>1, <4>3
    <3>2. CASE l.op # "payment"
      BY <3>2 DEF WriteBalance, Returns, OwedAt
    <3> QED BY <3>1, <3>2
  <2>3. FreshInv'
    BY <1>1, <2>1, <2>2, FreshSaveAccount, NothingHeld DEF HoldsBalance
  <2>4. disturbed \subseteq disturbed'
    BY <2>1 DEF SaveAccount, Disturbs
  <2>5. ASSUME BooksBalance PROVE BooksBalance'
    <3>1. \A u : Paid(u)' = Paid(u) /\ Owed(r, u) = 0
      BY <2>1 DEF Paid, Owed
    <3>2. ASSUME NEW u \in Users \ disturbed'
          PROVE  Total(account'[u]) - booked'[u] - Paid(u)' - OwedAt(where, n, u)
                   = Total(account[u]) - booked[u] - Paid(u) - Owed(r, u)
      <4>1. Paid(u) \in Nat
        BY PaidIs, PaidInt DEF MoneyInv, BooksOK, DeskTypeOK
      <4>2. account[u] \in Balance /\ booked[u] \in Int
        BY DEF MoneyInv, DocsOK, BooksOK
      <4>3. CASE u # l.u
        <5>1. account'[u] = account[u] /\ booked'[u] = booked[u]
          BY <2>1, <4>3 DEF SaveAccount, MoneyInv, DocsOK, BooksOK
        <5> QED BY <2>2, <3>1, <4>3, <5>1
      <4>4. CASE u = l.u
        <5>1. account'[u] = Result(l) /\ booked'[u] = booked[u] + Amount(l)
          BY <2>1, <4>4 DEF SaveAccount, MoneyInv, DocsOK, BooksOK
        <5>2. Total(l.b) = Total(account[u])
          <6>1. SameMoney(l.b, account[u])
            BY <1>1, <2>1, <2>4, <4>4 DEF FreshInv, FreshBy, HoldsBalance
          <6> QED BY <6>1, SameTotal
        <5>3. Total(Result(l)) = Total(l.b) + Amount(l) + (IF l.op = "payment" THEN l.sum ELSE 0)
          BY <1>1, <1>4, ResultTotal DEF Unwritten
        <5>4. Amount(l) \in Int /\ l.sum \in Int
          BY <1>1, ResultTyped DEF Local
        <5>5. Total(account[u]) \in Int
          BY <4>2 DEF Balance, Total
        <5>6. OwedAt(where, n, u) = IF l.op = "payment" THEN l.sum ELSE 0
          BY <2>2, <4>4
        <5> QED BY <3>1, <4>1, <4>2, <5>1, <5>2, <5>3, <5>4, <5>5, <5>6
      <4> QED BY <4>3, <4>4
    <3> QED BY <2>2, <2>4, <2>5, <3>2, BooksMove
  <2>6. ASSUME TrialInv PROVE TrialInv'
    BY <1>1, <2>1, <2>2, <2>4, <2>6, TrialKept
  <2> QED BY <2>3, <2>5, <2>6 DEF Keeps
<1> QED BY <1>3, <1>4
\* A payment is owed from its credit to its record, and a reward likewise.
LEMMA PaymentStepKeeps ==
    ASSUME MoneyInv, MoneyInv', FreshInv, NEW r \in Requests,
           AddPayment(r) \/ RewardRead(r) \/ RewardWrite(r) \/ RewardRecord(r)
    PROVE  Keeps
<1> DEFINE l == local[r]
<1>1. r \in Actors /\ r # Stopper /\ l \in Local /\ Placed(r, pc[r], l)
  BY NotStopper DEF AddPayment, RewardRead, RewardWrite, RewardRecord, MoneyInv, Actors
<1>2. /\ l.sum \in Nat /\ Reward(l.level, l.sum) \in Nat
      /\ \A u \in Users : /\ account[u] \in Balance /\ booked[u] \in Int /\ Paid(u) \in Nat
                          /\ Total(account[u]) \in Int
  <2>1. \A b \in Balance : Total(b) \in Int
    BY DEF Balance, Total
  <2>2. \A u \in Users : account[u] \in Balance /\ booked[u] \in Int
    BY DEF MoneyInv, DocsOK, BooksOK
  <2>3. \A u \in Users : Paid(u) \in Nat
    BY PaidIs, PaidInt DEF MoneyInv, BooksOK, DeskTypeOK
  <2>4. l.sum \in Nat
    BY <1>1 DEF AddPayment, RewardRead, RewardWrite, RewardRecord, Placed
  <2> QED BY <2>1, <2>2, <2>3, <2>4, RewardNat
<1>3. CASE AddPayment(r)
  <2> DEFINE n == [l EXCEPT !.level = 1, !.u = partner[l.u]]
             p == [user |-> l.u, sum |-> l.sum, status |-> "paid", deleted |-> FALSE]
  <2>1. /\ Goes(r, "reward", n) /\ payments' = Append(payments, p) /\ pc[r] = "record"
        /\ UNCHANGED <<account, user, booked, trials, disturbed>>
    BY <1>3 DEF AddPayment, Recorded
  <2>2. p \in UserPayment
    BY <1>1, <1>2, <2>1 DEF Placed, UserPayment, PaymentStatus
  <2>3. \A u : Paid(u)' = Paid(u) + (IF u = l.u THEN l.sum ELSE 0)
    <3>1. \A u : PaidIn(payments', u) = PaidIn(payments, u) + (IF p.user = u THEN p.sum ELSE 0)
      BY <2>1, <2>2, PaidAppends DEF MoneyInv, BooksOK, DeskTypeOK
    <3> QED BY <3>1, PaidIs
  <2>4. \A u : OwedAt("reward", n, u) = 0 /\ Owed(r, u) = IF u = l.u THEN l.sum ELSE 0
    BY <2>1 DEF OwedAt, Owed
  <2> HIDE DEF n, p
  <2>5. FreshInv'
    BY <1>1, <2>1, FreshGoes, NothingHeld DEF MoneyInv
  <2>6. ASSUME BooksBalance PROVE BooksBalance'
    <3>1. ASSUME NEW u \in Users \ disturbed'
          PROVE  Total(account'[u]) - booked'[u] - Paid(u)' - OwedAt("reward", n, u)
                   = Total(account[u]) - booked[u] - Paid(u) - Owed(r, u)
      <4>1. /\ account'[u] = account[u] /\ booked'[u] = booked[u]
            /\ Paid(u) \in Nat /\ booked[u] \in Int /\ Total(account[u]) \in Int
        BY <1>2, <2>1
      <4>2. OwedAt("reward", n, u) = 0
        BY <2>4
      <4>3. CASE u = l.u
        <5>1. Paid(u)' = Paid(u) + l.sum /\ Owed(r, u) = l.sum
          BY <2>3, <2>4, <4>3
        <5> QED BY <1>2, <4>1, <4>2, <5>1
      <4>4. CASE u # l.u
        <5>1. Paid(u)' = Paid(u) + 0 /\ Owed(r, u) = 0
          BY <2>3, <2>4, <4>4
        <5> QED BY <4>1, <4>2, <5>1
      <4> QED BY <4>3, <4>4
    <3> QED BY <2>1, <2>6, <3>1, BooksMove
  <2>7. ASSUME TrialInv PROVE TrialInv'
    BY <1>1, <2>1, <2>7, TrialKept
  <2> QED BY <2>5, <2>6, <2>7 DEF Keeps
<1>4. CASE RewardRead(r)
  <2>1. UNCHANGED <<account, user, booked, trials, disturbed, payments>> /\ pc[r] = "reward"
    BY <1>4 DEF RewardRead, deskVars
  <2>2. CASE l.u = None
    <3>1. Goes(r, "idle", NoLocal)
      BY <1>4, <2>2 DEF RewardRead, Returns
    <3> QED BY <1>1, <2>1, <3>1, QuietKeeps, NothingHeld
  <2>3. CASE l.u # None
    <3> DEFINE n == [l EXCEPT !.b = Filled(account[l.u])]
    <3>1. Goes(r, "rewardWrite", n)
      BY <1>4, <2>3 DEF RewardRead
    <3>2. l.u \in Users /\ n.u = l.u /\ n.b = Filled(account[l.u])
      BY <1>1, <2>3 DEF Local
    <3>3. SameMoney(Filled(account[l.u]), account[l.u])
      BY <1>2, <3>2 DEF Filled, SameMoney, Balance
    <3> HIDE DEF n
    <3>4. \A u \in Users \ disturbed : FreshBy(r, "rewardWrite", n, u)
      BY <1>1, <3>2, <3>3 DEF FreshBy, HoldsMarks, HoldsSnapshot
    <3> QED BY <1>1, <2>1, <3>1, <3>4, QuietKeeps
  <2> QED BY <2>2, <2>3
<1>5. CASE RewardWrite(r)
  <2> DEFINE n == [l EXCEPT !.b = None]
             reward == Reward(l.level, l.sum)
             new == [l.b EXCEPT !.referral = @ + reward]
  <2>1. /\ Goes(r, "rewardRecord", n) /\ pc[r] = "rewardWrite"
        /\ SaveAccount(r, l.u, new)
        /\ UNCHANGED <<user, booked, trials, payments>>
    BY <1>5 DEF RewardWrite, deskVars
  <2>2. l.u \in Users /\ l.b \in Balance
    BY <1>1, <2>1 DEF Placed
  <2>3. n.u = l.u /\ Reward(n.level, n.sum) = reward
    BY <1>1 DEF Local
  <2>4. Total(new) = Total(l.b) + reward
    <3>1. reward \in Nat
      BY <1>2
    <3> HIDE DEF reward
    <3> QED BY <2>2, <3>1 DEF Total, Balance
  <2>5. disturbed \subseteq disturbed'
    BY <2>1 DEF SaveAccount, Disturbs
  <2>6. \A u : OwedAt("rewardRecord", n, u) = (IF u = l.u THEN reward ELSE 0) /\ Owed(r, u) = 0
    BY <2>1, <2>3 DEF OwedAt, Owed
  <2>13. reward \in Nat
    BY <1>2
  <2> HIDE DEF n, reward, new
  <2>7. FreshInv'
    BY <1>1, <2>1, <2>2, FreshSaveAccount, NothingHeld DEF HoldsBalance
  <2>8. ASSUME BooksBalance PROVE BooksBalance'
    <3>1. ASSUME NEW u \in Users \ disturbed'
          PROVE  Total(account'[u]) - booked'[u] - Paid(u)' - OwedAt("rewardRecord", n, u)
                   = Total(account[u]) - booked[u] - Paid(u) - Owed(r, u)
      <4>1. /\ Paid(u)' = Paid(u) /\ booked'[u] = booked[u] /\ Owed(r, u) = 0
            /\ Paid(u) \in Nat /\ booked[u] \in Int /\ Total(account[u]) \in Int
        BY <1>2, <2>1, <2>6 DEF Paid
      <4>2. CASE u = l.u
        <5>1. SameMoney(l.b, account[u])
          BY <1>1, <2>1, <2>5, <4>2 DEF FreshInv, FreshBy, HoldsBalance
        <5>2. account'[u] = new
          BY <2>1, <4>2 DEF SaveAccount, MoneyInv, DocsOK
        <5>3. OwedAt("rewardRecord", n, u) = reward
          BY <2>6, <4>2
        <5>4. Total(l.b) = Total(account[u])
          BY <5>1, SameTotal
        <5> QED BY <2>4, <2>13, <4>1, <5>2, <5>3, <5>4
      <4>3. CASE u # l.u
        <5>1. account'[u] = account[u] /\ OwedAt("rewardRecord", n, u) = 0
          BY <2>1, <2>6, <4>3 DEF SaveAccount, MoneyInv, DocsOK
        <5> QED BY <4>1, <5>1
      <4> QED BY <4>2, <4>3
    <3> QED BY <2>1, <2>5, <2>8, <3>1, BooksMove
  <2>9. ASSUME TrialInv PROVE TrialInv'
    BY <1>1, <2>1, <2>5, <2>9, TrialKept
  <2> QED BY <2>7, <2>8, <2>9 DEF Keeps
<1>6. CASE RewardRecord(r)
  <2> DEFINE reward == Reward(l.level, l.sum)
  <2>1. PICK where, n : where \in {"idle", "reward"} /\ Goes(r, where, n)
    BY <1>6 DEF RewardRecord, Returns
  <2>2. /\ booked' = [booked EXCEPT ![l.u] = @ + reward] /\ pc[r] = "rewardRecord"
        /\ UNCHANGED <<account, user, trials, disturbed, payments>>
    BY <1>6 DEF RewardRecord, deskVars
  <2>3. \A u : OwedAt(where, n, u) = 0 /\ Owed(r, u) = IF u = l.u THEN reward ELSE 0
    BY <2>1, <2>2 DEF OwedAt, Owed
  <2>4. reward \in Nat
    BY <1>2
  <2> HIDE DEF reward
  <2>5. FreshInv'
    BY <1>1, <2>1, <2>2, FreshGoes, NothingHeld DEF MoneyInv
  <2>6. ASSUME BooksBalance PROVE BooksBalance'
    <3>1. ASSUME NEW u \in Users \ disturbed'
          PROVE  Total(account'[u]) - booked'[u] - Paid(u)' - OwedAt(where, n, u)
                   = Total(account[u]) - booked[u] - Paid(u) - Owed(r, u)
      <4>1. /\ Paid(u)' = Paid(u) /\ account'[u] = account[u] /\ OwedAt(where, n, u) = 0
            /\ Paid(u) \in Nat /\ booked[u] \in Int /\ Total(account[u]) \in Int
        BY <1>2, <2>2, <2>3 DEF Paid
      <4>2. CASE u = l.u
        <5>1. booked'[u] = booked[u] + reward
          BY <2>2, <4>2 DEF MoneyInv, BooksOK
        <5>2. Owed(r, u) = reward
          BY <2>3, <4>2
        <5> QED BY <2>4, <4>1, <5>1, <5>2
      <4>3. CASE u # l.u
        <5>1. booked'[u] = booked[u]
          BY <2>2, <4>3 DEF MoneyInv, BooksOK
        <5>2. Owed(r, u) = 0
          BY <2>3, <4>3
        <5> QED BY <4>1, <5>1, <5>2
      <4> QED BY <4>2, <4>3
    <3> QED BY <2>1, <2>2, <2>6, <3>1, BooksMove
  <2>7. ASSUME TrialInv PROVE TrialInv'
    BY <1>1, <2>1, <2>2, <2>7, TrialKept
  <2> QED BY <2>5, <2>6, <2>7 DEF Keeps
<1> QED BY <1>3, <1>4, <1>5, <1>6
-----------------------------------------------------------------------------
(* Renewals: a trial is granted where its mark is missing, and then marked *)

\* A step of another actor does not keep one from marking.
LEMMA MarkingStays ==
    ASSUME MoneyInv, NEW r \in Actors, NEW where, NEW l, Goes(r, where, l),
           NEW q \in Actors \ {r}, NEW u, Marking(q, u)
    PROVE  Marking(q, u)'
<1>1. pc'[q] = pc[q] /\ local'[q] = local[q]
  BY DEF Goes, MoneyInv, ActorsOK
<1> QED BY <1>1 DEF Marking

LEMMA RenewReadKeeps ==
    ASSUME MoneyInv, MoneyInv', FreshInv, NEW r \in Requests \union {Renewer},
           RenewReadUser(r) \/ RenewReadAccount(r)
    PROVE  Keeps
<1> DEFINE l == local[r]
<1>1. r \in Actors /\ r # Stopper /\ l \in Local /\ Placed(r, pc[r], l)
  BY NotStopper DEF RenewReadUser, RenewReadAccount, MoneyInv, Actors
<1>2. /\ UNCHANGED <<account, user, booked, trials, disturbed, payments>>
      /\ pc[r] \in {"renew", "renewRead"}
  BY DEF RenewReadUser, RenewReadAccount, deskVars
<1>3. l.u \in Users /\ account[l.u] \in Balance
  BY <1>1, <1>2 DEF Placed, MoneyInv, DocsOK
<1>4. CASE After(r, l)
  <2>1. PICK where, n : where \in {"idle", "users"} /\ Goes(r, where, n)
    BY <1>1, <1>4, AfterGoes
  <2> QED BY <1>1, <1>2, <2>1, QuietKeeps, NothingHeld
<1>5. CASE RenewReadUser(r) /\ ~After(r, l)
  <2> DEFINE n == [l EXCEPT !.d = user[l.u]]
  <2>1. Goes(r, "renewRead", n) /\ ~(l.field \in Trials \intersect user[l.u].activated)
    BY <1>5 DEF RenewReadUser
  <2>2. n.u = l.u /\ n.d = user[l.u] /\ n.field = l.field
    BY <1>1 DEF Local
  <2> HIDE DEF n
  <2>3. \A u \in Users \ disturbed : FreshBy(r, "renewRead", n, u)
    BY <1>1, <2>1, <2>2 DEF FreshBy, HoldsBalance, HoldsMarks, HoldsSnapshot
  <2> QED BY <1>1, <1>2, <2>1, <2>3, QuietKeeps
<1>6. CASE RenewReadAccount(r) /\ ~After(r, l)
  <2> DEFINE n == [l EXCEPT !.b = Filled(account[l.u])]
  <2>1. Goes(r, "renewWrite", n) /\ pc[r] = "renewRead"
    BY <1>6 DEF RenewReadAccount
  <2>2. n.u = l.u /\ n.b = Filled(account[l.u]) /\ n.field = l.field /\ n.d = l.d
    BY <1>1 DEF Local
  <2>3. SameMoney(Filled(account[l.u]), account[l.u])
    BY <1>3 DEF Filled, SameMoney, Balance
  <2> HIDE DEF n
  <2>4. ASSUME NEW u \in Users \ disturbed PROVE FreshBy(r, "renewWrite", n, u)
    <3>1. FreshBy(r, "renewRead", l, u)
      BY <1>1, <2>1 DEF FreshInv
    <3> QED BY <1>1, <2>2, <2>3, <3>1 DEF FreshBy, HoldsBalance, HoldsMarks, HoldsSnapshot
  <2> QED BY <1>1, <1>2, <2>1, <2>4, QuietKeeps
<1> QED BY <1>4, <1>5, <1>6

LEMMA RenewWriteKeeps ==
    ASSUME MoneyInv, MoneyInv', FreshInv, NEW r \in Requests \union {Renewer}, RenewWrite(r)
    PROVE  Keeps
<1> DEFINE l == local[r]
           n == [l EXCEPT !.b = None]
           new == Extended(Charged(l.b, l.cost, l.flag), l.field)
<1>1. r \in Actors /\ r # Stopper /\ l \in Local /\ Placed(r, "renewWrite", l) /\ pc[r] = "renewWrite"
  BY NotStopper DEF RenewWrite, MoneyInv, Actors
<1>2. /\ l.u \in Users /\ l.b \in Balance /\ l.cost \in Nat /\ l.flag \in BOOLEAN
      /\ Charged(l.b, l.cost, l.flag) # None
  BY <1>1 DEF Placed, Local
<1>3. n.u = l.u /\ n.field = l.field /\ n.d = l.d
  BY <1>1 DEF Local
<1>4. /\ Goes(r, "renewMark", n) /\ SaveAccount(r, l.u, new) /\ UNCHANGED <<user, payments>>
      /\ booked' = [booked EXCEPT ![l.u] = @ - l.cost]
      /\ trials' = IF l.field \in Trials THEN [trials EXCEPT ![l.u] = @ + 1] ELSE trials
  BY DEF RenewWrite, deskVars
<1>5. Total(new) = Total(l.b) - l.cost
  BY <1>2, ChargedTotal
<1> HIDE DEF n, new
<1>6. disturbed \subseteq disturbed'
  BY <1>4 DEF SaveAccount, Disturbs
<1>7. \A u \in Users \ disturbed : FreshBy(r, "renewWrite", l, u)
  BY <1>1 DEF FreshInv
<1>8. FreshInv'
  <2>1. \A u \in Users \ disturbed : FreshBy(r, "renewMark", n, u)
    BY <1>1, <1>3, <1>7 DEF FreshBy, HoldsBalance, HoldsMarks, HoldsSnapshot
  <2> QED BY <1>1, <1>2, <1>4, <2>1, FreshSaveAccount DEF HoldsBalance
<1>9. ASSUME BooksBalance PROVE BooksBalance'
  <2>1. ASSUME NEW u \in Users \ disturbed'
        PROVE  Total(account'[u]) - booked'[u] = Total(account[u]) - booked[u]
    <3>1. booked[u] \in Int /\ Total(account[u]) \in Int
      <4>1. account[u] \in Balance /\ booked[u] \in Int
        BY DEF MoneyInv, DocsOK, BooksOK
      <4> QED BY <4>1 DEF Balance, Total
    <3>2. CASE u = l.u
      <4>1. SameMoney(l.b, account[u])
        BY <1>6, <1>7, <3>2 DEF FreshBy, HoldsBalance
      <4>2. account'[u] = new /\ booked'[u] = booked[u] - l.cost
        BY <1>4, <3>2 DEF SaveAccount, MoneyInv, DocsOK, BooksOK
      <4>3. Total(l.b) = Total(account[u])
        BY <4>1, SameTotal
      <4> QED BY <1>2, <1>5, <3>1, <4>2, <4>3
    <3>3. CASE u # l.u
      BY <1>4, <3>3 DEF SaveAccount, MoneyInv, DocsOK, BooksOK
    <3> QED BY <3>2, <3>3
  <2>2. \A u : Paid(u)' = Paid(u)
    BY <1>4 DEF Paid
  <2>3. CASE r \in Requests
    <3>1. \A u : OwedAt("renewMark", n, u) = 0 /\ Owed(r, u) = 0
      BY <1>1 DEF OwedAt, Owed
    <3> QED BY <1>4, <1>6, <1>9, <2>1, <2>2, <2>3, <3>1, BooksMove
  <2>4. CASE r \notin Requests
    BY <1>1, <1>4, <1>6, <1>9, <2>1, <2>2, <2>4, BooksStay
  <2> QED BY <2>3, <2>4
<1>10. ASSUME OneTrial, TrialInv PROVE TrialInv'
  <2>1. ASSUME NEW u \in Users \ disturbed'
        PROVE  trials'[u] <= 1 /\ (trials'[u] = 1 => Granted(u)')
    <3>1. trials[u] <= 1 /\ (trials[u] = 1 => Granted(u)) /\ trials[u] \in Nat
      BY <1>6, <1>10 DEF TrialInv, TrialOnce, MoneyInv, BooksOK
    <3>2. CASE u = l.u /\ l.field \in Trials
      <4>1. Trials \intersect user[u].activated = {}
        <5>1. l.field \notin user[u].activated
          BY <1>6, <1>7, <3>2 DEF FreshBy
        <5> QED BY <1>10, <3>2, <5>1 DEF OneTrial
      <4>2. ASSUME NEW q \in Actors PROVE ~Marking(q, u)
        <5>1. CASE q = r
          BY <1>1, <5>1 DEF Marking
        <5>2. CASE q # r
          <6>1. HoldsMarks(pc[q], local[q]) => local[q].u # u
            BY <1>1, <1>4, <3>2, <5>2, Alone DEF SaveAccount
          <6> QED BY <6>1 DEF Marking, HoldsMarks
        <5> QED BY <5>1, <5>2
      <4>3. trials[u] = 0
        BY <3>1, <4>1, <4>2 DEF Granted
      <4>4. trials'[u] = 1
        BY <1>4, <3>2, <4>3 DEF MoneyInv, BooksOK
      <4>5. Marking(r, u)'
        <5>1. pc'[r] = "renewMark" /\ local'[r] = n
          BY <1>1, <1>4 DEF Goes, MoneyInv, ActorsOK
        <5> QED BY <1>3, <3>2, <5>1 DEF Marking
      <4> QED BY <1>1, <4>4, <4>5 DEF Granted
    <3>3. CASE ~(u = l.u /\ l.field \in Trials)
      <4>1. trials'[u] = trials[u]
        BY <1>4, <3>3 DEF MoneyInv, BooksOK
      <4>2. \A q \in Actors : Marking(q, u) => Marking(q, u)'
        <5>1. ~Marking(r, u)
          BY <1>1 DEF Marking
        <5> QED BY <1>1, <1>4, <5>1, MarkingStays
      <4>3. Granted(u) => Granted(u)'
        BY <1>4, <4>2 DEF Granted
      <4> QED BY <3>1, <4>1, <4>3
    <3> QED BY <3>2, <3>3
  <2> QED BY <2>1 DEF TrialInv, TrialOnce
<1> QED BY <1>8, <1>9, <1>10 DEF Keeps

LEMMA RenewMarkKeeps ==
    ASSUME MoneyInv, MoneyInv', FreshInv, NEW r \in Requests \union {Renewer}, RenewMark(r)
    PROVE  Keeps
<1> DEFINE l == local[r]
           p == partner[l.u]
           passed == IF p # None /\ Coupon \in user[p].activated THEN {Coupon} ELSE {}
           new == [l.d EXCEPT !.activated = @ \union {l.field} \union passed]
<1>1. r \in Actors /\ r # Stopper /\ l \in Local /\ Placed(r, "renewMark", l) /\ pc[r] = "renewMark"
  BY NotStopper DEF RenewMark, MoneyInv, Actors
<1>2. l.u \in Users /\ l.d \in UserDoc
  BY <1>1 DEF Placed
<1>3. SaveUser(r, l.u, new) /\ UNCHANGED <<account, booked, trials, payments>> /\ After(r, l)
  BY DEF RenewMark, deskVars
<1>4. PICK where, n : where \in {"idle", "users"} /\ Goes(r, where, n)
  BY <1>1, <1>3, AfterGoes
<1>5. l.d.activated \union {l.field} \subseteq new.activated
  BY <1>2 DEF UserDoc
<1> HIDE DEF new
<1>6. disturbed \subseteq disturbed'
  BY <1>3 DEF SaveUser, Disturbs
<1>7. FreshInv'
  BY <1>1, <1>2, <1>3, <1>4, FreshSaveUser
<1>8. ASSUME BooksBalance PROVE BooksBalance'
  <2>1. \A u : Paid(u)' = Paid(u)
    BY <1>3 DEF Paid
  <2>2. CASE r \in Requests
    <3>1. \A u : OwedAt(where, n, u) = 0 /\ Owed(r, u) = 0
      BY <1>1, <1>4 DEF OwedAt, Owed
    <3> QED BY <1>3, <1>4, <1>6, <1>8, <2>1, <2>2, <3>1, BooksMove
  <2>3. CASE r \notin Requests
    BY <1>1, <1>3, <1>4, <1>6, <1>8, <2>1, <2>3, BooksStay
  <2> QED BY <2>2, <2>3
<1>9. ASSUME TrialInv PROVE TrialInv'
  <2>1. TrialOnce'
    BY <1>3, <1>6, <1>9 DEF TrialInv, TrialOnce
  <2>2. ASSUME NEW u \in Users \ disturbed', trials'[u] = 1 PROVE Granted(u)'
    <3>1. Granted(u)
      BY <1>3, <1>6, <1>9, <2>2 DEF TrialInv
    <3>2. CASE u = l.u
      <4>1. user'[u] = new
        BY <1>3, <3>2 DEF SaveUser, MoneyInv, DocsOK
      <4>2. l.d.activated = user[u].activated
        BY <1>1, <1>6, <3>2 DEF FreshInv, FreshBy, HoldsMarks
      <4>3. \A q \in Actors \ {r} : ~Marking(q, u)
        <5>1. \A q \in Actors \ {r} : HoldsMarks(pc[q], local[q]) => local[q].u # u
          BY <1>1, <1>3, <3>2, Alone DEF SaveUser
        <5> QED BY <5>1 DEF Marking, HoldsMarks
      <4>4. Trials \intersect user[u].activated # {} \/ l.field \in Trials
        BY <3>1, <4>3 DEF Granted, Marking
      <4>5. Trials \intersect user'[u].activated # {}
        BY <1>5, <4>1, <4>2, <4>4
      <4> QED BY <4>5 DEF Granted
    <3>3. CASE u # l.u
      <4>1. user'[u] = user[u]
        BY <1>3, <3>3 DEF SaveUser, MoneyInv, DocsOK
      <4>2. \A q \in Actors : Marking(q, u) => Marking(q, u)'
        <5>1. ~Marking(r, u)
          BY <3>3 DEF Marking
        <5> QED BY <1>1, <1>4, <5>1, MarkingStays
      <4> QED BY <3>1, <4>1, <4>2 DEF Granted
    <3> QED BY <3>2, <3>3
  <2> QED BY <2>1, <2>2 DEF TrialInv
<1> QED BY <1>7, <1>8, <1>9 DEF Keeps
-----------------------------------------------------------------------------
(* The trading switch and the marks *)

LEMMA UserStepKeeps ==
    ASSUME MoneyInv, MoneyInv', FreshInv, NEW r \in Requests, SwitchCheck(r) \/ MarkUser(r)
    PROVE  Keeps
<1> DEFINE l == local[r]
<1>1. r \in Actors /\ r # Stopper /\ l \in Local /\ l.u \in Users /\ l.d \in UserDoc
  BY NotStopper DEF SwitchCheck, MarkUser, Placed, MoneyInv, Actors
<1>2. CASE SwitchCheck(r)
  <2>1. UNCHANGED <<account, user, booked, trials, disturbed, payments>> /\ pc[r] = "switch"
    BY <1>2 DEF SwitchCheck, deskVars
  <2>2. CASE Returns(r)
    <3>1. Goes(r, "idle", NoLocal)
      BY <2>2 DEF Returns
    <3> QED BY <1>1, <2>1, <3>1, QuietKeeps, NothingHeld
  <2>3. CASE ~Returns(r)
    <3> DEFINE n == [l EXCEPT !.d = [l.d EXCEPT !.active = l.flag]]
    <3>1. Goes(r, "mark", n)
      BY <1>2, <2>3 DEF SwitchCheck
    <3>2. n.u = l.u /\ n.d.activated = l.d.activated
      BY <1>1 DEF Local, UserDoc
    <3> HIDE DEF n
    <3>3. ASSUME NEW u \in Users \ disturbed PROVE FreshBy(r, "mark", n, u)
      <4>1. FreshBy(r, "switch", l, u)
        BY <1>1, <2>1 DEF FreshInv
      <4> QED BY <1>1, <3>2, <4>1 DEF FreshBy, HoldsBalance, HoldsMarks, HoldsSnapshot
    <3> QED BY <1>1, <2>1, <3>1, <3>3, QuietKeeps
  <2> QED BY <2>2, <2>3
<1>3. CASE MarkUser(r)
  <2>1. /\ Goes(r, "idle", NoLocal) /\ SaveUser(r, l.u, l.d) /\ pc[r] = "mark"
        /\ trials' = IF l.op = "resetTrials" THEN [trials EXCEPT ![l.u] = 0] ELSE trials
        /\ UNCHANGED <<account, booked, payments>>
    BY <1>3 DEF MarkUser, Returns, deskVars
  <2>2. disturbed \subseteq disturbed'
    BY <2>1 DEF SaveUser, Disturbs
  <2>3. FreshInv'
    BY <1>1, <2>1, FreshSaveUser
  <2>4. ASSUME BooksBalance PROVE BooksBalance'
    <3>1. \A u : Paid(u)' = Paid(u) /\ OwedAt("idle", NoLocal, u) = 0 /\ Owed(r, u) = 0
      BY <2>1 DEF Paid, OwedAt, Owed
    <3> QED BY <2>1, <2>2, <2>4, <3>1, BooksMove
  <2>5. ASSUME TrialInv PROVE TrialInv'
    <3>1. ASSUME NEW u \in Users \ disturbed'
          PROVE  trials'[u] <= 1 /\ (trials'[u] = 1 => Granted(u)')
      <4>1. trials[u] <= 1 /\ (trials[u] = 1 => Granted(u)) /\ trials \in [Users -> Nat]
        BY <2>2, <2>5 DEF TrialInv, TrialOnce, MoneyInv, BooksOK
      <4>2. CASE u = l.u /\ l.op = "resetTrials"
        BY <2>1, <4>1, <4>2
      <4>3. CASE ~(u = l.u /\ l.op = "resetTrials")
        <5>1. trials'[u] = trials[u]
          BY <2>1, <4>1, <4>3
        <5>2. user'[u].activated = user[u].activated
          <6>1. CASE u = l.u
            <7>1. l.d.activated = user[u].activated
              BY <1>1, <2>1, <2>2, <4>3, <6>1 DEF FreshInv, FreshBy, HoldsMarks
            <7> QED BY <2>1, <6>1, <7>1 DEF SaveUser, MoneyInv, DocsOK
          <6>2. CASE u # l.u
            BY <2>1, <6>2 DEF SaveUser, MoneyInv, DocsOK
          <6> QED BY <6>1, <6>2
        <5>3. \A q \in Actors : Marking(q, u) => Marking(q, u)'
          <6>1. ~Marking(r, u)
            BY <2>1 DEF Marking
          <6> QED BY <1>1, <2>1, <6>1, MarkingStays
        <5> QED BY <4>1, <5>1, <5>2, <5>3 DEF Granted
      <4> QED BY <4>2, <4>3
    <3> QED BY <3>1 DEF TrialInv, TrialOnce
  <2> QED BY <2>3, <2>4, <2>5 DEF Keeps
<1> QED BY <1>2, <1>3

-----------------------------------------------------------------------------
(* The crons *)

LEMMA RenewerKeeps ==
    ASSUME MoneyInv, MoneyInv', FreshInv, RenewerStep
    PROVE  Keeps
<1> DEFINE l == local[Renewer]
<1>1. /\ Renewer \in Actors /\ Renewer # Stopper /\ l \in Local /\ Placed(Renewer, pc[Renewer], l)
      /\ Renewer \notin Requests
  BY ActorsAssumption DEF Actors, MoneyInv, ActorsOK
<1>2. CASE RenewerStart \/ RenewerTake
  <2>1. PICK where, n : where \in {"idle", "users", "renew", "fallback"} /\ Goes(Renewer, where, n)
    <3>1. CASE RenewerStart
      BY <3>1 DEF RenewerStart
    <3>2. CASE RenewerTake
      <4>1. CASE l.users = {}
        BY <3>2, <4>1 DEF RenewerTake, Returns
      <4>2. CASE l.users # {}
        <5>1. PICK u \in l.users :
                 LET rest == l.users \ {u}
                     b == Filled(account[u])
                     new == [NoLocal EXCEPT !.op = "renew", !.u = u, !.field = Renewed(u, b),
                                            !.cost = RenewalCost(u, b), !.users = rest]
                 IN  \/ Goes(Renewer, "users", [NoLocal EXCEPT !.users = rest])
                     \/ Goes(Renewer, "renew", new)
                     \/ Goes(Renewer, "fallback", [new EXCEPT !.flag = new.cost <= b.main + b.bonus])
          BY <3>2, <4>2 DEF RenewerTake
        <5> QED BY <5>1
      <4> QED BY <4>1, <4>2
    <3> QED BY <1>2, <3>1, <3>2
  <2>2. /\ UNCHANGED <<account, user, booked, trials, disturbed, payments>>
        /\ pc[Renewer] \in {"idle", "users"}
    BY <1>2 DEF RenewerStart, RenewerTake, deskVars
  <2> QED BY <1>1, <2>1, <2>2, QuietKeeps, NothingHeld
<1>3. CASE RenewerFallback
  <2> DEFINE n == [l EXCEPT !.b = Filled(account[l.u])]
  <2>1. Goes(Renewer, "fallbackWrite", n)
    BY <1>3 DEF RenewerFallback
  <2>2. /\ UNCHANGED <<account, user, booked, trials, disturbed, payments>>
        /\ pc[Renewer] = "fallback"
    BY <1>3 DEF RenewerFallback, deskVars
  <2>3. l.u \in Users /\ n.u = l.u /\ n.b = Filled(account[l.u])
    BY <1>1, <2>2 DEF Placed, Local
  <2>4. SameMoney(Filled(account[l.u]), account[l.u])
    <3>1. account[l.u] \in Balance
      BY <2>3 DEF MoneyInv, DocsOK
    <3> QED BY <3>1 DEF Filled, SameMoney, Balance
  <2> HIDE DEF n
  <2>5. \A u \in Users \ disturbed : FreshBy(Renewer, "fallbackWrite", n, u)
    BY <1>1, <2>3, <2>4 DEF FreshBy, HoldsMarks, HoldsSnapshot
  <2> QED BY <1>1, <2>1, <2>2, <2>5, QuietKeeps
<1>4. CASE RenewerFallbackWrite
  <2> DEFINE new == AutoRenew(l.b, l.u, TRUE, l.field)
  <2>1. /\ SaveAccount(Renewer, l.u, new) /\ pc[Renewer] = "fallbackWrite"
        /\ UNCHANGED <<user, booked, trials, payments>>
    BY <1>4 DEF RenewerFallbackWrite, deskVars
  <2>2. l.u \in Users /\ l.b \in Balance
    BY <1>1, <2>1 DEF Placed
  <2>3. SameMoney(new, l.b)
    BY <2>2 DEF AutoRenew, SameMoney, Balance
  <2>4. PICK where, n : where \in {"idle", "users", "renew"} /\ Goes(Renewer, where, n)
    BY <1>1, <1>4, AfterGoes DEF RenewerFallbackWrite
  <2> HIDE DEF new
  <2>5. disturbed \subseteq disturbed'
    BY <2>1 DEF SaveAccount, Disturbs
  <2>6. FreshInv'
    BY <1>1, <2>1, <2>2, <2>4, FreshSaveAccount, NothingHeld DEF HoldsBalance
  <2>7. ASSUME BooksBalance PROVE BooksBalance'
    <3>1. ASSUME NEW u \in Users \ disturbed'
          PROVE  Total(account'[u]) = Total(account[u])
      <4>1. CASE u = l.u
        <5>1. SameMoney(l.b, account[u])
          BY <1>1, <2>1, <2>5, <4>1 DEF FreshInv, FreshBy, HoldsBalance
        <5>2. account'[u] = new
          BY <2>1, <4>1 DEF SaveAccount, MoneyInv, DocsOK
        <5> QED BY <2>3, <5>1, <5>2, SameTotal
      <4>2. CASE u # l.u
        BY <2>1, <4>2 DEF SaveAccount, MoneyInv, DocsOK
      <4> QED BY <4>1, <4>2
    <3>2. \A u : Paid(u)' = Paid(u)
      BY <2>1 DEF Paid
    <3> QED BY <1>1, <2>1, <2>4, <2>5, <2>7, <3>1, <3>2, BooksStay
  <2>8. ASSUME TrialInv PROVE TrialInv'
    BY <1>1, <2>1, <2>4, <2>5, <2>8, TrialKept
  <2> QED BY <2>6, <2>7, <2>8 DEF Keeps
<1>5. CASE RenewStep(Renewer)
  BY <1>5, RenewReadKeeps, RenewWriteKeeps, RenewMarkKeeps DEF RenewStep
<1> QED BY <1>2, <1>3, <1>4, <1>5 DEF RenewerStep

LEMMA StopperKeeps ==
    ASSUME MoneyInv, MoneyInv', FreshInv, StopperStep
    PROVE  Keeps
<1> DEFINE l == local[Stopper]
<1>1. /\ Stopper \in Actors /\ l \in Local /\ Placed(Stopper, pc[Stopper], l)
      /\ Stopper \notin Requests /\ Aside(pc[Stopper], l)
  BY ActorsAssumption DEF Actors, MoneyInv, ActorsOK, FreshInv
<1>2. CASE StopperStart
  <2> DEFINE active == {u \in Users : user[u].active}
             n == [NoLocal EXCEPT !.users = active, !.d = user]
  <2>1. /\ Goes(Stopper, "users", n) /\ pc[Stopper] = "idle"
        /\ UNCHANGED <<account, user, booked, trials, disturbed, payments>>
    BY <1>2 DEF StopperStart, deskVars
  <2>2. n.d = user /\ n.u = None
    BY DEF NoLocal
  <2> HIDE DEF n
  <2>3. Aside("users", n) /\ \A u \in Users \ disturbed : FreshBy(Stopper, "users", n, u)
    BY <2>2 DEF Aside, FreshBy, HoldsBalance, HoldsMarks, HoldsSnapshot
  <2> QED BY <1>1, <2>1, <2>3, QuietKeeps
<1>3. CASE StopperTake
  <2>1. /\ UNCHANGED <<account, user, booked, trials, disturbed, payments>>
        /\ pc[Stopper] = "users"
    BY <1>3 DEF StopperTake, deskVars
  <2>2. CASE l.users = {}
    <3>1. Goes(Stopper, "idle", NoLocal) /\ Aside("idle", NoLocal)
      BY <1>3, <2>2 DEF StopperTake, Returns, Aside
    <3> QED BY <1>1, <2>1, <3>1, QuietKeeps, NothingHeld
  <2>3. CASE l.users # {}
    <3>1. PICK u \in l.users :
              \/ Goes(Stopper, "stop", [l EXCEPT !.u = u, !.users = l.users \ {u}])
              \/ Goes(Stopper, "users", [l EXCEPT !.u = None, !.users = l.users \ {u}])
      BY <1>3, <2>3 DEF StopperTake
    <3>2. PICK where \in {"stop", "users"}, v \in {u, None} :
              /\ Goes(Stopper, where, [l EXCEPT !.u = v, !.users = l.users \ {u}])
              /\ (where = "users" => v = None) /\ (where = "stop" => v = u)
      BY <3>1
    <3> DEFINE n == [l EXCEPT !.u = v, !.users = l.users \ {u}]
    <3>3. n.u = v /\ n.users = l.users \ {u} /\ n.d = l.d /\ u \in Users
      BY <1>1 DEF Local
    <3>4. Goes(Stopper, where, n)
      BY <3>2
    <3> HIDE DEF n
    <3>5. Aside(where, n)
      BY <3>2, <3>3 DEF Aside
    <3>6. ASSUME NEW w \in Users \ disturbed PROVE FreshBy(Stopper, where, n, w)
      <4>1. FreshBy(Stopper, "users", l, w)
        BY <1>1, <2>1 DEF FreshInv
      <4>2. HoldsSnapshot(Stopper, where, n, w) => w \in l.users
        BY <3>2, <3>3, ActorsAssumption DEF HoldsSnapshot
      <4>3. ~HoldsBalance(where) /\ ~HoldsMarks(where, n)
        BY <3>2 DEF HoldsBalance, HoldsMarks
      <4> QED BY <3>2, <3>3, <4>1, <4>2, <4>3 DEF FreshBy, HoldsSnapshot
    <3> QED BY <1>1, <2>1, <3>4, <3>5, <3>6, QuietKeeps
  <2> QED BY <2>2, <2>3
<1>4. CASE StopperWrite
  <2> DEFINE n == [l EXCEPT !.u = None]
             new == [l.d[l.u] EXCEPT !.active = FALSE]
  <2>1. /\ Goes(Stopper, "users", n) /\ SaveUser(Stopper, l.u, new) /\ pc[Stopper] = "stop"
        /\ UNCHANGED <<account, booked, trials, payments>>
    BY <1>4 DEF StopperWrite, deskVars
  <2>2. l.u \in Users /\ l.d \in [Users -> UserDoc] /\ l.u \notin l.users
    BY <1>1, <2>1 DEF Placed, Aside
  <2>3. n.u = None /\ n.users = l.users /\ n.d = l.d
    BY <1>1 DEF Local
  <2>4. new.activated = l.d[l.u].activated
    BY <2>2 DEF UserDoc
  <2> HIDE DEF n, new
  <2>5. disturbed \subseteq disturbed'
    BY <2>1 DEF SaveUser, Disturbs
  <2>6. \A u \in Users \ disturbed : FreshBy(Stopper, "stop", l, u)
    BY <1>1, <2>1 DEF FreshInv
  <2>7. FreshInv'
    <3>1. Aside("users", n)
      BY <2>3 DEF Aside
    <3>2. \A u \in Users \ disturbed : FreshBy(Stopper, "users", n, u)
      BY <2>3, <2>6, ActorsAssumption DEF FreshBy, HoldsBalance, HoldsMarks, HoldsSnapshot
    <3> QED BY <1>1, <2>1, <2>2, <2>3, <3>1, <3>2, FreshSaveUser
  <2>8. ASSUME BooksBalance PROVE BooksBalance'
    <3>1. \A u : Paid(u)' = Paid(u)
      BY <2>1 DEF Paid
    <3> QED BY <1>1, <2>1, <2>5, <2>8, <3>1, BooksStay
  <2>9. ASSUME TrialInv PROVE TrialInv'
    <3>1. ASSUME NEW u \in Users \ disturbed' PROVE user'[u].activated = user[u].activated
      <4>1. CASE u = l.u
        <5>1. l.d[u].activated = user[u].activated
          BY <2>5, <2>6, <4>1 DEF FreshBy, HoldsSnapshot
        <5> QED BY <2>1, <2>4, <4>1, <5>1 DEF SaveUser, MoneyInv, DocsOK
      <4>2. CASE u # l.u
        BY <2>1, <4>2 DEF SaveUser, MoneyInv, DocsOK
      <4> QED BY <4>1, <4>2
    <3> QED BY <1>1, <2>1, <2>5, <2>9, <3>1, TrialKept
  <2> QED BY <2>7, <2>8, <2>9 DEF Keeps
<1> QED BY <1>2, <1>3, <1>4 DEF StopperStep

-----------------------------------------------------------------------------
(* Papers, deaths, and all of it *)

\* No request about a payment changes who paid and how much.
LEMMA DeskKeeps ==
    ASSUME MoneyInv, MoneyInv', FreshInv, Desk
    PROVE  Keeps
<1>1. payments \in Seq(UserPayment)
  BY DEF MoneyInv, BooksOK, DeskTypeOK
<1>2. /\ DOMAIN payments' = DOMAIN payments
      /\ \A i \in DOMAIN payments : /\ payments[i].user = payments'[i].user
                                    /\ payments[i].sum = payments'[i].sum
  <2>1. \A i \in DOMAIN payments : payments[i] \in UserPayment
    BY <1>1, ElementOfSeq
  <2>2. CASE PaymentRequest
    <3>1. PICK i \in DOMAIN payments : \E p : /\ payments' = [payments EXCEPT ![i] = p]
                                              /\ p.user = payments[i].user /\ p.sum = payments[i].sum
      <4>1. ASSUME NEW i \in DOMAIN payments, NEW status, SetPayment(i, status)
            PROVE  \E p : /\ payments' = [payments EXCEPT ![i] = p]
                          /\ p.user = payments[i].user /\ p.sum = payments[i].sum
        <5>1. payments' = [payments EXCEPT ![i] = [payments[i] EXCEPT !.status = status]]
          BY <4>1 DEF SetPayment
        <5>2. /\ [payments[i] EXCEPT !.status = status].user = payments[i].user
              /\ [payments[i] EXCEPT !.status = status].sum = payments[i].sum
          BY <2>1 DEF UserPayment
        <5> QED BY <5>1, <5>2
      <4>2. CASE CancelPaymentRequest \/ ChangePaymentRequestStatus
        BY <4>1, <4>2 DEF CancelPaymentRequest, ChangePaymentRequestStatus
      <4>3. CASE DeletePaymentRequest
        <5>1. PICK i \in DOMAIN payments :
                  payments' = [payments EXCEPT ![i] = [payments[i] EXCEPT !.deleted = TRUE]]
          BY <4>3 DEF DeletePaymentRequest
        <5>2. /\ [payments[i] EXCEPT !.deleted = TRUE].user = payments[i].user
              /\ [payments[i] EXCEPT !.deleted = TRUE].sum = payments[i].sum
          BY <2>1 DEF UserPayment
        <5> QED BY <5>1, <5>2
      <4> QED BY <2>2, <4>2, <4>3 DEF PaymentRequest
    <3> QED BY <1>1, <3>1
  <2>3. CASE ~PaymentRequest
    BY <2>3 DEF Desk, DeskNext, PayoutRequest, ProfileRequest, AddPayoutRequest,
                CancelPayoutRequest, DeletePayoutRequest, ChangePayoutRequestStatus, Refused,
                AddPayoutProfile, ChangePayoutProfile, deskVars
  <2> QED BY <2>2, <2>3
<1>3. \A u : Paid(u)' = Paid(u)
  BY <1>2, PaidIs, PaidKept
<1> QED BY <1>3, StillKeeps DEF Desk

\* Who dies disturbs the user he was at work for.
LEMMA CrashKeeps ==
    ASSUME MoneyInv, MoneyInv', FreshInv, NEW r \in Actors, Crash(r)
    PROVE  Keeps
<1>1. /\ Goes(r, "idle", NoLocal) /\ UNCHANGED <<account, user, booked, trials, payments>>
      /\ disturbed \subseteq disturbed'
      /\ \A u \in Users \ disturbed' : local[r].u # u
  BY ActorsAssumption DEF Crash, Returns, deskVars
<1>2. FreshInv'
  <2>1. Aside("idle", NoLocal)
    BY DEF Aside
  <2> QED BY <1>1, <2>1, FreshGoes, NothingHeld DEF MoneyInv
<1>3. ASSUME BooksBalance PROVE BooksBalance'
  <2>1. \A u : Paid(u)' = Paid(u)
    BY <1>1 DEF Paid
  <2>2. CASE r \in Requests
    <3>1. \A u \in Users \ disturbed' : OwedAt("idle", NoLocal, u) = 0 /\ Owed(r, u) = 0
      BY <1>1 DEF OwedAt, Owed
    <3> QED BY <1>1, <1>3, <2>1, <2>2, <3>1, BooksMove
  <2>3. CASE r \notin Requests
    BY <1>1, <1>3, <2>1, <2>3, BooksStay
  <2> QED BY <2>2, <2>3
<1>4. ASSUME TrialInv PROVE TrialInv'
  <2>1. TrialOnce'
    BY <1>1, <1>4 DEF TrialInv, TrialOnce
  <2>2. ASSUME NEW u \in Users \ disturbed', trials'[u] = 1 PROVE Granted(u)'
    <3>1. Granted(u)
      BY <1>1, <1>4, <2>2 DEF TrialInv
    <3>2. \A q \in Actors : Marking(q, u) => Marking(q, u)'
      <4>1. ~Marking(r, u)
        BY <1>1 DEF Marking
      <4> QED BY <1>1, <4>1, MarkingStays
    <3> QED BY <1>1, <3>1, <3>2 DEF Granted
  <2> QED BY <2>1, <2>2 DEF TrialInv
<1> QED BY <1>2, <1>3, <1>4 DEF Keeps

LEMMA NextKeeps ==
    ASSUME MoneyInv, FreshInv, [Next]_vars
    PROVE  MoneyInv' /\ Keeps
<1>0. MoneyInv'
  BY NextOK
<1>1. ASSUME NEW r \in Requests, Request(r) \/ RequestStep(r) PROVE Keeps
  BY <1>0, <1>1, RequestKeeps, WriteBalanceKeeps, PaymentStepKeeps, RenewReadKeeps,
     RenewWriteKeeps, RenewMarkKeeps, UserStepKeeps DEF RequestStep, RenewStep
<1>2. CASE RenewerStep \/ StopperStep
  BY <1>0, <1>2, RenewerKeeps, StopperKeeps
<1>3. CASE Desk
  BY <1>0, <1>3, DeskKeeps
<1>4. CASE Tick
  <2>1. \A u : Paid(u)' = Paid(u)
    BY <1>4 DEF Tick, deskVars, Paid
  <2> QED BY <1>0, <1>4, <2>1, StillKeeps DEF Tick
<1>5. ASSUME NEW r \in Actors, Crash(r) PROVE Keeps
  BY <1>0, <1>5, CrashKeeps
<1>6. CASE UNCHANGED vars
  <2>1. \A u : Paid(u)' = Paid(u)
    BY <1>6 DEF vars, deskVars, Paid
  <2> QED BY <1>0, <1>6, <2>1, StillKeeps DEF vars
<1> QED BY <1>0, <1>1, <1>2, <1>3, <1>4, <1>5, <1>6 DEF Next

LEMMA InitKeeps == Init => FreshInv /\ BooksBalance /\ TrialInv
<1> SUFFICES ASSUME Init PROVE FreshInv /\ BooksBalance /\ TrialInv
  OBVIOUS
<1>1. FreshInv
  BY DEF Init, FreshInv, FreshBy, HoldsBalance, HoldsMarks, HoldsSnapshot, Aside, Actors
<1>2. BooksBalance
  <2>1. SUFFICES ASSUME NEW u \in Users
                 PROVE  Total(account[u]) = booked[u] + Paid(u) + Unrecorded(u)
    BY DEF BooksBalance
  <2>2. Total(account[u]) = 0 /\ booked[u] = 0
    BY DEF Init, Total, NewAccount
  <2>3. Paid(u) = 0
    <3>1. DOMAIN payments = {}
      BY DEF Init, DeskInit
    <3> DEFINE f == [i \in DOMAIN payments |-> IF payments[i].user = u THEN payments[i].sum ELSE 0]
    <3>2. Paid(u) = SumFunctionOnSet(f, {})
      BY <3>1 DEF Paid
    <3> HIDE DEF f
    <3>3. IsFiniteSet({})
      BY FS_EmptySet
    <3> QED BY <3>2, <3>3, SumRecursion
  <2>4. Unrecorded(u) = 0
    <3> DEFINE f == [q \in Requests |-> Owed(q, u)]
    <3>1. \A q \in Requests : f[q] = 0
      BY DEF Init, Owed, NoLocal, Actors
    <3>2. Unrecorded(u) = SumFunctionOnSet(f, Requests)
      BY DEF Unrecorded
    <3> HIDE DEF f
    <3>3. SumFunctionOnSet(f, Requests) = 0
      BY <3>1, ActorsAssumption, SumOfNothing
    <3> QED BY <3>2, <3>3
  <2> QED BY <2>2, <2>3, <2>4
<1>3. TrialInv
  BY DEF Init, TrialInv, TrialOnce
<1> QED BY <1>1, <1>2, <1>3

\* The books balance: unless somebody wrote a document over a change of somebody else's, or
\* died on the way, a user has exactly the money of his recorded payments, rewards and
\* corrections, less what was charged.
THEOREM BooksAlwaysBalance == Spec => []BooksBalance
<1>1. Init => MoneyInv /\ FreshInv /\ BooksBalance
  BY InitOK, InitKeeps
<1>2. MoneyInv /\ FreshInv /\ BooksBalance /\ [Next]_vars
        => MoneyInv' /\ FreshInv' /\ BooksBalance'
  BY NextKeeps DEF Keeps
<1> QED BY <1>1, <1>2, PTL DEF Spec

\* A trial is granted once: with the one trial the service sells, and under the same
\* condition, the account is extended by it no second time before the marks are reset.
THEOREM TrialsAreGrantedOnce ==
    ASSUME OneTrial
    PROVE  Spec => []TrialOnce
<1>1. Init => MoneyInv /\ FreshInv /\ TrialInv
  BY InitOK, InitKeeps
<1>2. MoneyInv /\ FreshInv /\ TrialInv /\ [Next]_vars
        => MoneyInv' /\ FreshInv' /\ TrialInv'
  BY NextKeeps DEF Keeps
<1>3. TrialInv => TrialOnce
  BY DEF TrialInv
<1> QED BY <1>1, <1>2, <1>3, PTL DEF Spec
=============================================================================
