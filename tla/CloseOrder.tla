----------------------------- MODULE CloseOrder -----------------------------
(***************************************************************************)
(* How the orders of ONE user in ONE symbol are closed.                    *)
(*                                                                         *)
(* CLOSE jobs (orders.service.ts, run by Bull) come in three kinds: all    *)
(* real orders of the symbol, all virtual ones, or the ones named by id.   *)
(* A handler reads the order book in Redis and works on that snapshot:     *)
(* it cancels what still waits, reads the wallet, sells the coins on the   *)
(* exchange and writes the orders as CLOSED.  No semaphore keeps two       *)
(* handlers of a symbol apart, and other parts of the trader write whole   *)
(* orders meanwhile: the handler that opens an order (OpenOrder has it in  *)
(* full) and the signal check that refreshes the profits.                  *)
(*                                                                         *)
(* The price does not move, so the cost of a volume is the volume.  The    *)
(* wallet holds coins of the symbol only.                                  *)
(***************************************************************************)
EXTENDS Naturals, FiniteSets, Functions

CONSTANTS
    Ids,         \* orders
    Virtual,     \* the virtual (paper) ones
    Closers,     \* CLOSE jobs that may run at the same time
    Kinds,       \* the kinds of CLOSE jobs that are sent
    Lot,         \* the volume of an order
    BuyFee,      \* what the exchange keeps of the coins it sells to the user
    MinLot,      \* market.limits.cost.min
    Withdrawals, \* what the user may take out of the wallet at a time
    None,        \* no order
    Hazards      \* what the environment may do, see HazardNames

(***************************************************************************)
(* lostReply  an executed exchange order is reported as an error         *)
(* refuse     the exchange refuses a request                               *)
(* noBalance  the balances are not known after a purchase                  *)
(* redisFail  the write of an order fails                                  *)
(* restart    the process of a handler restarts                            *)
(* overlap    orders are opened while orders are closed                    *)
(* reprice    a signal check refreshes the profits                         *)
(***************************************************************************)
HazardNames == {"lostReply", "refuse", "noBalance", "redisFail", "restart",
                "overlap", "reprice"}

ASSUME CloseOrderAssumption ==
    /\ IsFiniteSet(Ids)
    /\ Virtual \subseteq Ids
    /\ None \notin Ids
    /\ Kinds \subseteq {"all", "virtual", "some"}
    /\ {Lot, BuyFee, MinLot} \subseteq Nat
    /\ BuyFee < Lot
    /\ Withdrawals \subseteq Nat
    /\ Hazards \subseteq HazardNames

Real == Ids \ Virtual

VARIABLES
    book,   \* Redis hash of orders: id -> status and volume
    free,   \* external: free coins in the wallet
    sold,   \* history: how often the coins of an order were sold
    openPc, \* where the opening of each order is
    before, \* the balance it has read before the purchase
    pc,     \* where each closer is
    snap,   \* the orders it has read
    todo,   \* those it has still to write
    cur,    \* the one closeOrder() is at
    bal,    \* the balance it has read
    stale,  \* what a signal check has read and not yet written back
    waited, \* history: the orders CLOSE_ALL has found waiting among those it closes
    contested \* history: the orders of which a sale was not written, or not of one
               \* handler alone, see SoldOnce

opener   == <<openPc, before>>
closer   == <<pc, snap, todo, cur, bal>>
exchange == <<free, sold>>
history  == <<waited, contested>>
vars     == <<book, exchange, opener, closer, stale, history>>

Status  == {"NONE", "WAIT_OPEN", "OPENED", "CLOSED", "CANCELLED"}
Orders  == [status : Status, volume : Nat]
OpenPcs == {"none", "waiting", "buying", "bought", "recorded", "done"}
Pcs     == {"idle", "cancel", "balance", "sell", "mark", "price", "cancelLast",
            "balanceSome", "some", "real", "sellOne",
            "closeOne", "priceOne", "virtual"}

Absent == [status |-> "NONE", volume |-> 0]

TypeOK ==
    /\ book \in [Ids -> Orders]
    /\ free \in Nat
    /\ sold \in [Ids -> Nat]
    /\ openPc \in [Ids -> OpenPcs]
    /\ before \in [Ids -> Nat]
    /\ pc \in [Closers -> Pcs]
    /\ snap \in [Closers -> [Ids -> Orders]]
    /\ todo \in [Closers -> SUBSET Ids]
    /\ cur \in [Closers -> Ids \union {None}]
    /\ bal \in [Closers -> Nat]
    /\ stale \in [Ids -> Orders]
    /\ waited \subseteq Ids
    /\ contested \subseteq Ids

----------------------------------------------------------------------------
(* Reading the book *)

Active(order)     == order.status \in {"OPENED", "WAIT_OPEN"}
ActiveAmong(ids)  == {o \in ids : Active(book[o])}
Snapshot(ids)     == [o \in Ids |-> IF o \in ids THEN book[o] ELSE Absent]
Seen(c)           == {o \in Ids : snap[c][o].status # "NONE"}
SeenAs(c, status) == {o \in Ids : snap[c][o].status = status}

\* What some of the orders hold together.
Volume(orders, ids) == SumFunctionOnSet([o \in Ids |-> orders[o].volume], ids)

\* The volume of the opened orders a closer has read.
SeenVolume(c) == Volume(snap[c], SeenAs(c, "OPENED"))

Least(a, b) == IF a < b THEN a ELSE b

\* A volume the wallet covers up to the 0.2% an exchange may have kept as a fee.
Covers(balance, volume) == 998 * volume <= 1000 * balance

\* Orders are opened and closed at the same time only when they overlap.
Opening(o)   == openPc[o] \in {"buying", "bought", "recorded"}
MayOpen      == "overlap" \in Hazards \/ \A c \in Closers : pc[c] = "idle"
MayClose     == "overlap" \in Hazards \/ \A o \in Ids : ~Opening(o)

Init ==
    /\ book = [o \in Ids |-> Absent]
    /\ free = 0
    /\ sold = [o \in Ids |-> 0]
    /\ openPc = [o \in Ids |-> "none"]
    /\ before = [o \in Ids |-> 0]
    /\ pc = [c \in Closers |-> "idle"]
    /\ snap = [c \in Closers |-> [o \in Ids |-> Absent]]
    /\ todo = [c \in Closers |-> {}]
    /\ cur = [c \in Closers |-> None]
    /\ bal = [c \in Closers |-> 0]
    /\ stale = [o \in Ids |-> Absent]
    /\ waited = {}
    /\ contested = {}

Goto(c, where) == pc' = [pc EXCEPT ![c] = where]

\* The job is over; the local variables of its handler are gone.
Return(c) ==
    /\ Goto(c, "idle")
    /\ snap' = [snap EXCEPT ![c] = [o \in Ids |-> Absent]]
    /\ todo' = [todo EXCEPT ![c] = {}]
    /\ cur' = [cur EXCEPT ![c] = None]
    /\ bal' = [bal EXCEPT ![c] = 0]

\* setOrder() writes the whole order.
SetOrder(o, status, volume) ==
    book' = [book EXCEPT ![o] = [status |-> status, volume |-> volume]]

Done(c, o) == todo' = [todo EXCEPT ![c] = @ \ {o}]

----------------------------------------------------------------------------
(* What is remembered of a sale *)

\* The orders a closer has read to sell them.
InHand(c) == IF pc[c] = "cancel" THEN {} ELSE SeenAs(c, "OPENED")

\* Of these: sold, and not yet written.
Unwritten(c) ==
    {o \in InHand(c) : \/ pc[c] = "mark" /\ o \in todo[c]
                       \/ pc[c] = "closeOne" /\ o = cur[c]}

Contests(orders) == contested' = contested \union orders

\* A closer reads opened orders that another one has in hand.
Shares(c, orders) ==
    Contests({o \in orders : /\ book[o].status = "OPENED"
                             /\ \E d \in Closers \ {c} : o \in InHand(d)})

\* An order that is not OPENED any more is written as OPENED.
Reopens(o) ==
    Contests({x \in {o} : book'[x].status = "OPENED" /\ book[x].status # "OPENED"})

----------------------------------------------------------------------------
(* closeAllOrders(): all real orders of the symbol *)

AllRead(c) ==
    LET orders == ActiveAmong(Real)
        waiting == {o \in orders : book[o].status = "WAIT_OPEN"}
    IN
    /\ "all" \in Kinds
    /\ pc[c] = "idle"
    /\ orders # {}
    /\ MayClose
    /\ snap' = [snap EXCEPT ![c] = Snapshot(orders)]
    /\ todo' = [todo EXCEPT ![c] = waiting]
    /\ IF waiting # {}
         THEN Goto(c, "cancel") /\ UNCHANGED contested
         ELSE Goto(c, "balance") /\ Shares(c, orders)
    /\ UNCHANGED <<book, exchange, opener, cur, bal, stale, waited>>

\* A waiting order of the snapshot is cancelled, whatever it is by now.  A failed
\* write leaves no order to take the id from: the job fails.
CancelWaiting(c, o) ==
    /\ pc[c] \in {"cancel", "cancelLast"}
    /\ o \in todo[c]
    /\ \/ /\ SetOrder(o, "CANCELLED", snap[c][o].volume)
          /\ Done(c, o)
          /\ UNCHANGED <<pc, snap, cur, bal>>
       \/ /\ "redisFail" \in Hazards
          /\ Return(c)
          /\ UNCHANGED book
    /\ UNCHANGED <<exchange, opener, stale, history>>

\* An order that waits by now is closed with the others.
AllReread(c) ==
    LET orders == ActiveAmong(Real) IN
    /\ pc[c] = "cancel"
    /\ todo[c] = {}
    /\ IF orders = {}
         THEN Return(c) /\ UNCHANGED history
         ELSE /\ snap' = [snap EXCEPT ![c] = Snapshot(orders)]
              /\ waited' = waited \union {o \in orders : book[o].status = "WAIT_OPEN"}
              /\ Shares(c, orders)
              /\ Goto(c, "balance")
              /\ UNCHANGED <<todo, cur, bal>>
    /\ UNCHANGED <<book, exchange, opener, stale>>

\* getWalletBalances() and the checks of volume and balance.
AllBalance(c) ==
    LET volume == SeenVolume(c) IN
    /\ pc[c] = "balance"
    /\ IF volume = 0 \/ free = 0 \/ MinLot > Least(volume, free) \/ ~Covers(free, volume)
         THEN Return(c)
         ELSE /\ bal' = [bal EXCEPT ![c] = free]
              /\ Goto(c, "sell")
              /\ UNCHANGED <<snap, todo, cur>>
    /\ UNCHANGED <<book, exchange, opener, stale, history>>

\* When the balance is a fee short of the volume, the balance is sold and the
\* volumes of the orders shrink with it.
AllAmount(c) == Least(SeenVolume(c), bal[c])

AllVolume(c, o) ==
    IF SeenVolume(c) > bal[c]
      THEN (snap[c][o].volume * bal[c]) \div SeenVolume(c)
      ELSE snap[c][o].volume

\* closeExchangeOrder(): one sale for all opened orders of the snapshot.
AllSell(c) ==
    /\ pc[c] = "sell"
    /\ free >= AllAmount(c)
    /\ free' = free - AllAmount(c)
    /\ sold' = [o \in Ids |-> IF o \in SeenAs(c, "OPENED") THEN sold[o] + 1 ELSE sold[o]]
    /\ \/ /\ Goto(c, "mark")
          /\ todo' = [todo EXCEPT ![c] = Seen(c)]
          /\ UNCHANGED <<snap, cur, bal, contested>>
       \/ "lostReply" \in Hazards /\ Return(c) /\ Contests(SeenAs(c, "OPENED"))
    /\ UNCHANGED <<book, opener, stale, waited>>

\* The wallet was short, or the exchange failed: every answer but 200 is null.
Refused(c) ==
    /\ \/ pc[c] \in {"balance", "balanceSome"} /\ "refuse" \in Hazards
       \/ pc[c] = "sell" /\ (free < AllAmount(c) \/ "refuse" \in Hazards)
    /\ Return(c)
    /\ UNCHANGED <<book, exchange, opener, stale, history>>

\* Mutants: the order is written back as it was read, or in lower case.
AllWriteAsRead(c, o) ==
    /\ pc[c] \in {"mark", "price"}
    /\ o \in todo[c]
    /\ SetOrder(o, IF pc[c] = "mark" THEN "CLOSED" ELSE snap[c][o].status, AllVolume(c, o))
    /\ Done(c, o)
    /\ UNCHANGED <<exchange, opener, pc, snap, cur, bal, stale, history>>

AllWriteLower(c, o) ==
    /\ pc[c] \in {"mark", "price"}
    /\ o \in todo[c]
    /\ SetOrder(o, "closed", AllVolume(c, o))
    /\ Done(c, o)
    /\ UNCHANGED <<exchange, opener, pc, snap, cur, bal, stale, history>>

\* Both loops over the snapshot: first the status, then price and profit as well.
\* Waiting orders of the snapshot are written too.
AllWrite(c, o) ==
    /\ pc[c] \in {"mark", "price"}
    /\ o \in todo[c]
    /\ \/ SetOrder(o, "CLOSED", AllVolume(c, o)) /\ UNCHANGED contested
       \/ "redisFail" \in Hazards /\ Contests(Unwritten(c) \intersect {o}) /\ UNCHANGED book
    /\ Done(c, o)
    /\ UNCHANGED <<exchange, opener, pc, snap, cur, bal, stale, waited>>

AllNext(c) ==
    /\ pc[c] = "mark"
    /\ todo[c] = {}
    /\ todo' = [todo EXCEPT ![c] = Seen(c)]
    /\ Goto(c, "price")
    /\ UNCHANGED <<book, exchange, opener, snap, cur, bal, stale, history>>

\* The orders that wait by now.
AllReadWaiting(c) ==
    LET waiting == {o \in Real : book[o].status = "WAIT_OPEN"} IN
    /\ pc[c] = "price"
    /\ todo[c] = {}
    /\ snap' = [snap EXCEPT ![c] = Snapshot(waiting)]
    /\ todo' = [todo EXCEPT ![c] = waiting]
    /\ Goto(c, "cancelLast")
    /\ UNCHANGED <<book, exchange, opener, cur, bal, stale, history>>

----------------------------------------------------------------------------
(* closeAllVirtualOrders(): all virtual orders of the symbol *)

VirtualRead(c) ==
    LET orders == ActiveAmong(Virtual) IN
    /\ "virtual" \in Kinds
    /\ pc[c] = "idle"
    /\ orders # {}
    /\ MayClose
    /\ snap' = [snap EXCEPT ![c] = Snapshot(orders)]
    /\ todo' = [todo EXCEPT ![c] = orders]
    /\ Goto(c, "virtual")
    /\ UNCHANGED <<book, exchange, opener, cur, bal, stale, history>>

VirtualWrite(c, o) ==
    /\ pc[c] = "virtual"
    /\ o \in todo[c]
    /\ \/ /\ SetOrder(o, IF snap[c][o].status = "WAIT_OPEN" THEN "CANCELLED" ELSE "CLOSED",
                      snap[c][o].volume)
          /\ Done(c, o)
          /\ UNCHANGED <<pc, snap, cur, bal>>
       \/ /\ "redisFail" \in Hazards
          /\ Return(c)
          /\ UNCHANGED book
    /\ UNCHANGED <<exchange, opener, stale, history>>

----------------------------------------------------------------------------
(* closeOrder(): the orders named in the job *)

\* virtual filters the orders only when the job has it.
SomeRead(c) ==
    /\ "some" \in Kinds
    /\ pc[c] = "idle"
    /\ MayClose
    /\ \E ids \in SUBSET Ids, kind \in {Real, Virtual, Ids} :
         LET orders == ActiveAmong(ids \intersect kind) IN
         /\ orders # {}
         /\ snap' = [snap EXCEPT ![c] = Snapshot(orders)]
         /\ todo' = [todo EXCEPT ![c] = orders]
         /\ Shares(c, orders)
    /\ Goto(c, "balanceSome")
    /\ UNCHANGED <<book, exchange, opener, cur, bal, stale, waited>>

\* The balance of the whole loop; without coins the job ends.
SomeBalance(c) ==
    /\ pc[c] = "balanceSome"
    /\ IF free = 0
         THEN Return(c)
         ELSE /\ bal' = [bal EXCEPT ![c] = free]
              /\ Goto(c, "some")
              /\ UNCHANGED <<snap, todo, cur>>
    /\ UNCHANGED <<book, exchange, opener, stale, history>>

SomeCancel(c, o) ==
    /\ pc[c] = "some"
    /\ o \in todo[c]
    /\ snap[c][o].status = "WAIT_OPEN"
    /\ \/ /\ SetOrder(o, "CANCELLED", snap[c][o].volume)
          /\ Done(c, o)
          /\ UNCHANGED <<pc, snap, cur, bal>>
       \/ /\ "redisFail" \in Hazards
          /\ Return(c)
          /\ UNCHANGED book
    /\ UNCHANGED <<exchange, opener, stale, history>>

\* A virtual order is written as CLOSED; then it falls through to the sale.
SomeTake(c, o) ==
    /\ pc[c] = "some"
    /\ o \in todo[c]
    /\ snap[c][o].status = "OPENED"
    /\ \/ /\ IF o \in Virtual THEN SetOrder(o, "CLOSED", snap[c][o].volume) ELSE UNCHANGED book
          /\ cur' = [cur EXCEPT ![c] = o]
          /\ Done(c, o)
          /\ Goto(c, "real")
          /\ UNCHANGED <<snap, bal>>
       \/ /\ "redisFail" \in Hazards
          /\ o \in Virtual
          /\ Return(c)
          /\ UNCHANGED book
    /\ UNCHANGED <<exchange, opener, stale, history>>

\* The volume of orderToClose is never changed: the capped volume goes to the local
\* orderVolume and to order, which is not the one that is sold.
SomeCheck(c) ==
    LET volume == snap[c][cur[c]].volume IN
    /\ pc[c] = "real"
    /\ IF volume = 0 \/ MinLot > Least(volume, bal[c])
         THEN Goto(c, "some") /\ UNCHANGED <<snap, todo, cur, bal>>
         ELSE IF ~Covers(bal[c], volume)
           THEN Return(c)
           ELSE Goto(c, "sellOne") /\ UNCHANGED <<snap, todo, cur, bal>>
    /\ UNCHANGED <<book, exchange, opener, stale, history>>

\* exchange.closeUserOrder()
SomeSell(c) ==
    LET volume == snap[c][cur[c]].volume IN
    /\ pc[c] = "sellOne"
    /\ free >= volume
    /\ free' = free - volume
    /\ sold' = [sold EXCEPT ![cur[c]] = @ + 1]
    /\ \/ Goto(c, "closeOne") /\ UNCHANGED contested
       \/ "lostReply" \in Hazards /\ Goto(c, "some") /\ Contests({cur[c]})
    /\ UNCHANGED <<book, opener, snap, todo, cur, bal, stale, waited>>

\* Mutant: an empty answer is not looked at.
SomeRefusedUnchecked(c) ==
    /\ pc[c] = "sellOne"
    /\ free < snap[c][cur[c]].volume \/ "refuse" \in Hazards
    /\ Goto(c, "closeOne")
    /\ UNCHANGED <<book, exchange, opener, snap, todo, cur, bal, stale, history>>

SomeRefused(c) ==
    /\ pc[c] = "sellOne"
    /\ free < snap[c][cur[c]].volume \/ "refuse" \in Hazards
    /\ Goto(c, "some")
    /\ UNCHANGED <<book, exchange, opener, snap, todo, cur, bal, stale, history>>

\* closeUserOrder() writes the order, then closeOrder() writes it again.
SomeWrite(c) ==
    /\ pc[c] \in {"closeOne", "priceOne"}
    /\ \/ SetOrder(cur[c], "CLOSED", snap[c][cur[c]].volume) /\ UNCHANGED contested
       \/ "redisFail" \in Hazards /\ Contests(Unwritten(c)) /\ UNCHANGED book
    /\ Goto(c, IF pc[c] = "closeOne" THEN "priceOne" ELSE "some")
    /\ UNCHANGED <<exchange, opener, snap, todo, cur, bal, stale, waited>>

\* The end of a loop over the orders.
Finish(c) ==
    /\ pc[c] \in {"some", "virtual", "cancelLast"}
    /\ todo[c] = {}
    /\ Return(c)
    /\ UNCHANGED <<book, exchange, opener, stale, history>>

Restart(c) ==
    /\ "restart" \in Hazards
    /\ pc[c] # "idle"
    /\ Return(c)
    /\ Contests(Unwritten(c))
    /\ UNCHANGED <<book, exchange, opener, stale, waited>>

----------------------------------------------------------------------------
(* The rest of the trader *)

\* The signal check writes a waiting order.
Create(o) ==
    /\ openPc[o] = "none"
    /\ MayOpen
    /\ SetOrder(o, "WAIT_OPEN", Lot)
    /\ openPc' = [openPc EXCEPT ![o] = "waiting"]
    /\ UNCHANGED <<exchange, before, closer, stale, history>>

\* openBuyOrder(): a virtual order is opened at once; for a real one the balance is
\* read.  The status of the order is not looked at.
OpenStart(o) ==
    /\ openPc[o] = "waiting"
    /\ MayOpen
    /\ IF o \in Virtual
         THEN /\ SetOrder(o, "OPENED", Lot)
              /\ openPc' = [openPc EXCEPT ![o] = "done"]
              /\ UNCHANGED before
         ELSE /\ \A r \in Real : ~Opening(r)
              /\ before' = [before EXCEPT ![o] = free]
              /\ openPc' = [openPc EXCEPT ![o] = "buying"]
              /\ UNCHANGED book
    /\ UNCHANGED <<exchange, closer, stale, history>>

OpenBuy(o) ==
    /\ openPc[o] = "buying"
    /\ \/ /\ free' = free + Lot - BuyFee
          /\ \/ openPc' = [openPc EXCEPT ![o] = "bought"]
             \/ /\ "lostReply" \in Hazards
                /\ openPc' = [openPc EXCEPT ![o] = "done"]
       \/ /\ "refuse" \in Hazards
          /\ openPc' = [openPc EXCEPT ![o] = "done"]
          /\ UNCHANGED free
    /\ UNCHANGED <<book, sold, before, closer, stale, history>>

OpenRecord(o) ==
    /\ openPc[o] = "bought"
    /\ \/ /\ SetOrder(o, "OPENED", Lot)
          /\ openPc' = [openPc EXCEPT ![o] = "recorded"]
       \/ /\ "redisFail" \in Hazards
          /\ openPc' = [openPc EXCEPT ![o] = "done"]
          /\ UNCHANGED book
    /\ UNCHANGED <<exchange, before, closer, stale, history>>

\* Mutant: the fee is not taken off the volume.
OpenAdjustNever(o) ==
    /\ openPc[o] = "recorded"
    /\ openPc' = [openPc EXCEPT ![o] = "done"]
    /\ UNCHANGED <<book, exchange, before, closer, stale, history>>

\* The volume becomes what the wallet has gained; without a balance, or when the
\* answer is missing, 0.2% less than bought, or nothing changes.
OpenAdjust(o) ==
    /\ openPc[o] = "recorded"
    /\ \/ /\ free > before[o] /\ free - before[o] # Lot
          /\ SetOrder(o, "OPENED", free - before[o])
       \/ /\ free = 0 \/ "noBalance" \in Hazards
          /\ SetOrder(o, "OPENED", (Lot * 998) \div 1000)
       \/ /\ free > 0
          /\ free <= before[o] \/ free - before[o] = Lot
          /\ UNCHANGED book
    /\ Reopens(o)
    /\ openPc' = [openPc EXCEPT ![o] = "done"]
    /\ UNCHANGED <<exchange, before, closer, stale, waited>>

\* The user takes coins out of the wallet.
Withdraw ==
    /\ \E sum \in Withdrawals :
         /\ sum <= free
         /\ free' = free - sum
    /\ UNCHANGED <<book, sold, opener, closer, stale, history>>

\* The check keeps the active orders it has read and refreshes their profits, once
\* each, when the price has moved.
RefreshRead ==
    /\ "reprice" \in Hazards
    /\ \A o \in Ids : stale[o] = Absent
    /\ ActiveAmong(Ids) # {}
    /\ stale' = Snapshot(ActiveAmong(Ids))
    /\ UNCHANGED <<book, exchange, opener, closer, history>>

RefreshWrite(o) ==
    /\ stale[o] # Absent
    /\ book' = [book EXCEPT ![o] = stale[o]]
    /\ stale' = [stale EXCEPT ![o] = Absent]
    /\ Reopens(o)
    /\ UNCHANGED <<exchange, opener, closer, waited>>

----------------------------------------------------------------------------
AllStep(c) ==
    \/ AllRead(c) \/ AllReread(c) \/ AllBalance(c) \/ AllSell(c)
    \/ AllNext(c) \/ AllReadWaiting(c)
    \/ \E o \in Ids : CancelWaiting(c, o) \/ AllWrite(c, o)

SomeStep(c) ==
    \/ SomeRead(c) \/ SomeBalance(c) \/ SomeCheck(c) \/ SomeSell(c)
    \/ SomeRefused(c) \/ SomeWrite(c)
    \/ \E o \in Ids : SomeCancel(c, o) \/ SomeTake(c, o)

VirtualStep(c) == VirtualRead(c) \/ \E o \in Ids : VirtualWrite(c, o)

CloserStep(c) ==
    \/ AllStep(c) \/ SomeStep(c) \/ VirtualStep(c)
    \/ Refused(c) \/ Finish(c) \/ Restart(c)

OpenerStep(o) ==
    Create(o) \/ OpenStart(o) \/ OpenBuy(o) \/ OpenRecord(o) \/ OpenAdjust(o)

Next ==
    \/ \E c \in Closers : CloserStep(c)
    \/ \E o \in Ids : OpenerStep(o) \/ RefreshWrite(o)
    \/ RefreshRead
    \/ Withdraw

Spec == Init /\ [][Next]_vars

\* Handlers go on, a CLOSE_ALL job is sent as long as the close rule of the check
\* holds, and the exchange does not refuse for ever.
Fairness ==
    /\ \A o \in Ids : WF_vars(OpenBuy(o) \/ OpenRecord(o) \/ OpenAdjust(o))
    /\ \A c \in Closers :
         /\ SF_vars(AllRead(c))
         /\ SF_vars(AllBalance(c))
         /\ SF_vars(AllSell(c))
         /\ SF_vars(VirtualRead(c))
         /\ WF_vars(AllStep(c) \/ SomeStep(c) \/ VirtualStep(c) \/ Finish(c))

FairSpec == Spec /\ Fairness

----------------------------------------------------------------------------
(* Properties *)

Idle(c) == pc[c] = "idle"

\* An order the book shows as CLOSED was sold: whatever closers run at once, whatever
\* is refused, lost or restarted in closeAllOrders() and closeOrder(), and whoever else
\* writes orders meanwhile - except the orders closeAllOrders() finds waiting in its
\* second snapshot (orders.service.ts:643), which it closes unsold with the others.
ClosedWasSold ==
    \A o \in Real \ waited : book[o].status = "CLOSED" => sold[o] > 0

\* A closed order becomes active again only by the handler that still opens it or by a
\* refresh that has read it before: no closer, and no older job, brings it back.
ClosedForGood ==
    [][\A o \in Real : book[o].status = "CLOSED" =>
            ~Active(book[o])' \/ Opening(o) \/ stale[o] # Absent]_vars

\* However many jobs close an order, its coins are sold once - unless two handlers have
\* read it before either has written it, the answer of a sale or the write that records
\* it is lost, a restart comes between the two, or a refresh or the handler that opens
\* the order writes it as OPENED again.  Nothing else sells an order twice.
SoldOnce ==
    \A o \in Real \ contested : sold[o] <= 1

\* Between two jobs the wallet covers what the book shows as opened, as long as the
\* fee of the exchange is within the 0.2% of the code's correction and one job runs
\* at a time: no volume openBuyOrder() writes makes an order that cannot be sold.
WalletCovers ==
    (\A c \in Closers : Idle(c)) /\ (\A o \in Ids : ~Opening(o))
        => Volume(book, {o \in Real : book[o].status = "OPENED"}) <= free

\* An order that is opened is closed in the end.
OpenedGetsClosed ==
    \A o \in Ids : (book[o].status = "OPENED") ~> (book[o].status = "CLOSED")
=============================================================================
