----------------------------- MODULE OpenOrder -----------------------------
(***************************************************************************)
(* The life of an order of ONE user on ONE exchange from the signal that   *)
(* creates it to the moment it is opened or cancelled.                     *)
(*                                                                         *)
(* A signal check (signal.service.ts) reads the order book in Redis, looks *)
(* at the pause after the last opening and at the "opening" semaphore of   *)
(* the symbol, writes a WAIT_OPEN order, takes the semaphore and sends an  *)
(* OPEN job.  An open handler (orders.service.ts, run by Bull) takes the   *)
(* job, repeats the two looks, buys on the exchange, records the order as  *)
(* OPENED, cancels the virtual orders of the symbol and frees the          *)
(* semaphore.  A cron of the main trader cancels orders left in WAIT_OPEN. *)
(* Every await of the code is a place where another actor may run, so each *)
(* Redis or exchange call is an action of its own.                         *)
(***************************************************************************)
EXTENDS Naturals, FiniteSets

CONSTANTS
    Containers,           \* trader processes
    Slots,                \* OPEN jobs one process may run at the same time
    Symbols,              \* markets
    Ids,                  \* the uuids setOrder() hands out, a bound on orders
    SymbolOf,             \* the symbol an order is created for
    Virtual,              \* the ids given to virtual (paper) orders
    MaximumOpenedSymbols, \* strategy.maximumOpenedSymbols
    None,                 \* no order
    Hazards               \* what the environment may do, see HazardNames

(***************************************************************************)
(* slow      a job waits or runs longer than the semaphore's 30 seconds    *)
(* lostReply an executed exchange order is reported as an error            *)
(* redisFail the write that records an executed order fails                *)
(* restart   a trader process restarts                                     *)
(* stall     a process dies and Bull gives its active job to another one   *)
(* reprice   the price moves between two checks of a symbol                *)
(***************************************************************************)
HazardNames == {"slow", "lostReply", "redisFail", "restart", "stall", "reprice"}

ASSUME OpenOrderAssumption ==
    /\ SymbolOf \in [Ids -> Symbols]
    /\ Virtual \subseteq Ids
    /\ None \notin Ids
    /\ MaximumOpenedSymbols \in Nat
    /\ Hazards \subseteq HazardNames

Checks   == Containers \X Symbols
Handlers == Containers \X Slots
Real     == Ids \ Virtual

VARIABLES
    status,    \* Redis hash of orders: id -> status, "NONE" when absent
    aged,      \* the orders whose openTime is more than a minute old
    opening,   \* Redis key opening:exchange:user_symbol -> order id
    lastOpen,  \* Redis key lastOpenOrder:exchange:user is set
    queue,     \* OPEN jobs waiting in Bull
    stalled,   \* jobs Bull has already taken back once
    checkPc,   \* where each signal check is
    seen,      \* the snapshot of active orders a check works with
    seenSymbols, \* the symbols with real orders a check has read
    checkTodo, \* orders a check has still to write
    new,       \* the order a check is creating
    openPc,    \* where each open handler is
    job,       \* the order of the handler's job
    openTodo,  \* virtual orders a handler has still to cancel
    cronTodo,  \* stale orders the cron has still to cancel
    buys,      \* external: how often the exchange executed an order
    troubled   \* history: the orders a hazard has befallen, see Befalls

redis   == <<status, aged, opening, lastOpen>>
checker == <<checkPc, seen, seenSymbols, checkTodo, new>>
handler == <<openPc, job, openTodo>>
bull    == <<queue, stalled>>
vars    == <<redis, checker, handler, bull, buys, cronTodo, troubled>>

Status    == {"NONE", "WAIT_OPEN", "OPENED", "CANCELLED"}
CheckPcs  == {"idle", "mixed", "cancelVirtual", "refresh", "pause", "pending",
              "create", "block", "signal", "cancelStop"}
OpenPcs   == {"idle", "pause", "pending", "cancelOwn", "openVirtual", "buy",
              "failed", "bought", "stamp", "adjust", "readVirtual",
              "cancelVirtual", "release"}

TypeOK ==
    /\ status \in [Ids -> Status]
    /\ aged \subseteq Ids
    /\ opening \in [Symbols -> Ids \union {None}]
    /\ lastOpen \in BOOLEAN
    /\ queue \subseteq Ids
    /\ stalled \subseteq Ids
    /\ checkPc \in [Checks -> CheckPcs]
    /\ seen \in [Checks -> [Ids -> Status]]
    /\ seenSymbols \in [Checks -> SUBSET Symbols]
    /\ checkTodo \in [Checks -> SUBSET Ids]
    /\ new \in [Checks -> Ids \union {None}]
    /\ openPc \in [Handlers -> OpenPcs]
    /\ job \in [Handlers -> Ids \union {None}]
    /\ openTodo \in [Handlers -> SUBSET Ids]
    /\ cronTodo \subseteq Ids
    /\ buys \in [Ids -> Nat]
    /\ troubled \subseteq Ids

----------------------------------------------------------------------------
(* Reading the book *)

Active(s)  == s \in {"OPENED", "WAIT_OPEN"}
ActiveOrders(sym)  == {o \in Ids : SymbolOf[o] = sym /\ Active(status[o])}
ActiveVirtual(sym) == ActiveOrders(sym) \intersect Virtual
OpenedSymbols      == {SymbolOf[o] : o \in {r \in Real : Active(status[r])}}

SymbolOfCheck(k) == k[2]
SeenOrders(k)    == {o \in Ids : Active(seen[k][o])}
SeenReal(k)      == SeenOrders(k) \ Virtual
SeenVirtual(k)   == SeenOrders(k) \intersect Virtual

\* A job, a handler or a check still carries the order.
Live(o) == \/ o \in queue
           \/ \E h \in Handlers : job[h] = o
           \/ \E k \in Checks : new[k] = o

\* An order grows old under way, is bought without an answer, is not recorded, loses
\* the handler that was to record it or gets a second one, or an older snapshot of it is
\* written over what has become of it.
Befalls(orders) == troubled' = troubled \union orders

----------------------------------------------------------------------------
Init ==
    /\ status = [o \in Ids |-> "NONE"]
    /\ aged = {}
    /\ opening = [s \in Symbols |-> None]
    /\ lastOpen = FALSE
    /\ queue = {}
    /\ stalled = {}
    /\ checkPc = [k \in Checks |-> "idle"]
    /\ seen = [k \in Checks |-> [o \in Ids |-> "NONE"]]
    /\ seenSymbols = [k \in Checks |-> {}]
    /\ checkTodo = [k \in Checks |-> {}]
    /\ new = [k \in Checks |-> None]
    /\ openPc = [h \in Handlers |-> "idle"]
    /\ job = [h \in Handlers |-> None]
    /\ openTodo = [h \in Handlers |-> {}]
    /\ cronTodo = {}
    /\ buys = [o \in Ids |-> 0]
    /\ troubled = {}

----------------------------------------------------------------------------
(* The signal check of one symbol: check_User_OrdersSignalsCUPOStrategy    *)

CheckGoto(k, pc) == checkPc' = [checkPc EXCEPT ![k] = pc]

\* Leaving the check: its local variables are gone.
CheckReturn(k) ==
    /\ CheckGoto(k, "idle")
    /\ seen' = [seen EXCEPT ![k] = [o \in Ids |-> "NONE"]]
    /\ seenSymbols' = [seenSymbols EXCEPT ![k] = {}]
    /\ checkTodo' = [checkTodo EXCEPT ![k] = {}]
    /\ new' = [new EXCEPT ![k] = None]

\* getOrderSymbols() and getOrders(): the snapshot the whole check works with.
\* Both kinds of orders at once send it to the cancellation of the virtual ones.
CheckRead(k) ==
    LET orders == ActiveOrders(SymbolOfCheck(k)) IN
    /\ checkPc[k] = "idle"
    /\ seen' = [seen EXCEPT ![k] = [o \in Ids |-> IF o \in orders THEN status[o] ELSE "NONE"]]
    /\ seenSymbols' = [seenSymbols EXCEPT ![k] = OpenedSymbols]
    /\ IF orders \intersect Virtual # {} /\ orders \ Virtual # {}
         THEN CheckGoto(k, "mixed") /\ UNCHANGED checkTodo
         ELSE CheckGoto(k, "refresh") /\ checkTodo' = [checkTodo EXCEPT ![k] = orders]
    /\ UNCHANGED <<redis, new, handler, bull, buys, cronTodo, troubled>>

\* cancelVirtualUserOrders() takes a snapshot of its own.
CheckMixed(k) ==
    /\ checkPc[k] = "mixed"
    /\ checkTodo' = [checkTodo EXCEPT ![k] = ActiveVirtual(SymbolOfCheck(k))]
    /\ CheckGoto(k, "cancelVirtual")
    /\ UNCHANGED <<redis, seen, seenSymbols, new, handler, bull, buys, cronTodo, troubled>>

\* The virtual orders of a user whose exchange settings are not ACTIVE, or who
\* does not allow virtual orders, are cancelled and the check ends; a CANCEL job
\* (cancelOrder) does the same.
CheckCancelOnly(k) ==
    /\ checkPc[k] \in {"idle", "pending"}
    /\ checkTodo' = [checkTodo EXCEPT ![k] = ActiveVirtual(SymbolOfCheck(k))]
    /\ checkTodo'[k] # {}
    /\ CheckGoto(k, "cancelStop")
    /\ UNCHANGED <<redis, seen, seenSymbols, new, handler, bull, buys, cronTodo, troubled>>

\* One setOrder(CANCELLED) of cancelVirtualUserOrders(), from the snapshot.
CheckCancelVirtual(k, o) ==
    /\ checkPc[k] \in {"cancelVirtual", "cancelStop"}
    /\ o \in checkTodo[k]
    /\ status' = [status EXCEPT ![o] = "CANCELLED"]
    /\ checkTodo' = [checkTodo EXCEPT ![k] = @ \ {o}]
    /\ UNCHANGED <<aged, opening, lastOpen, checkPc, seen, seenSymbols, new,
                   handler, bull, buys, cronTodo, troubled>>

CheckCancelDone(k) ==
    /\ checkPc[k] = "cancelStop"
    /\ checkTodo[k] = {}
    /\ CheckReturn(k)
    /\ UNCHANGED <<redis, handler, bull, buys, cronTodo, troubled>>

\* "if not all virtual orders cancelled, then return"; otherwise the check goes
\* on with the snapshot it took before the cancellation.
CheckReread(k) ==
    /\ checkPc[k] = "cancelVirtual"
    /\ checkTodo[k] = {}
    /\ \/ /\ ActiveVirtual(SymbolOfCheck(k)) # {}
          /\ CheckReturn(k)
       \/ /\ ActiveVirtual(SymbolOfCheck(k)) = {}
          /\ CheckGoto(k, "refresh")
          /\ checkTodo' = [checkTodo EXCEPT ![k] = SeenOrders(k)]
          /\ UNCHANGED <<seen, seenSymbols, new>>
    /\ UNCHANGED <<redis, handler, bull, buys, cronTodo, troubled>>

\* The profit of every order of the snapshot is recomputed; when the price has
\* moved, setOrder() writes the whole order back, with the status it had then.
CheckRefresh(k, o) ==
    /\ checkPc[k] = "refresh"
    /\ o \in checkTodo[k]
    /\ \/ UNCHANGED <<status, troubled>>
       \/ /\ "reprice" \in Hazards
          /\ status' = [status EXCEPT ![o] = seen[k][o]]
          /\ Befalls({x \in {o} : status[x] # seen[k][x]})
    /\ checkTodo' = [checkTodo EXCEPT ![k] = @ \ {o}]
    /\ UNCHANGED <<aged, opening, lastOpen, checkPc, seen, seenSymbols, new,
                   handler, bull, buys, cronTodo>>

\* No close signal stands: look at the pause.
CheckGoOpen(k) ==
    /\ checkPc[k] = "refresh"
    /\ checkTodo[k] = {}
    /\ CheckGoto(k, "pause")
    /\ UNCHANGED <<redis, seen, seenSymbols, checkTodo, new, handler, bull, buys, cronTodo, troubled>>

\* Close signals, a symbol outside the user's list, or no open condition.
CheckSkip(k) ==
    /\ checkPc[k] \in {"refresh", "pause", "pending", "create"}
    /\ checkTodo[k] = {}
    /\ CheckReturn(k)
    /\ UNCHANGED <<redis, handler, bull, buys, cronTodo, troubled>>

CheckPause(k) ==
    /\ checkPc[k] = "pause"
    /\ ~lastOpen
    /\ CheckGoto(k, "pending")
    /\ UNCHANGED <<redis, seen, seenSymbols, checkTodo, new, handler, bull, buys, cronTodo, troubled>>

\* Mutant: the check does not look at the semaphore.
CheckPendingBlind(k) ==
    /\ checkPc[k] = "pending"
    /\ CheckGoto(k, "create")
    /\ UNCHANGED <<redis, seen, seenSymbols, checkTodo, new, handler, bull, buys, cronTodo, troubled>>

\* isSymbolPendingOpen(): the semaphore is read here and taken two awaits later.
CheckPending(k) ==
    /\ checkPc[k] = "pending"
    /\ opening[SymbolOfCheck(k)] = None
    /\ CheckGoto(k, "create")
    /\ UNCHANGED <<redis, seen, seenSymbols, checkTodo, new, handler, bull, buys, cronTodo, troubled>>

\* First, averaging or pyramiding order: which one is possible depends on the
\* snapshot.  A first real order needs a free place among the opened symbols.
MayCreate(k, o) ==
    /\ SymbolOf[o] = SymbolOfCheck(k)
    /\ status[o] = "NONE"
    /\ IF o \in Virtual
         THEN SeenReal(k) = {}
         ELSE SeenReal(k) = {} => Cardinality(seenSymbols[k]) < MaximumOpenedSymbols

CreateOrder(k, o) ==
    /\ checkPc[k] = "create"
    /\ MayCreate(k, o)
    /\ status' = [status EXCEPT ![o] = "WAIT_OPEN"]
    /\ new' = [new EXCEPT ![k] = o]
    /\ CheckGoto(k, "block")
    /\ UNCHANGED <<aged, opening, lastOpen, seen, seenSymbols, checkTodo,
                   handler, bull, buys, cronTodo, troubled>>

\* startPendingOrder() overwrites whatever the semaphore holds.
StartPending(k) ==
    /\ checkPc[k] = "block"
    /\ opening' = [opening EXCEPT ![SymbolOfCheck(k)] = new[k]]
    /\ CheckGoto(k, "signal")
    /\ UNCHANGED <<status, aged, lastOpen, seen, seenSymbols, checkTodo, new,
                   handler, bull, buys, cronTodo, troubled>>

\* startOrderJob(), once every user has been checked.
SendOpenJob(k) ==
    /\ checkPc[k] = "signal"
    /\ queue' = queue \union {new[k]}
    /\ CheckReturn(k)
    /\ UNCHANGED <<redis, handler, stalled, buys, cronTodo, troubled>>

----------------------------------------------------------------------------
(* The open handler: openOrderProcessor, openOrder, openBuyOrder           *)

OpenGoto(h, pc) == openPc' = [openPc EXCEPT ![h] = pc]

OpenReturn(h) ==
    /\ OpenGoto(h, "idle")
    /\ job' = [job EXCEPT ![h] = None]
    /\ openTodo' = [openTodo EXCEPT ![h] = {}]

\* Mutant: the job stays in the queue while it runs.
OpenTakeCopy(h, o) ==
    /\ openPc[h] = "idle"
    /\ o \in queue
    /\ job' = [job EXCEPT ![h] = o]
    /\ OpenGoto(h, "pause")
    /\ UNCHANGED <<redis, checker, openTodo, bull, buys, cronTodo, troubled>>

OpenTake(h, o) ==
    /\ openPc[h] = "idle"
    /\ o \in queue
    /\ queue' = queue \ {o}
    /\ job' = [job EXCEPT ![h] = o]
    /\ OpenGoto(h, "pause")
    /\ UNCHANGED <<redis, checker, openTodo, stalled, buys, cronTodo, troubled>>

\* The early returns: trading switched off, market or price missing, bad order
\* parameters, no balances or too small a balance.  Nothing is released.
OpenGiveUp(h) ==
    /\ openPc[h] \in {"pause", "pending", "buy"}
    /\ OpenReturn(h)
    /\ UNCHANGED <<redis, checker, bull, buys, cronTodo, troubled>>

OpenCheckPause(h) ==
    /\ openPc[h] = "pause"
    /\ ~lastOpen
    /\ OpenGoto(h, "pending")
    /\ UNCHANGED <<redis, checker, job, openTodo, bull, buys, cronTodo, troubled>>

\* The handler goes on when the semaphore is its own or is not set; it never
\* looks at the status the order has by now.
OpenCheckPending(h) ==
    LET owner == opening[SymbolOf[job[h]]] IN
    /\ openPc[h] = "pending"
    /\ IF owner \notin {None, job[h]}
         THEN OpenGoto(h, "cancelOwn")
         ELSE OpenGoto(h, IF job[h] \in Virtual THEN "openVirtual" ELSE "buy")
    /\ UNCHANGED <<redis, checker, job, openTodo, bull, buys, cronTodo, troubled>>

\* cancelPendingOrders(exchange, user, id) for its own order, then give up.
OpenCancelOwn(h) ==
    LET o == job[h] IN
    /\ openPc[h] = "cancelOwn"
    /\ status' = IF status[o] = "WAIT_OPEN" /\ o \in aged
                   THEN [status EXCEPT ![o] = "CANCELLED"] ELSE status
    /\ OpenReturn(h)
    /\ UNCHANGED <<aged, opening, lastOpen, checker, bull, buys, cronTodo, troubled>>

OpenVirtual(h) ==
    /\ openPc[h] = "openVirtual"
    /\ \/ /\ status' = [status EXCEPT ![job[h]] = "OPENED"]
          /\ OpenGoto(h, "release")
          /\ UNCHANGED <<job, openTodo>>
       \/ /\ "redisFail" \in Hazards
          /\ OpenReturn(h)
          /\ UNCHANGED status
    /\ UNCHANGED <<aged, opening, lastOpen, checker, bull, buys, cronTodo, troubled>>

\* Mutant: an empty answer of the exchange is taken for a success.
OpenBuyUnchecked(h) ==
    /\ openPc[h] = "buy"
    /\ OpenGoto(h, "bought")
    /\ \/ UNCHANGED buys
       \/ buys' = [buys EXCEPT ![job[h]] = @ + 1]
    /\ UNCHANGED <<redis, checker, job, openTodo, bull, cronTodo, troubled>>

\* exchange.openBuy(): executed and answered, refused, or executed with the
\* answer lost on the way, which the code cannot tell from a refusal.
OpenBuy(h) ==
    /\ openPc[h] = "buy"
    /\ \/ /\ buys' = [buys EXCEPT ![job[h]] = @ + 1]
          /\ \/ OpenGoto(h, "bought") /\ UNCHANGED troubled
             \/ "lostReply" \in Hazards /\ OpenGoto(h, "failed") /\ Befalls({job[h]})
       \/ /\ OpenGoto(h, "failed")
          /\ UNCHANGED <<buys, troubled>>
    /\ UNCHANGED <<redis, checker, job, openTodo, bull, cronTodo>>

\* setOrder(newOrder, true), its first write: the order.  When it fails it
\* returns undefined and the catch block has no order to release.
OpenRecord(h) ==
    /\ openPc[h] = "bought"
    /\ \/ /\ status' = [status EXCEPT ![job[h]] = "OPENED"]
          /\ OpenGoto(h, "stamp")
          /\ UNCHANGED <<job, openTodo, troubled>>
       \/ /\ "redisFail" \in Hazards
          /\ OpenReturn(h)
          /\ Befalls({job[h]})
          /\ UNCHANGED status
    /\ UNCHANGED <<aged, opening, lastOpen, checker, bull, buys, cronTodo>>

\* Mutant: the id of the order is stored where the pause is expected.
OpenStampId(h) ==
    /\ openPc[h] = "stamp"
    /\ lastOpen' = job[h]
    /\ OpenGoto(h, "adjust")
    /\ UNCHANGED <<status, aged, opening, checker, job, openTodo, bull, buys, cronTodo, troubled>>

\* Its second write: setLastOpenOrder().  Here too a failure leaves the catch
\* block without an order.
OpenStamp(h) ==
    /\ openPc[h] = "stamp"
    /\ \/ /\ lastOpen' = TRUE
          /\ OpenGoto(h, "adjust")
          /\ UNCHANGED <<job, openTodo>>
       \/ /\ "redisFail" \in Hazards
          /\ OpenReturn(h)
          /\ UNCHANGED lastOpen
    /\ UNCHANGED <<status, aged, opening, checker, bull, buys, cronTodo, troubled>>

\* The wallet is read again; a volume that differs is written with a second
\* setOrder(newOrder, true).
OpenAdjust(h) ==
    /\ openPc[h] = "adjust"
    /\ \/ /\ \/ UNCHANGED <<status, lastOpen>>
             \/ /\ status' = [status EXCEPT ![job[h]] = "OPENED"]
                /\ lastOpen' = TRUE
          /\ OpenGoto(h, "readVirtual")
          /\ UNCHANGED <<job, openTodo>>
       \/ /\ "redisFail" \in Hazards
          /\ OpenReturn(h)
          /\ UNCHANGED <<status, lastOpen>>
    /\ UNCHANGED <<aged, opening, checker, bull, buys, cronTodo, troubled>>

\* Anything that throws after the order is recorded: the catch block only
\* releases the semaphore, the virtual orders stay.
OpenThrow(h) ==
    /\ "redisFail" \in Hazards
    /\ openPc[h] \in {"adjust", "readVirtual", "cancelVirtual"}
    /\ OpenGoto(h, "release")
    /\ openTodo' = [openTodo EXCEPT ![h] = {}]
    /\ UNCHANGED <<redis, checker, job, bull, buys, cronTodo, troubled>>

\* Mutant: the snapshot is not filtered by virtual.
OpenReadAll(h) ==
    /\ openPc[h] = "readVirtual"
    /\ openTodo' = [openTodo EXCEPT ![h] = ActiveOrders(SymbolOf[job[h]])]
    /\ OpenGoto(h, "cancelVirtual")
    /\ UNCHANGED <<redis, checker, job, bull, buys, cronTodo, troubled>>

\* cancelVirtualUserOrders() of the symbol just bought.
OpenReadVirtual(h) ==
    /\ openPc[h] = "readVirtual"
    /\ openTodo' = [openTodo EXCEPT ![h] = ActiveVirtual(SymbolOf[job[h]])]
    /\ OpenGoto(h, "cancelVirtual")
    /\ UNCHANGED <<redis, checker, job, bull, buys, cronTodo, troubled>>

OpenCancelVirtual(h, o) ==
    /\ openPc[h] = "cancelVirtual"
    /\ o \in openTodo[h]
    /\ status' = [status EXCEPT ![o] = "CANCELLED"]
    /\ openTodo' = [openTodo EXCEPT ![h] = @ \ {o}]
    /\ UNCHANGED <<aged, opening, lastOpen, checker, openPc, job, bull, buys, cronTodo, troubled>>

\* releasePendingSymbolForOpenOrders(): deletes the key whoever holds it.
OpenRelease(h) ==
    /\ \/ openPc[h] \in {"release", "failed"}
       \/ openPc[h] = "cancelVirtual" /\ openTodo[h] = {}
    /\ opening' = [opening EXCEPT ![SymbolOf[job[h]]] = None]
    /\ OpenReturn(h)
    /\ UNCHANGED <<status, aged, lastOpen, checker, bull, buys, cronTodo, troubled>>

----------------------------------------------------------------------------
(* The cron checkStalledPendingOrders and the passing of time              *)

\* Mutants: the age of the order is not looked at; only the order that holds
\* the semaphore is looked at.
CronReadYoung ==
    /\ cronTodo = {}
    /\ cronTodo' = {o \in Ids : status[o] = "WAIT_OPEN"}
    /\ cronTodo' # {}
    /\ UNCHANGED <<redis, checker, handler, bull, buys, troubled>>

CronReadOwner ==
    /\ cronTodo = {}
    /\ cronTodo' = {o \in aged : status[o] = "WAIT_OPEN" /\ opening[SymbolOf[o]] = o}
    /\ cronTodo' # {}
    /\ UNCHANGED <<redis, checker, handler, bull, buys, troubled>>

CronRead ==
    /\ cronTodo = {}
    /\ cronTodo' = {o \in aged : status[o] = "WAIT_OPEN"}
    /\ cronTodo' # {}
    /\ UNCHANGED <<redis, checker, handler, bull, buys, troubled>>

\* cancelPendingOrders() writes the orders of its snapshot one after the other.
CronCancel(o) ==
    /\ o \in cronTodo
    /\ status' = [status EXCEPT ![o] = "CANCELLED"]
    /\ cronTodo' = cronTodo \ {o}
    /\ UNCHANGED <<aged, opening, lastOpen, checker, handler, bull, buys, troubled>>

\* A minute passes since the openTime of a WAIT_OPEN order.
Age(o) ==
    /\ status[o] = "WAIT_OPEN"
    /\ o \notin aged
    /\ Live(o) => "slow" \in Hazards
    /\ aged' = aged \union {o}
    /\ Befalls({x \in {o} : Live(x)})
    /\ UNCHANGED <<status, opening, lastOpen, checker, handler, bull, buys, cronTodo>>

\* Mutant: the key is set without an expiry.
ExpireOpeningNever(s) == FALSE /\ opening[s] # None /\ UNCHANGED vars

\* The 30 seconds of the semaphore run out.
ExpireOpening(s) ==
    /\ opening[s] # None
    /\ Live(opening[s]) => "slow" \in Hazards
    /\ opening' = [opening EXCEPT ![s] = None]
    /\ UNCHANGED <<status, aged, lastOpen, checker, handler, bull, buys, cronTodo, troubled>>

\* The 34 seconds of OPEN_ORDER_PAUSE run out.
ExpirePause ==
    /\ lastOpen
    /\ lastOpen' = FALSE
    /\ UNCHANGED <<status, aged, opening, checker, handler, bull, buys, cronTodo, troubled>>

----------------------------------------------------------------------------
(* Restarts                                                                *)

\* What container c was doing is lost; so is a cron run, when c was running it.
Lose(c) ==
    /\ checkPc' = [k \in Checks |-> IF k[1] = c THEN "idle" ELSE checkPc[k]]
    /\ seen' = [k \in Checks |-> IF k[1] = c THEN [o \in Ids |-> "NONE"] ELSE seen[k]]
    /\ seenSymbols' = [k \in Checks |-> IF k[1] = c THEN {} ELSE seenSymbols[k]]
    /\ checkTodo' = [k \in Checks |-> IF k[1] = c THEN {} ELSE checkTodo[k]]
    /\ new' = [k \in Checks |-> IF k[1] = c THEN None ELSE new[k]]
    /\ openPc' = [h \in Handlers |-> IF h[1] = c THEN "idle" ELSE openPc[h]]
    /\ job' = [h \in Handlers |-> IF h[1] = c THEN None ELSE job[h]]
    /\ openTodo' = [h \in Handlers |-> IF h[1] = c THEN {} ELSE openTodo[h]]

\* The constructor of QueueService empties the shared order queue.
Restart(c) ==
    /\ "restart" \in Hazards
    /\ Lose(c)
    /\ Befalls({job[h] : h \in {g \in Handlers : g[1] = c /\ openPc[g] = "bought"}})
    /\ queue' = {}
    /\ cronTodo' \in {cronTodo, {}}
    /\ UNCHANGED <<redis, stalled, buys>>

\* The process dies.  If it is the only one it starts again at once, which empties
\* the queue but not the jobs whose locks still stand; when the locks run out, Bull
\* puts each of these back once (maxStalledCount: 1).
Stall(c) ==
    LET jobs == {job[h] : h \in {g \in Handlers : g[1] = c}} \ {None} IN
    /\ "stall" \in Hazards
    /\ jobs # {}
    /\ Lose(c)
    /\ Befalls(jobs)
    /\ queue' = (IF Containers = {c} THEN {} ELSE queue) \union (jobs \ stalled)
    /\ stalled' = stalled \union jobs
    /\ cronTodo' \in {cronTodo, {}}
    /\ UNCHANGED <<redis, buys>>

----------------------------------------------------------------------------
CheckStep(k) ==
    \/ CheckRead(k) \/ CheckMixed(k) \/ CheckCancelOnly(k) \/ CheckCancelDone(k)
    \/ CheckReread(k) \/ CheckGoOpen(k) \/ CheckSkip(k) \/ CheckPause(k)
    \/ CheckPending(k) \/ StartPending(k) \/ SendOpenJob(k)
    \/ \E o \in Ids : CheckCancelVirtual(k, o) \/ CheckRefresh(k, o) \/ CreateOrder(k, o)

OpenStep(h) ==
    \/ OpenGiveUp(h) \/ OpenCheckPause(h) \/ OpenCheckPending(h) \/ OpenCancelOwn(h)
    \/ OpenVirtual(h) \/ OpenBuy(h) \/ OpenRecord(h) \/ OpenStamp(h) \/ OpenAdjust(h)
    \/ OpenThrow(h) \/ OpenReadVirtual(h) \/ OpenRelease(h)
    \/ \E o \in Ids : OpenTake(h, o) \/ OpenCancelVirtual(h, o)

CronStep == CronRead \/ \E o \in Ids : CronCancel(o)

TimeStep == ExpirePause \/ (\E o \in Ids : Age(o)) \/ (\E s \in Symbols : ExpireOpening(s))

Next ==
    \/ \E k \in Checks : CheckStep(k)
    \/ \E h \in Handlers : OpenStep(h)
    \/ CronStep
    \/ TimeStep
    \/ \E c \in Containers : Restart(c) \/ Stall(c)

Spec == Init /\ [][Next]_vars

----------------------------------------------------------------------------
(* Properties *)

\* The book never shows a real order as OPENED that the exchange has not
\* executed: setOrder(OPENED) of openBuyOrder comes after the answer, and every
\* stale write only repeats a status that was true.  Holds under every hazard.
OpenedWasBought ==
    \A o \in Real : status[o] = "OPENED" => buys[o] > 0

\* Each delivery of an OPEN job buys at most once: the order carries one job, no
\* step of the handler returns to the purchase, and Bull hands a stalled job out
\* once more (openBuyOrder does not look at the status of the order it opens, so
\* the second delivery may buy again).
Redelivered(o) == IF o \in stalled THEN 1 ELSE 0

BoughtOnce ==
    \A o \in Ids : buys[o] <= 1 + Redelivered(o)

\* The part of the handler the semaphore of the symbol protects.
Critical(h) == openPc[h] \in {"openVirtual", "buy", "failed", "bought", "stamp",
                              "adjust", "readVirtual", "cancelVirtual", "release"}

\* The semaphore of isSymbolPendingOpen() and startPendingOrder() keeps two
\* handlers from opening orders of one symbol at the same time - as long as the
\* checks of a symbol do not overlap (one trader, a check shorter than the five
\* seconds between two of them) and no job outlives the semaphore's 30 seconds.
OneOpenerPerSymbol ==
    \A g, h \in Handlers :
        g # h /\ Critical(g) /\ Critical(h) => SymbolOf[job[g]] # SymbolOf[job[h]]

\* No position is lost: what the exchange executed is OPENED in the book, or
\* its handler is about to write it.  The cron's stale writes do not undo it, nor does
\* what happens to other orders: only the hazards of Befalls can take it away.
PositionRecorded ==
    \A o \in (Real \ troubled) : buys[o] > 0 =>
        \/ status[o] = "OPENED"
        \/ \E h \in Handlers : job[h] = o /\ openPc[h] = "bought"

\* An order left in WAIT_OPEN - its job refused, dropped or lost - is resolved:
\* the cron cancels it, whatever happened to its job.
PendingResolved ==
    \A o \in Ids : status[o] = "WAIT_OPEN" ~> status[o] # "WAIT_OPEN"

\* A symbol is not blocked for ever by its semaphore.
SemaphoreFreed ==
    \A s \in Symbols : opening[s] # None ~> opening[s] = None

(***************************************************************************)
(* The cron and the clocks always run, and not every run of the cron is    *)
(* cut off by a restart; a check that has created an order goes on, as     *)
(* does a handler, unless its process dies; Bull hands out every job.      *)
(* Nothing makes a check start or a price move.                            *)
(***************************************************************************)
Fairness ==
    /\ WF_vars(CronRead)
    /\ \A o \in Ids : SF_vars(CronCancel(o)) /\ WF_vars(Age(o))
    /\ \A s \in Symbols : WF_vars(ExpireOpening(s))
    /\ \A k \in Checks : WF_vars(StartPending(k)) /\ WF_vars(SendOpenJob(k))
    /\ \A h \in Handlers : WF_vars(OpenStep(h))

FairSpec == Spec /\ Fairness

\* The abstract life of a real order this module implements (module OrderLife).
Life == [o \in Real |->
            IF o \in troubled THEN "troubled"
            ELSE IF status[o] = "OPENED" THEN "opened"
            ELSE IF status[o] = "CANCELLED" THEN "cancelled"
            ELSE IF buys[o] > 0 THEN "bought"
            ELSE IF status[o] = "WAIT_OPEN" THEN "waiting"
            ELSE "none"]

Abstract == INSTANCE OrderLife WITH Orders <- Real, life <- Life

\* Every order is created waiting, then is either cancelled or bought and then
\* opened; neither cancelled nor opened orders ever change again - unless one of the
\* hazards of Befalls strikes that very order.
LifeRefined == Abstract!Spec

=============================================================================
