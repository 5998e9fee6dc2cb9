-------------------------- MODULE OpenOrderProofs --------------------------
(***************************************************************************)
(* Proofs about OpenOrder for every number of containers, slots, symbols   *)
(* and orders, and for every choice of hazards.                            *)
(***************************************************************************)
EXTENDS OpenOrder, TLAPS

\* A handler that runs has a job, only a virtual order takes the virtual
\* branch, and a check that has created an order knows its id.
JobsNamed ==
    /\ \A h \in Handlers : openPc[h] # "idle" => job[h] \in Ids
    /\ \A h \in Handlers : openPc[h] = "openVirtual" => job[h] \in Virtual
    /\ \A k \in Checks : checkPc[k] \in {"block", "signal"} => new[k] \in Ids

Typed == TypeOK /\ JobsNamed

----------------------------------------------------------------------------
\* The initial state of Redis, of the processes and of the queue is well typed.
LEMMA InitTyped == Init => Typed
<1> SUFFICES ASSUME Init PROVE Typed
  OBVIOUS
<1>1. lastOpen \in BOOLEAN
  BY DEF Init
<1>2. Typed
  BY <1>1, OpenOrderAssumption DEF Init, Typed, TypeOK, JobsNamed, Status, CheckPcs, OpenPcs
<1> QED
  BY <1>2

\* Every step of a signal check keeps the types.
LEMMA CheckTyped ==
    ASSUME Typed, NEW k \in Checks, CheckStep(k)
    PROVE  Typed'
<1> USE OpenOrderAssumption DEF Typed, TypeOK, JobsNamed, Status, CheckPcs,
        redis, checker, handler, bull, CheckGoto, CheckReturn
<1>1. CASE CheckRead(k)
  <2> DEFINE orders == ActiveOrders(SymbolOfCheck(k))
  <2>1. orders \in SUBSET Ids /\ OpenedSymbols \in SUBSET Symbols
    BY DEF ActiveOrders, OpenedSymbols, Real
  <2>2. [o \in Ids |-> IF o \in orders THEN status[o] ELSE "NONE"] \in [Ids -> Status]
    OBVIOUS
  <2>3. /\ seen' \in [Checks -> [Ids -> Status]]
        /\ seenSymbols' \in [Checks -> SUBSET Symbols]
        /\ checkTodo' \in [Checks -> SUBSET Ids]
        /\ checkPc' \in [Checks -> CheckPcs]
        /\ \A j \in Checks : checkPc'[j] \in {"block", "signal"} => new[j] \in Ids
    <3> HIDE DEF orders
    <3>1. CASE CheckGoto(k, "mixed") /\ UNCHANGED checkTodo
      BY <1>1, <2>1, <2>2, <3>1 DEF CheckRead, orders
    <3>2. CASE /\ CheckGoto(k, "refresh")
               /\ checkTodo' = [checkTodo EXCEPT ![k] = orders]
      BY <1>1, <2>1, <2>2, <3>2 DEF CheckRead, orders
    <3> QED
      BY <1>1, <3>1, <3>2 DEF CheckRead, orders
  <2> QED
    BY <1>1, <2>3 DEF CheckRead
<1>2. CASE CheckMixed(k)
  BY <1>2 DEF CheckMixed, ActiveVirtual, ActiveOrders
<1>3. CASE CheckCancelOnly(k)
  BY <1>3 DEF CheckCancelOnly, ActiveVirtual, ActiveOrders
<1>4. CASE CheckCancelDone(k)
  BY <1>4 DEF CheckCancelDone
<1>5. CASE CheckReread(k)
  <2>1. SeenOrders(k) \in SUBSET Ids
    BY DEF SeenOrders
  <2>2. CASE CheckReturn(k)
    BY <1>5, <2>2 DEF CheckReread
  <2>3. CASE /\ CheckGoto(k, "refresh")
             /\ checkTodo' = [checkTodo EXCEPT ![k] = SeenOrders(k)]
             /\ UNCHANGED <<seen, seenSymbols, new>>
    BY <1>5, <2>1, <2>3 DEF CheckReread
  <2> QED
    BY <1>5, <2>2, <2>3 DEF CheckReread
<1>6. CASE CheckGoOpen(k)
  BY <1>6 DEF CheckGoOpen
<1>7. CASE CheckSkip(k)
  BY <1>7 DEF CheckSkip
<1>8. CASE CheckPause(k)
  BY <1>8 DEF CheckPause
<1>9. CASE CheckPending(k)
  BY <1>9 DEF CheckPending
<1>10. CASE StartPending(k)
  BY <1>10 DEF StartPending
<1>11. CASE SendOpenJob(k)
  BY <1>11 DEF SendOpenJob
<1>12. ASSUME NEW o \in Ids, CheckCancelVirtual(k, o) PROVE Typed'
  BY <1>12 DEF CheckCancelVirtual
<1>13. ASSUME NEW o \in Ids, CheckRefresh(k, o) PROVE Typed'
  <2>1. troubled' \subseteq Ids /\ status' \in [Ids -> Status]
    BY <1>13 DEF CheckRefresh, Befalls
  <2> QED
    BY <1>13, <2>1 DEF CheckRefresh
<1>14. ASSUME NEW o \in Ids, CreateOrder(k, o) PROVE Typed'
  BY <1>14 DEF CreateOrder
<1> QED
  BY <1>1, <1>2, <1>3, <1>4, <1>5, <1>6, <1>7, <1>8, <1>9, <1>10, <1>11, <1>12,
     <1>13, <1>14 DEF CheckStep

\* So does every step of an open handler.
LEMMA OpenTyped ==
    ASSUME Typed, NEW h \in Handlers, OpenStep(h)
    PROVE  Typed'
<1> USE OpenOrderAssumption DEF Typed, TypeOK, JobsNamed, Status, OpenPcs,
        redis, checker, handler, bull, OpenGoto, OpenReturn
<1>1. CASE OpenGiveUp(h)
  BY <1>1 DEF OpenGiveUp
<1>2. CASE OpenCheckPause(h)
  BY <1>2 DEF OpenCheckPause
<1>3. CASE OpenCheckPending(h)
  BY <1>3 DEF OpenCheckPending
<1>4. CASE OpenCancelOwn(h)
  BY <1>4 DEF OpenCancelOwn
<1>5. CASE OpenVirtual(h)
  <2>1. CASE OpenReturn(h)
    BY <1>5, <2>1 DEF OpenVirtual
  <2>2. CASE OpenGoto(h, "release")
    BY <1>5, <2>2 DEF OpenVirtual
  <2> QED
    BY <1>5, <2>1, <2>2 DEF OpenVirtual
<1>6. CASE OpenBuy(h)
  <2>1. buys' \in [Ids -> Nat] /\ troubled' \subseteq Ids
    BY <1>6 DEF OpenBuy, Befalls
  <2>2. OpenGoto(h, "bought") \/ OpenGoto(h, "failed")
    BY <1>6 DEF OpenBuy
  <2> QED
    BY <1>6, <2>1, <2>2 DEF OpenBuy
<1>7. CASE OpenRecord(h)
  <2>3. troubled' \subseteq Ids
    BY <1>7 DEF OpenRecord, Befalls
  <2>1. CASE OpenReturn(h)
    BY <1>7, <2>1, <2>3 DEF OpenRecord
  <2>2. CASE OpenGoto(h, "stamp")
    BY <1>7, <2>2, <2>3 DEF OpenRecord
  <2> QED
    BY <1>7, <2>1, <2>2 DEF OpenRecord
<1>8. CASE OpenStamp(h)
  <2>1. lastOpen' \in BOOLEAN
    BY <1>8 DEF OpenStamp
  <2>2. CASE OpenReturn(h)
    BY <1>8, <2>1, <2>2 DEF OpenStamp
  <2>3. CASE OpenGoto(h, "adjust")
    BY <1>8, <2>1, <2>3 DEF OpenStamp
  <2> QED
    BY <1>8, <2>2, <2>3 DEF OpenStamp
<1>9. CASE OpenAdjust(h)
  <2>1. lastOpen' \in BOOLEAN
    BY <1>9 DEF OpenAdjust
  <2>2. CASE OpenReturn(h)
    BY <1>9, <2>1, <2>2 DEF OpenAdjust
  <2>3. CASE OpenGoto(h, "readVirtual")
    BY <1>9, <2>1, <2>3 DEF OpenAdjust
  <2> QED
    BY <1>9, <2>2, <2>3 DEF OpenAdjust
<1>10. CASE OpenThrow(h)
  BY <1>10 DEF OpenThrow
<1>11. CASE OpenReadVirtual(h)
  BY <1>11 DEF OpenReadVirtual, ActiveVirtual, ActiveOrders
<1>12. CASE OpenRelease(h)
  BY <1>12 DEF OpenRelease
<1>13. ASSUME NEW o \in Ids, OpenTake(h, o) PROVE Typed'
  BY <1>13 DEF OpenTake
<1>14. ASSUME NEW o \in Ids, OpenCancelVirtual(h, o) PROVE Typed'
  BY <1>14 DEF OpenCancelVirtual
<1> QED
  BY <1>1, <1>2, <1>3, <1>4, <1>5, <1>6, <1>7, <1>8, <1>9, <1>10, <1>11, <1>12,
     <1>13, <1>14 DEF OpenStep

\* The cron, the clocks and the restarts keep the types.
LEMMA OtherTyped ==
    ASSUME Typed,
           CronStep \/ TimeStep \/ (\E c \in Containers : Restart(c) \/ Stall(c))
    PROVE  Typed'
<1> USE OpenOrderAssumption DEF Typed, TypeOK, JobsNamed, Status, CheckPcs, OpenPcs,
        redis, checker, handler, bull
<1>1. CASE CronRead
  BY <1>1 DEF CronRead
<1>2. ASSUME NEW o \in Ids, CronCancel(o) PROVE Typed'
  BY <1>2 DEF CronCancel
<1>3. CASE ExpirePause
  BY <1>3 DEF ExpirePause
<1>4. ASSUME NEW o \in Ids, Age(o) PROVE Typed'
  BY <1>4 DEF Age, Befalls
<1>5. ASSUME NEW s \in Symbols, ExpireOpening(s) PROVE Typed'
  BY <1>5 DEF ExpireOpening
<1>6. ASSUME NEW c \in Containers, Restart(c) PROVE Typed'
  <2>1. troubled' \subseteq Ids
    BY <1>6 DEF Restart, Befalls
  <2> QED
    BY <1>6, <2>1 DEF Restart, Lose
<1>7. ASSUME NEW c \in Containers, Stall(c) PROVE Typed'
  <2> DEFINE jobs == {job[h] : h \in {g \in Handlers : g[1] = c}} \ {None}
  <2>1. jobs \subseteq Ids
    OBVIOUS
  <2>2. troubled' \subseteq Ids
    BY <1>7, <2>1 DEF Stall, Befalls
  <2> QED
    BY <1>7, <2>1, <2>2 DEF Stall, Lose
<1> QED
  BY <1>1, <1>2, <1>3, <1>4, <1>5, <1>6, <1>7 DEF CronStep, TimeStep

\* The types are an invariant of every step.
LEMMA NextTyped == Typed /\ [Next]_vars => Typed'
<1> SUFFICES ASSUME Typed, [Next]_vars PROVE Typed'
  OBVIOUS
<1>1. CASE UNCHANGED vars
  BY <1>1 DEF Typed, TypeOK, JobsNamed, vars, redis, checker, handler, bull
<1>2. CASE Next
  BY <1>2, CheckTyped, OpenTyped, OtherTyped DEF Next
<1> QED
  BY <1>1, <1>2

\* Type correctness of the whole opening path, whatever the hazards.
THEOREM TypeCorrect == Spec => []TypeOK
<1>1. Spec => []Typed
  BY InitTyped, NextTyped, PTL DEF Spec
<1> QED
  BY <1>1, PTL DEF Typed

----------------------------------------------------------------------------
(***************************************************************************)
(* OpenedWasBought.  A status OPENED is written by a handler past the      *)
(* purchase, or repeated from the snapshot of a check; so the snapshots    *)
(* and the handlers belong to the inductive invariant.                     *)
(***************************************************************************)

PastPurchase == {"bought", "stamp", "adjust"}

BoughtInv ==
    /\ OpenedWasBought
    /\ \A k \in Checks, o \in Real : seen[k][o] = "OPENED" => buys[o] > 0
    /\ \A h \in Handlers : openPc[h] \in PastPurchase => buys[job[h]] > 0

\* A check repeats in the book only what its snapshot says.
LEMMA CheckBought ==
    ASSUME Typed, BoughtInv, NEW k \in Checks, CheckStep(k)
    PROVE  BoughtInv'
<1> USE OpenOrderAssumption DEF Typed, TypeOK, BoughtInv, OpenedWasBought, PastPurchase, Real,
        redis, checker, handler, bull, CheckReturn
<1>1. CASE CheckRead(k)
  <2> DEFINE orders == ActiveOrders(SymbolOfCheck(k))
  <2>1. \A o \in Ids : seen'[k][o] = "OPENED" => status[o] = "OPENED"
    <3> HIDE DEF orders
    <3> QED BY <1>1 DEF CheckRead, orders
  <2>2. \A j \in Checks : j # k => seen'[j] = seen[j]
    BY <1>1 DEF CheckRead
  <2> QED
    BY <1>1, <2>1, <2>2 DEF CheckRead
<1>2. CASE CheckMixed(k)
  BY <1>2 DEF CheckMixed
<1>3. CASE CheckCancelOnly(k)
  BY <1>3 DEF CheckCancelOnly
<1>4. CASE CheckCancelDone(k)
  BY <1>4 DEF CheckCancelDone
<1>5. CASE CheckReread(k)
  <2>1. \A j \in Checks : seen'[j] = seen[j] \/ seen'[j] = [o \in Ids |-> "NONE"]
    BY <1>5 DEF CheckReread
  <2> QED
    BY <1>5, <2>1 DEF CheckReread
<1>6. CASE CheckGoOpen(k)
  BY <1>6 DEF CheckGoOpen
<1>7. CASE CheckSkip(k)
  BY <1>7 DEF CheckSkip
<1>8. CASE CheckPause(k)
  BY <1>8 DEF CheckPause
<1>9. CASE CheckPending(k)
  BY <1>9 DEF CheckPending
<1>10. CASE StartPending(k)
  BY <1>10 DEF StartPending
<1>11. CASE SendOpenJob(k)
  BY <1>11 DEF SendOpenJob
<1>12. ASSUME NEW o \in Ids, CheckCancelVirtual(k, o) PROVE BoughtInv'
  BY <1>12 DEF CheckCancelVirtual
<1>13. ASSUME NEW o \in Ids, CheckRefresh(k, o) PROVE BoughtInv'
  BY <1>13 DEF CheckRefresh
<1>14. ASSUME NEW o \in Ids, CreateOrder(k, o) PROVE BoughtInv'
  BY <1>14 DEF CreateOrder
<1> QED
  BY <1>1, <1>2, <1>3, <1>4, <1>5, <1>6, <1>7, <1>8, <1>9, <1>10, <1>11, <1>12,
     <1>13, <1>14 DEF CheckStep

\* A handler writes OPENED only past the purchase, or for a virtual order.
LEMMA OpenBought ==
    ASSUME Typed, BoughtInv, NEW h \in Handlers, OpenStep(h)
    PROVE  BoughtInv'
<1> USE OpenOrderAssumption DEF Typed, TypeOK, JobsNamed, BoughtInv, OpenedWasBought, PastPurchase,
        Real, redis, checker, handler, bull, OpenGoto, OpenReturn
<1>1. CASE OpenGiveUp(h)
  BY <1>1 DEF OpenGiveUp
<1>2. CASE OpenCheckPause(h)
  BY <1>2 DEF OpenCheckPause
<1>3. CASE OpenCheckPending(h)
  BY <1>3 DEF OpenCheckPending
<1>4. CASE OpenCancelOwn(h)
  BY <1>4 DEF OpenCancelOwn
<1>5. CASE OpenVirtual(h)
  BY <1>5 DEF OpenVirtual
<1>6. CASE OpenBuy(h)
  <2>1. \A o \in Ids : buys'[o] >= buys[o]
    BY <1>6 DEF OpenBuy
  <2>2. openPc'[h] = "bought" => buys'[job[h]] > 0
    BY <1>6 DEF OpenBuy
  <2>3. \A g \in Handlers : openPc'[g] \in PastPurchase => openPc[g] \in PastPurchase \/ g = h
    BY <1>6 DEF OpenBuy
  <2>4. openPc'[h] \in {"bought", "failed"}
    BY <1>6 DEF OpenBuy
  <2>5. UNCHANGED <<status, seen, job>> /\ buys' \in [Ids -> Nat]
    BY <1>6 DEF OpenBuy
  <2>6. \A n, m \in Nat : n > 0 /\ m >= n => m > 0
    OBVIOUS
  <2>7. \A o \in Ids : buys[o] > 0 => buys'[o] > 0
    BY <2>1, <2>5, <2>6
  <2>8. \A g \in Handlers : openPc'[g] \in PastPurchase => buys'[job'[g]] > 0
    BY <2>2, <2>3, <2>4, <2>5, <2>7 DEF OpenPcs
  <2> QED
    BY <2>5, <2>7, <2>8
<1>7. CASE OpenRecord(h)
  BY <1>7 DEF OpenRecord
<1>8. CASE OpenStamp(h)
  BY <1>8 DEF OpenStamp
<1>9. CASE OpenAdjust(h)
  BY <1>9 DEF OpenAdjust
<1>10. CASE OpenThrow(h)
  BY <1>10 DEF OpenThrow
<1>11. CASE OpenReadVirtual(h)
  BY <1>11 DEF OpenReadVirtual
<1>12. CASE OpenRelease(h)
  BY <1>12 DEF OpenRelease
<1>13. ASSUME NEW o \in Ids, OpenTake(h, o) PROVE BoughtInv'
  BY <1>13 DEF OpenTake
<1>14. ASSUME NEW o \in Ids, OpenCancelVirtual(h, o) PROVE BoughtInv'
  BY <1>14 DEF OpenCancelVirtual
<1> QED
  BY <1>1, <1>2, <1>3, <1>4, <1>5, <1>6, <1>7, <1>8, <1>9, <1>10, <1>11, <1>12,
     <1>13, <1>14 DEF OpenStep

\* The cron only cancels, the clocks and the restarts write no status.
LEMMA OtherBought ==
    ASSUME Typed, BoughtInv,
           CronStep \/ TimeStep \/ (\E c \in Containers : Restart(c) \/ Stall(c))
    PROVE  BoughtInv'
<1> USE OpenOrderAssumption DEF Typed, TypeOK, BoughtInv, OpenedWasBought, PastPurchase, Real,
        redis, checker, handler, bull
<1>1. CASE CronRead
  BY <1>1 DEF CronRead
<1>2. ASSUME NEW o \in Ids, CronCancel(o) PROVE BoughtInv'
  BY <1>2 DEF CronCancel
<1>3. CASE ExpirePause
  BY <1>3 DEF ExpirePause
<1>4. ASSUME NEW o \in Ids, Age(o) PROVE BoughtInv'
  BY <1>4 DEF Age
<1>5. ASSUME NEW s \in Symbols, ExpireOpening(s) PROVE BoughtInv'
  BY <1>5 DEF ExpireOpening
<1>6. ASSUME NEW c \in Containers, Lose(c), UNCHANGED <<status, buys>> PROVE BoughtInv'
  <2>1. \A k \in Checks, o \in Ids : seen'[k][o] = "OPENED" => seen[k][o] = "OPENED"
    BY <1>6 DEF Lose
  <2>2. \A h \in Handlers : openPc'[h] # "idle" => openPc'[h] = openPc[h] /\ job'[h] = job[h]
    BY <1>6 DEF Lose
  <2> QED
    BY <1>6, <2>1, <2>2
<1>7. ASSUME NEW c \in Containers, Restart(c) \/ Stall(c) PROVE BoughtInv'
  BY <1>6, <1>7 DEF Restart, Stall
<1> QED
  BY <1>1, <1>2, <1>3, <1>4, <1>5, <1>7 DEF CronStep, TimeStep

\* Nothing is bought, seen or opened at first.
LEMMA InitBought == Init => BoughtInv
BY DEF Init, BoughtInv, OpenedWasBought, PastPurchase, Real

LEMMA NextBought == Typed /\ BoughtInv /\ [Next]_vars => BoughtInv'
<1> SUFFICES ASSUME Typed, BoughtInv, [Next]_vars PROVE BoughtInv'
  OBVIOUS
<1>1. CASE UNCHANGED vars
  BY <1>1 DEF BoughtInv, OpenedWasBought, PastPurchase, vars, redis, checker, handler, bull
<1>2. CASE Next
  BY <1>2, CheckBought, OpenBought, OtherBought DEF Next
<1> QED
  BY <1>1, <1>2

\* setOrder(OPENED) of a real order always follows its purchase: the book never
\* shows a position the exchange does not have, under every hazard, redelivery
\* included, and for any number of containers, handlers and orders.
THEOREM OpenedAlwaysBought == Spec => []OpenedWasBought
<1>1. Spec => [](Typed /\ BoughtInv)
  BY InitTyped, InitBought, NextTyped, NextBought, PTL DEF Spec
<1>2. Typed /\ BoughtInv => OpenedWasBought
  BY DEF BoughtInv
<1> QED
  BY <1>1, <1>2, PTL

----------------------------------------------------------------------------
(***************************************************************************)
(* BoughtOnce.  An order is in one place at a time: with the check that    *)
(* created it, in the queue or with one handler; and before its handler    *)
(* has passed the purchase it has been bought by an earlier delivery only. *)
(***************************************************************************)

BeforePurchase == {"pause", "pending", "cancelOwn", "openVirtual", "buy"}

OnePlace ==
    /\ \A o \in Ids : status[o] = "NONE" => ~Live(o)
    /\ \A o \in queue, h \in Handlers : job[h] # o
    /\ \A o \in queue, k \in Checks : new[k] # o
    /\ \A g, h \in Handlers : g # h /\ job[g] # None => job[g] # job[h]
    /\ \A j, k \in Checks : j # k /\ new[j] # None => new[j] # new[k]
    /\ \A h \in Handlers, k \in Checks : job[h] # None => job[h] # new[k]

NotYetBought ==
    /\ \A o \in Ids : status[o] = "NONE" => buys[o] = 0
    /\ \A o \in queue : buys[o] <= Redelivered(o)
    /\ \A k \in Checks : new[k] # None => buys[new[k]] = 0
    /\ \A h \in Handlers : openPc[h] \in BeforePurchase => buys[job[h]] <= Redelivered(job[h])

OnceInv == OnePlace /\ NotYetBought /\ BoughtOnce

\* The profit refresh writes only orders its snapshot shows as active, so it
\* never makes a known order unknown again.
RefreshInv ==
    \A k \in Checks : checkPc[k] = "refresh" => checkTodo[k] \subseteq SeenOrders(k)

\* Only CheckRead and CheckReread enter the refresh, with the orders of the
\* snapshot, and CheckRefresh takes one away.
LEMMA CheckRefreshInv ==
    ASSUME Typed, RefreshInv, NEW k \in Checks, CheckStep(k)
    PROVE  RefreshInv'
<1> USE OpenOrderAssumption DEF Typed, TypeOK, RefreshInv, SeenOrders, CheckGoto, CheckReturn
<1>1. CASE CheckRead(k)
  <2> DEFINE orders == ActiveOrders(SymbolOfCheck(k))
  <2>1. \A o \in orders : o \in Ids /\ Active(status[o])
    BY DEF ActiveOrders
  <2>2. /\ checkPc'[k] = "refresh" => checkTodo'[k] = orders
        /\ seen'[k] = [o \in Ids |-> IF o \in orders THEN status[o] ELSE "NONE"]
    <3> HIDE DEF orders
    <3> QED BY <1>1 DEF CheckRead, orders
  <2>3. \A j \in Checks : j # k =>
            checkPc'[j] = checkPc[j] /\ seen'[j] = seen[j] /\ checkTodo'[j] = checkTodo[j]
    <3> HIDE DEF orders
    <3> QED BY <1>1 DEF CheckRead, orders
  <2>4. checkPc'[k] = "refresh" => checkTodo'[k] \subseteq SeenOrders(k)'
    <3> HIDE DEF orders
    <3> QED BY <2>1, <2>2
  <2> QED
    BY <2>3, <2>4
<1>2. CASE CheckMixed(k)
  BY <1>2 DEF CheckMixed
<1>3. CASE CheckCancelOnly(k)
  BY <1>3 DEF CheckCancelOnly
<1>4. CASE CheckCancelDone(k)
  BY <1>4 DEF CheckCancelDone
<1>5. CASE CheckReread(k)
  <2>1. CASE CheckReturn(k)
    BY <1>5, <2>1 DEF CheckReread
  <2>2. CASE /\ CheckGoto(k, "refresh")
             /\ checkTodo' = [checkTodo EXCEPT ![k] = SeenOrders(k)]
             /\ UNCHANGED <<seen, seenSymbols, new>>
    BY <1>5, <2>2 DEF CheckReread
  <2> QED
    BY <1>5, <2>1, <2>2 DEF CheckReread
<1>6. CASE CheckGoOpen(k)
  BY <1>6 DEF CheckGoOpen
<1>7. CASE CheckSkip(k)
  BY <1>7 DEF CheckSkip
<1>8. CASE CheckPause(k)
  BY <1>8 DEF CheckPause
<1>9. CASE CheckPending(k)
  BY <1>9 DEF CheckPending
<1>10. CASE StartPending(k)
  BY <1>10 DEF StartPending
<1>11. CASE SendOpenJob(k)
  BY <1>11 DEF SendOpenJob
<1>12. ASSUME NEW o \in Ids, CheckCancelVirtual(k, o) PROVE RefreshInv'
  BY <1>12 DEF CheckCancelVirtual
<1>13. ASSUME NEW o \in Ids, CheckRefresh(k, o) PROVE RefreshInv'
  BY <1>13 DEF CheckRefresh
<1>14. ASSUME NEW o \in Ids, CreateOrder(k, o) PROVE RefreshInv'
  BY <1>14 DEF CreateOrder
<1> QED
  BY <1>1, <1>2, <1>3, <1>4, <1>5, <1>6, <1>7, <1>8, <1>9, <1>10, <1>11, <1>12,
     <1>13, <1>14 DEF CheckStep

LEMMA NextRefreshInv == Typed /\ RefreshInv /\ [Next]_vars => RefreshInv'
<1> SUFFICES ASSUME Typed, RefreshInv, [Next]_vars PROVE RefreshInv'
  OBVIOUS
<1>1. CASE UNCHANGED checker
  BY <1>1 DEF RefreshInv, SeenOrders, checker
<1>2. ASSUME NEW c \in Containers, Lose(c) PROVE RefreshInv'
  BY <1>2 DEF RefreshInv, SeenOrders, Lose
<1>3. ASSUME NEW h \in Handlers, OpenStep(h) PROVE UNCHANGED checker
  BY <1>3 DEF OpenStep, OpenGiveUp, OpenCheckPause, OpenCheckPending, OpenCancelOwn,
     OpenVirtual, OpenBuy, OpenRecord, OpenStamp, OpenAdjust, OpenThrow, OpenReadVirtual,
     OpenRelease, OpenTake, OpenCancelVirtual
<1>4. CronStep \/ TimeStep => UNCHANGED checker
  BY DEF CronStep, CronRead, CronCancel, TimeStep, ExpirePause, Age, ExpireOpening
<1>5. UNCHANGED vars => UNCHANGED checker
  BY DEF vars
<1> QED
  BY <1>1, <1>2, <1>3, <1>4, <1>5, CheckRefreshInv DEF Next, Restart, Stall

\* What most steps do: orders leave their places, none enters one.
Leaves ==
    /\ queue' \subseteq queue
    /\ \A k \in Checks : new'[k] \in {new[k], None}
    /\ \A h \in Handlers : job'[h] \in {job[h], None}
    /\ \A h \in Handlers : openPc'[h] \in BeforePurchase =>
           openPc[h] \in BeforePurchase /\ job'[h] = job[h]
    /\ \A o \in Ids : status'[o] = "NONE" => status[o] = "NONE"
    /\ buys' = buys
    /\ stalled' = stalled

LEMMA LeavesOnce ==
    ASSUME Typed, Typed', OnceInv, Leaves
    PROVE  OnceInv'
<1> USE OpenOrderAssumption DEF Typed, TypeOK, OnceInv, Leaves, Redelivered
<1>1. OnePlace'
  BY DEF OnePlace, Live
<1>2. NotYetBought'
  <2>1. \A o \in Ids : status'[o] = "NONE" => buys'[o] = 0
    BY DEF NotYetBought
  <2>2. \A o \in queue' : buys'[o] <= Redelivered(o)'
    BY DEF NotYetBought
  <2>3. \A k \in Checks : new'[k] # None => buys'[new'[k]] = 0
    BY DEF NotYetBought
  <2>4. \A h \in Handlers : openPc'[h] \in BeforePurchase => buys'[job'[h]] <= Redelivered(job[h])'
    BY DEF NotYetBought
  <2> QED
    BY <2>1, <2>2, <2>3, <2>4 DEF NotYetBought
<1>3. BoughtOnce'
  BY DEF BoughtOnce
<1> QED
  BY <1>1, <1>2, <1>3

\* Creating an order and sending its job are the only steps of a check that
\* give an order a new place.
LEMMA CheckOnce ==
    ASSUME Typed, Typed', OnceInv, RefreshInv, NEW k \in Checks, CheckStep(k)
    PROVE  OnceInv'
<1> USE OpenOrderAssumption DEF Typed, TypeOK, redis, checker, handler, bull,
        CheckGoto, CheckReturn, Redelivered
<1>1. CASE CheckRead(k)
  BY <1>1, LeavesOnce DEF CheckRead, Leaves
<1>2. CASE CheckMixed(k)
  BY <1>2, LeavesOnce DEF CheckMixed, Leaves
<1>3. CASE CheckCancelOnly(k)
  BY <1>3, LeavesOnce DEF CheckCancelOnly, Leaves
<1>4. CASE CheckCancelDone(k)
  BY <1>4, LeavesOnce DEF CheckCancelDone, Leaves
<1>5. CASE CheckReread(k)
  BY <1>5, LeavesOnce DEF CheckReread, Leaves
<1>6. CASE CheckGoOpen(k)
  BY <1>6, LeavesOnce DEF CheckGoOpen, Leaves
<1>7. CASE CheckSkip(k)
  BY <1>7, LeavesOnce DEF CheckSkip, Leaves
<1>8. CASE CheckPause(k)
  BY <1>8, LeavesOnce DEF CheckPause, Leaves
<1>9. CASE CheckPending(k)
  BY <1>9, LeavesOnce DEF CheckPending, Leaves
<1>10. CASE StartPending(k)
  BY <1>10, LeavesOnce DEF StartPending, Leaves
<1>11. ASSUME NEW o \in Ids, CheckCancelVirtual(k, o) PROVE OnceInv'
  BY <1>11, LeavesOnce DEF CheckCancelVirtual, Leaves
<1>12. ASSUME NEW o \in Ids, CheckRefresh(k, o) PROVE OnceInv'
  <2>1. Active(seen[k][o])
    BY <1>12 DEF CheckRefresh, RefreshInv, SeenOrders
  <2>2. seen[k][o] # "NONE"
    BY <2>1 DEF Active
  <2> QED
    BY <1>12, <2>2, LeavesOnce DEF CheckRefresh, Leaves
<1>13. ASSUME NEW o \in Ids, CreateOrder(k, o) PROVE OnceInv'
  <2>1. /\ ~Live(o)
        /\ buys[o] = 0
    BY <1>13 DEF CreateOrder, MayCreate, OnceInv, OnePlace, NotYetBought
  <2>2. OnePlace'
    BY <1>13, <2>1 DEF CreateOrder, OnceInv, OnePlace, Live
  <2>3. NotYetBought'
    BY <1>13, <2>1 DEF CreateOrder, OnceInv, NotYetBought, BeforePurchase
  <2>4. BoughtOnce'
    BY <1>13 DEF CreateOrder, OnceInv, BoughtOnce
  <2> QED
    BY <2>2, <2>3, <2>4 DEF OnceInv
<1>14. CASE SendOpenJob(k)
  <2>1. new[k] \in Ids
    BY <1>14 DEF SendOpenJob, JobsNamed
  <2>2. OnePlace'
    BY <1>14, <2>1 DEF SendOpenJob, OnceInv, OnePlace, Live
  <2>3. NotYetBought'
    BY <1>14, <2>1 DEF SendOpenJob, OnceInv, NotYetBought, BeforePurchase
  <2>4. BoughtOnce'
    BY <1>14 DEF SendOpenJob, OnceInv, BoughtOnce
  <2> QED
    BY <2>2, <2>3, <2>4 DEF OnceInv
<1> QED
  BY <1>1, <1>2, <1>3, <1>4, <1>5, <1>6, <1>7, <1>8, <1>9, <1>10, <1>11, <1>12, <1>13, <1>14 DEF CheckStep

\* Taking a job moves an order from the queue to a handler; the purchase is the
\* one step that counts up, and its handler never comes back to it.
LEMMA OpenOnce ==
    ASSUME Typed, Typed', OnceInv, NEW h \in Handlers, OpenStep(h)
    PROVE  OnceInv'
<1> USE OpenOrderAssumption DEF Typed, TypeOK, BeforePurchase, redis, checker, handler, bull,
        OpenGoto, OpenReturn, Redelivered
<1>1. CASE OpenGiveUp(h)
  BY <1>1, LeavesOnce DEF OpenGiveUp, Leaves
<1>2. CASE OpenCheckPause(h)
  BY <1>2, LeavesOnce DEF OpenCheckPause, Leaves
<1>3. CASE OpenCheckPending(h)
  BY <1>3, LeavesOnce DEF OpenCheckPending, Leaves
<1>4. CASE OpenCancelOwn(h)
  BY <1>4, LeavesOnce DEF OpenCancelOwn, Leaves
<1>5. CASE OpenVirtual(h)
  BY <1>5, LeavesOnce DEF OpenVirtual, Leaves
<1>6. CASE OpenRecord(h)
  BY <1>6, LeavesOnce DEF OpenRecord, Leaves
<1>7. CASE OpenStamp(h)
  BY <1>7, LeavesOnce DEF OpenStamp, Leaves
<1>8. CASE OpenAdjust(h)
  BY <1>8, LeavesOnce DEF OpenAdjust, Leaves
<1>9. CASE OpenThrow(h)
  BY <1>9, LeavesOnce DEF OpenThrow, Leaves
<1>10. CASE OpenReadVirtual(h)
  BY <1>10, LeavesOnce DEF OpenReadVirtual, Leaves
<1>11. CASE OpenRelease(h)
  BY <1>11, LeavesOnce DEF OpenRelease, Leaves
<1>12. ASSUME NEW o \in Ids, OpenCancelVirtual(h, o) PROVE OnceInv'
  BY <1>12, LeavesOnce DEF OpenCancelVirtual, Leaves
<1>13. ASSUME NEW o \in Ids, OpenTake(h, o) PROVE OnceInv'
  <2>1. OnePlace'
    BY <1>13 DEF OpenTake, OnceInv, OnePlace, Live
  <2>2. NotYetBought'
    BY <1>13 DEF OpenTake, OnceInv, NotYetBought
  <2>3. BoughtOnce'
    BY <1>13 DEF OpenTake, OnceInv, BoughtOnce
  <2> QED
    BY <2>1, <2>2, <2>3 DEF OnceInv
<1>14. CASE OpenBuy(h)
  <2> DEFINE o == job[h]
  <2>1. o \in Ids /\ o # None
    BY <1>14 DEF OpenBuy, JobsNamed
  <2>2. /\ buys[o] <= Redelivered(o)
        /\ status[o] # "NONE"
        /\ o \notin queue
        /\ \A k \in Checks : new[k] # o
        /\ \A g \in Handlers : g # h => job[g] # o
    BY <1>14, <2>1 DEF OpenBuy, OnceInv, NotYetBought, OnePlace, Live
  <2>3. /\ buys' = [buys EXCEPT ![o] = @ + 1] \/ buys' = buys
        /\ UNCHANGED <<status, queue, new, job, stalled>>
        /\ openPc'[h] \notin BeforePurchase
        /\ \A g \in Handlers : g # h => openPc'[g] = openPc[g]
    BY <1>14 DEF OpenBuy
  <2>4. /\ \A x \in Ids \ {o} : buys'[x] = buys[x]
        /\ buys'[o] <= 1 + Redelivered(o)
    BY <2>1, <2>2, <2>3
  <2>5. OnePlace'
    BY <2>3 DEF OnceInv, OnePlace, Live
  <2>6. NotYetBought'
    <3>1. \A x \in Ids : status'[x] = "NONE" => buys'[x] = 0
      BY <2>2, <2>3, <2>4 DEF OnceInv, NotYetBought
    <3>2. \A x \in queue' : buys'[x] <= Redelivered(x)'
      BY <2>2, <2>3, <2>4 DEF OnceInv, NotYetBought
    <3>3. \A k \in Checks : new'[k] # None => buys'[new'[k]] = 0
      BY <2>2, <2>3, <2>4 DEF OnceInv, NotYetBought
    <3>4. \A g \in Handlers : openPc'[g] \in BeforePurchase => buys'[job'[g]] <= Redelivered(job[g])'
      BY <2>2, <2>3, <2>4 DEF OnceInv, NotYetBought, JobsNamed
    <3> QED
      BY <3>1, <3>2, <3>3, <3>4 DEF NotYetBought
  <2>7. BoughtOnce'
    BY <2>3, <2>4 DEF OnceInv, BoughtOnce
  <2> QED
    BY <2>5, <2>6, <2>7 DEF OnceInv
<1> QED
  BY <1>1, <1>2, <1>3, <1>4, <1>5, <1>6, <1>7, <1>8, <1>9, <1>10, <1>11, <1>12, <1>13, <1>14 DEF OpenStep

\* The cron, the clocks and a restart move no order to a new place.  A redelivery
\* moves the orders of the dead process back to the queue, each of them once.
LEMMA OtherOnce ==
    ASSUME Typed, Typed', OnceInv,
           CronStep \/ TimeStep \/ (\E c \in Containers : Restart(c) \/ Stall(c))
    PROVE  OnceInv'
<1> USE OpenOrderAssumption DEF Typed, TypeOK, BeforePurchase, redis, checker, handler, bull
<1>1. CASE CronRead
  BY <1>1, LeavesOnce DEF CronRead, Leaves
<1>2. ASSUME NEW o \in Ids, CronCancel(o) PROVE OnceInv'
  BY <1>2, LeavesOnce DEF CronCancel, Leaves
<1>3. CASE ExpirePause
  BY <1>3, LeavesOnce DEF ExpirePause, Leaves
<1>4. ASSUME NEW o \in Ids, Age(o) PROVE OnceInv'
  BY <1>4, LeavesOnce DEF Age, Leaves
<1>5. ASSUME NEW s \in Symbols, ExpireOpening(s) PROVE OnceInv'
  BY <1>5, LeavesOnce DEF ExpireOpening, Leaves
<1>6. ASSUME NEW c \in Containers, Restart(c) PROVE OnceInv'
  BY <1>6, LeavesOnce DEF Restart, Lose, Leaves
<1>7. ASSUME NEW c \in Containers, Stall(c) PROVE OnceInv'
  <2> DEFINE jobs == {job[h] : h \in {g \in Handlers : g[1] = c}} \ {None}
  <2>1. /\ UNCHANGED <<status, buys>>
        /\ queue' \subseteq queue \union (jobs \ stalled)
        /\ stalled' = stalled \union jobs
        /\ \A k \in Checks : new'[k] \in {new[k], None}
        /\ \A h \in Handlers : IF h[1] = c THEN job'[h] = None /\ openPc'[h] = "idle"
                                            ELSE job'[h] = job[h] /\ openPc'[h] = openPc[h]
    BY <1>7 DEF Stall, Lose
  <2>2. \A o \in jobs : \E h \in Handlers : h[1] = c /\ job[h] = o /\ o # None
    OBVIOUS
  <2> HIDE DEF jobs
  <2>3. OnePlace'
    <3>1. \A o \in Ids : Live(o)' => Live(o)
      BY <2>1, <2>2 DEF Live
    <3>2. \A o \in queue' : o \in queue \/ \E h \in Handlers : h[1] = c /\ job[h] = o /\ o # None
      BY <2>1, <2>2
    <3>a. None \notin queue'
      BY OpenOrderAssumption DEF Typed, TypeOK
    <3>3. ASSUME NEW o \in queue', NEW h \in Handlers PROVE job'[h] # o
      <4>1. CASE h[1] = c
        BY <2>1, <3>a, <4>1
      <4>2. CASE h[1] # c
        <5>1. job'[h] = job[h]
          BY <2>1, <4>2
        <5>2. CASE o \in queue
          BY <5>1, <5>2 DEF OnceInv, OnePlace
        <5>3. CASE \E g \in Handlers : g[1] = c /\ job[g] = o /\ o # None
          <6> PICK g \in Handlers : g[1] = c /\ job[g] = o /\ o # None
            BY <5>3
          <6>1. g # h /\ job[g] # None
            BY <4>2
          <6> QED
            BY <5>1, <6>1 DEF OnceInv, OnePlace
        <5> QED
          BY <3>2, <5>2, <5>3
      <4> QED
        BY <4>1, <4>2
    <3>4. ASSUME NEW o \in queue', NEW k \in Checks PROVE new'[k] # o
      <4>1. new'[k] = new[k] => o # new[k]
        <5>1. CASE o \in queue
          BY <5>1 DEF OnceInv, OnePlace
        <5>2. CASE \E h \in Handlers : h[1] = c /\ job[h] = o /\ o # None
          BY <5>2 DEF OnceInv, OnePlace
        <5> QED
          BY <3>2, <5>1, <5>2
      <4> QED
        BY <2>1, <3>a, <4>1
    <3>5. \A g, h \in Handlers : g # h /\ job'[g] # None => job'[g] # job'[h]
      BY <2>1 DEF OnceInv, OnePlace
    <3>6. \A j, k \in Checks : j # k /\ new'[j] # None => new'[j] # new'[k]
      BY <2>1 DEF OnceInv, OnePlace
    <3>7. \A h \in Handlers, k \in Checks : job'[h] # None => job'[h] # new'[k]
      BY <2>1 DEF OnceInv, OnePlace
    <3> QED
      BY <2>1, <3>1, <3>3, <3>4, <3>5, <3>6, <3>7 DEF OnceInv, OnePlace
  <2>4. \A o \in Ids : buys'[o] <= 1 + Redelivered(o)'
    BY <2>1 DEF OnceInv, BoughtOnce, Redelivered
  <2>5. \A o \in jobs \ stalled : buys[o] <= 1 /\ Redelivered(o)' = 1
    BY <2>1, <2>2 DEF OnceInv, BoughtOnce, Redelivered
  <2>6. NotYetBought'
    BY <2>1, <2>5 DEF OnceInv, NotYetBought, Redelivered
  <2> QED
    BY <2>3, <2>4, <2>6 DEF OnceInv, BoughtOnce
<1> QED
  BY <1>1, <1>2, <1>3, <1>4, <1>5, <1>6, <1>7 DEF CronStep, TimeStep

LEMMA NextOnce ==
    Typed /\ Typed' /\ RefreshInv /\ OnceInv /\ [Next]_vars => OnceInv'
<1> SUFFICES ASSUME Typed, Typed', RefreshInv, OnceInv, [Next]_vars PROVE OnceInv'
  OBVIOUS
<1>1. CASE UNCHANGED vars
  BY <1>1, LeavesOnce DEF Leaves, vars, redis, checker, handler, bull, Typed, TypeOK
<1>2. CASE Next
  BY <1>2, CheckOnce, OpenOnce, OtherOnce DEF Next
<1> QED
  BY <1>1, <1>2

LEMMA InitOnce == Init => RefreshInv /\ OnceInv
BY OpenOrderAssumption DEF Init, RefreshInv, OnceInv, OnePlace, Live, NotYetBought, BoughtOnce,
   Redelivered, BeforePurchase, Checks, Handlers

\* An order is bought at most once for each time its job is handed out - with any
\* number of traders and handlers, through late jobs, lost answers, failed writes,
\* restarts and redelivery, and without any help of the semaphore.
THEOREM BoughtAtMostOnce == Spec => []BoughtOnce
<1>1. Init => Typed /\ RefreshInv /\ OnceInv
  BY InitTyped, InitOnce
<1>2. Typed /\ RefreshInv /\ OnceInv /\ [Next]_vars => (Typed /\ RefreshInv /\ OnceInv)'
  BY NextTyped, NextRefreshInv, NextOnce
<1>3. Typed /\ RefreshInv /\ OnceInv => BoughtOnce
  BY DEF OnceInv
<1> QED
  BY <1>1, <1>2, <1>3, PTL DEF Spec

----------------------------------------------------------------------------
(***************************************************************************)
(* OneOpenerPerSymbol.  When nothing outlives the semaphore, an order that *)
(* is on its way to a handler, or with one, holds the semaphore of its     *)
(* symbol; and a check that is about to take the semaphore has found it    *)
(* free.  With one trader, nobody can take it in between.                  *)
(***************************************************************************)

Engaged(o) ==
    \/ o \in queue
    \/ \E h \in Handlers : job[h] = o
    \/ \E k \in Checks : checkPc[k] = "signal" /\ new[k] = o

SemaphoreHeld == \A o \in Ids : Engaged(o) => opening[SymbolOf[o]] = o

SemaphoreFree == \A k \in Checks :
    checkPc[k] \in {"create", "block"} => opening[SymbolOfCheck(k)] = None

NewOfSymbol == \A k \in Checks :
    checkPc[k] \in {"block", "signal"} => SymbolOf[new[k]] = SymbolOfCheck(k)

SemaphoreInv == SemaphoreHeld /\ SemaphoreFree /\ NewOfSymbol

Promptness ==
    /\ \A c, d \in Containers : c = d
    /\ {"slow", "stall"} \intersect Hazards = {}

\* What most steps do: nobody starts to be engaged or to look for the
\* semaphore, and the semaphores stay.
Calm ==
    /\ opening' = opening
    /\ \A o \in Ids : Engaged(o)' => Engaged(o)
    /\ \A k \in Checks : checkPc'[k] \in {"create", "block", "signal"} =>
           checkPc'[k] = checkPc[k] /\ new'[k] = new[k]

LEMMA CalmSemaphore ==
    ASSUME Typed, Typed', SemaphoreInv, Calm
    PROVE  SemaphoreInv'
BY OpenOrderAssumption DEF Calm, SemaphoreInv, SemaphoreHeld, SemaphoreFree, NewOfSymbol, Typed, TypeOK

\* With one container there is one check of a symbol.
LEMMA OneCheck ==
    ASSUME Promptness, NEW j \in Checks, NEW k \in Checks, SymbolOfCheck(j) = SymbolOfCheck(k)
    PROVE  j = k
BY DEF Promptness, Checks, SymbolOfCheck

\* A check may only pass the semaphore when it is free, and what it then puts
\* into it is the order it engages.
LEMMA CheckSemaphore ==
    ASSUME Promptness, Typed, Typed', OnceInv, SemaphoreInv, NEW k \in Checks, CheckStep(k)
    PROVE  SemaphoreInv'
<1> USE OpenOrderAssumption DEF Typed, TypeOK, CheckPcs, redis, checker, handler, bull,
        CheckGoto, CheckReturn
<1>1. CASE CheckRead(k)
  BY <1>1, CalmSemaphore DEF CheckRead, Calm, Engaged
<1>2. CASE CheckMixed(k)
  BY <1>2, CalmSemaphore DEF CheckMixed, Calm, Engaged
<1>3. CASE CheckCancelOnly(k)
  BY <1>3, CalmSemaphore DEF CheckCancelOnly, Calm, Engaged
<1>4. CASE CheckCancelDone(k)
  BY <1>4, CalmSemaphore DEF CheckCancelDone, Calm, Engaged
<1>5. CASE CheckReread(k)
  BY <1>5, CalmSemaphore DEF CheckReread, Calm, Engaged
<1>6. CASE CheckGoOpen(k)
  BY <1>6, CalmSemaphore DEF CheckGoOpen, Calm, Engaged
<1>7. CASE CheckSkip(k)
  BY <1>7, CalmSemaphore DEF CheckSkip, Calm, Engaged
<1>8. CASE CheckPause(k)
  BY <1>8, CalmSemaphore DEF CheckPause, Calm, Engaged
<1>9. ASSUME NEW o \in Ids, CheckCancelVirtual(k, o) PROVE SemaphoreInv'
  BY <1>9, CalmSemaphore DEF CheckCancelVirtual, Calm, Engaged
<1>10. ASSUME NEW o \in Ids, CheckRefresh(k, o) PROVE SemaphoreInv'
  BY <1>10, CalmSemaphore DEF CheckRefresh, Calm, Engaged
<1>11. CASE CheckPending(k)
  BY <1>11 DEF CheckPending, SemaphoreInv, SemaphoreHeld, SemaphoreFree, NewOfSymbol, Engaged
<1>12. ASSUME NEW o \in Ids, CreateOrder(k, o) PROVE SemaphoreInv'
  BY <1>12 DEF CreateOrder, MayCreate, SemaphoreInv, SemaphoreHeld, SemaphoreFree, NewOfSymbol, Engaged
<1>13. CASE StartPending(k)
  <2> DEFINE sym == SymbolOfCheck(k)
  <2>1. /\ new[k] \in Ids
        /\ SymbolOf[new[k]] = sym
        /\ sym \in Symbols
        /\ opening[sym] = None
    BY <1>13 DEF StartPending, JobsNamed, SemaphoreInv, SemaphoreFree, NewOfSymbol, Checks,
       SymbolOfCheck
  <2>2. opening' = [opening EXCEPT ![sym] = new[k]] /\ UNCHANGED <<new, queue, job>>
    BY <1>13 DEF StartPending
  <2>3. checkPc' = [checkPc EXCEPT ![k] = "signal"]
    BY <1>13 DEF StartPending
  <2>4. \A o \in Ids : Engaged(o)' => Engaged(o) \/ o = new[k]
    BY <2>2, <2>3 DEF Engaged
  <2>5. SemaphoreHeld'
    BY <2>1, <2>2, <2>4 DEF SemaphoreInv, SemaphoreHeld
  <2>6. SemaphoreFree'
    BY <2>1, <2>2, <2>3, OneCheck DEF SemaphoreInv, SemaphoreFree
  <2>7. NewOfSymbol'
    BY <2>1, <2>2, <2>3 DEF SemaphoreInv, NewOfSymbol
  <2> QED
    BY <2>5, <2>6, <2>7 DEF SemaphoreInv
<1>14. CASE SendOpenJob(k)
  BY <1>14 DEF SendOpenJob, SemaphoreInv, SemaphoreHeld, SemaphoreFree, NewOfSymbol, Engaged
<1> QED
  BY <1>1, <1>2, <1>3, <1>4, <1>5, <1>6, <1>7, <1>8, <1>9, <1>10, <1>11, <1>12, <1>13, <1>14 DEF CheckStep

\* A handler engages no order but the one it takes from the queue, and it frees
\* the semaphore of the order it lets go.
LEMMA OpenSemaphore ==
    ASSUME Typed, Typed', OnceInv, SemaphoreInv, NEW h \in Handlers, OpenStep(h)
    PROVE  SemaphoreInv'
<1> USE OpenOrderAssumption DEF Typed, TypeOK, redis, checker, handler, bull,
        OpenGoto, OpenReturn
<1>1. CASE OpenGiveUp(h)
  BY <1>1, CalmSemaphore DEF OpenGiveUp, Calm, Engaged
<1>2. CASE OpenCheckPause(h)
  BY <1>2, CalmSemaphore DEF OpenCheckPause, Calm, Engaged
<1>3. CASE OpenCheckPending(h)
  BY <1>3, CalmSemaphore DEF OpenCheckPending, Calm, Engaged
<1>4. CASE OpenCancelOwn(h)
  BY <1>4, CalmSemaphore DEF OpenCancelOwn, Calm, Engaged
<1>5. CASE OpenVirtual(h)
  BY <1>5, CalmSemaphore DEF OpenVirtual, Calm, Engaged
<1>6. CASE OpenBuy(h)
  BY <1>6, CalmSemaphore DEF OpenBuy, Calm, Engaged
<1>7. CASE OpenRecord(h)
  BY <1>7, CalmSemaphore DEF OpenRecord, Calm, Engaged
<1>8. CASE OpenStamp(h)
  BY <1>8, CalmSemaphore DEF OpenStamp, Calm, Engaged
<1>9. CASE OpenAdjust(h)
  BY <1>9, CalmSemaphore DEF OpenAdjust, Calm, Engaged
<1>10. CASE OpenThrow(h)
  BY <1>10, CalmSemaphore DEF OpenThrow, Calm, Engaged
<1>11. CASE OpenReadVirtual(h)
  BY <1>11, CalmSemaphore DEF OpenReadVirtual, Calm, Engaged
<1>12. ASSUME NEW o \in Ids, OpenTake(h, o) PROVE SemaphoreInv'
  BY <1>12, CalmSemaphore DEF OpenTake, Calm, Engaged
<1>13. ASSUME NEW o \in Ids, OpenCancelVirtual(h, o) PROVE SemaphoreInv'
  BY <1>13, CalmSemaphore DEF OpenCancelVirtual, Calm, Engaged
<1>14. CASE OpenRelease(h)
  <2>1. PICK o \in Ids : o = job[h] /\ o # None
    BY <1>14 DEF OpenRelease, JobsNamed
  <2>2. /\ opening' = [opening EXCEPT ![SymbolOf[o]] = None]
        /\ job' = [job EXCEPT ![h] = None]
        /\ UNCHANGED <<queue, new, checkPc>>
    BY <1>14, <2>1 DEF OpenRelease
  <2>3. ~Engaged(o)'
    <3>1. o \notin queue /\ (\A k \in Checks : new[k] # o)
      BY <2>1 DEF OnceInv, OnePlace
    <3>2. \A g \in Handlers : job'[g] # o
      BY <2>1, <2>2 DEF OnceInv, OnePlace
    <3> QED
      BY <2>2, <3>1, <3>2 DEF Engaged
  <2>4. \A x \in Ids : Engaged(x)' => Engaged(x) /\ x # o
    BY <2>1, <2>2, <2>3 DEF Engaged
  <2>5. Engaged(o) /\ opening[SymbolOf[o]] = o
    BY <2>1 DEF Engaged, SemaphoreInv, SemaphoreHeld
  <2>6. \A x \in Ids : Engaged(x)' => SymbolOf[x] # SymbolOf[o]
    BY <2>1, <2>4, <2>5 DEF SemaphoreInv, SemaphoreHeld
  <2>7. SemaphoreHeld'
    BY <2>1, <2>2, <2>4, <2>6 DEF SemaphoreInv, SemaphoreHeld
  <2>8. SemaphoreFree'
    BY <2>1, <2>2 DEF SemaphoreInv, SemaphoreFree
  <2>9. NewOfSymbol'
    BY <2>2 DEF SemaphoreInv, NewOfSymbol
  <2> QED
    BY <2>7, <2>8, <2>9 DEF SemaphoreInv
<1> QED
  BY <1>1, <1>2, <1>3, <1>4, <1>5, <1>6, <1>7, <1>8, <1>9, <1>10, <1>11, <1>12, <1>13, <1>14 DEF OpenStep

\* A semaphore expires only when its order is no longer under way.
LEMMA OtherSemaphore ==
    ASSUME Promptness, Typed, Typed', SemaphoreInv,
           CronStep \/ TimeStep \/ (\E c \in Containers : Restart(c) \/ Stall(c))
    PROVE  SemaphoreInv'
<1> USE OpenOrderAssumption DEF Typed, TypeOK, redis, checker, handler, bull
<1>1. CASE CronRead
  BY <1>1, CalmSemaphore DEF CronRead, Calm, Engaged
<1>2. ASSUME NEW o \in Ids, CronCancel(o) PROVE SemaphoreInv'
  BY <1>2, CalmSemaphore DEF CronCancel, Calm, Engaged
<1>3. CASE ExpirePause
  BY <1>3, CalmSemaphore DEF ExpirePause, Calm, Engaged
<1>4. ASSUME NEW o \in Ids, Age(o) PROVE SemaphoreInv'
  BY <1>4, CalmSemaphore DEF Age, Calm, Engaged
<1>5. ASSUME NEW s \in Symbols, ExpireOpening(s) PROVE SemaphoreInv'
  <2>1. ~Live(opening[s])
    BY <1>5 DEF ExpireOpening, Promptness
  <2>2. \A o \in Ids : Engaged(o) => opening[s] # o
    BY <2>1 DEF Engaged, Live
  <2> QED
    BY <1>5, <2>2 DEF ExpireOpening, SemaphoreInv, SemaphoreHeld, SemaphoreFree, NewOfSymbol, Engaged
<1>6. ASSUME NEW c \in Containers, Restart(c) PROVE SemaphoreInv'
  BY <1>6, CalmSemaphore DEF Restart, Lose, Calm, Engaged
<1>7. ASSUME NEW c \in Containers PROVE ~Stall(c)
  BY DEF Stall, Promptness
<1> QED
  BY <1>1, <1>2, <1>3, <1>4, <1>5, <1>6, <1>7 DEF CronStep, TimeStep

LEMMA NextSemaphore ==
    ASSUME Promptness
    PROVE  Typed /\ Typed' /\ OnceInv /\ SemaphoreInv /\ [Next]_vars => SemaphoreInv'
<1> SUFFICES ASSUME Typed, Typed', OnceInv, SemaphoreInv, [Next]_vars PROVE SemaphoreInv'
  OBVIOUS
<1>1. CASE UNCHANGED vars
  BY <1>1, CalmSemaphore DEF Calm, Engaged, vars, redis, checker, handler, bull
<1>2. CASE Next
  BY <1>2, CheckSemaphore, OpenSemaphore, OtherSemaphore DEF Next
<1> QED
  BY <1>1, <1>2

LEMMA InitSemaphore == Init => SemaphoreInv
BY OpenOrderAssumption DEF Init, SemaphoreInv, SemaphoreHeld, SemaphoreFree, NewOfSymbol, Engaged,
   Checks, Handlers

\* Two handlers with jobs of one symbol would both hold its semaphore, so both
\* would carry the same order.
LEMMA HeldExcludes == Typed /\ OnceInv /\ SemaphoreInv => OneOpenerPerSymbol
<1> SUFFICES ASSUME Typed, OnceInv, SemaphoreInv,
                    NEW g \in Handlers, NEW h \in Handlers, g # h, Critical(g), Critical(h)
             PROVE  SymbolOf[job[g]] # SymbolOf[job[h]]
  BY DEF OneOpenerPerSymbol
<1>1. job[g] \in Ids /\ job[h] \in Ids
  BY DEF Typed, JobsNamed, Critical
<1>2. job[g] # job[h]
  BY <1>1, OpenOrderAssumption DEF OnceInv, OnePlace
<1>3. opening[SymbolOf[job[g]]] = job[g] /\ opening[SymbolOf[job[h]]] = job[h]
  BY <1>1 DEF SemaphoreInv, SemaphoreHeld, Engaged
<1> QED
  BY <1>2, <1>3

\* The semaphore read at signal.service.ts:944, taken at 985, checked again by the
\* handler and deleted by whoever finishes is enough for one trader without late
\* or redelivered jobs: at no time do two handlers open orders of one symbol,
\* for any number of symbols, handlers and orders.
THEOREM OneOpener ==
    ASSUME Promptness
    PROVE  Spec => []OneOpenerPerSymbol
<1> "stall" \notin Hazards
  BY DEF Promptness
<1> DEFINE IInv == Typed /\ RefreshInv /\ OnceInv /\ SemaphoreInv
<1>1. Init => IInv
  BY InitTyped, InitOnce, InitSemaphore
<1>2. IInv /\ [Next]_vars => IInv'
  BY NextTyped, NextRefreshInv, NextOnce, NextSemaphore
<1>3. IInv => OneOpenerPerSymbol
  BY HeldExcludes
<1> QED
  BY <1>1, <1>2, <1>3, PTL DEF Spec

----------------------------------------------------------------------------
(***************************************************************************)
(* PositionRecorded and LifeRefined.  Each hazard can break them for the   *)
(* order it strikes: it grows old under way (slow), is bought with no      *)
(* answer (lostReply), is not written (redisFail), loses its handler       *)
(* (restart, stall), or an older snapshot is written over it (reprice).    *)
(* Of the others the one that carries a job is young, so the cron and the  *)
(* handlers have no such order in common.                                  *)
(***************************************************************************)

\* Only virtual orders are cancelled by checks and handlers, and only real ones
\* are bought.
VirtualInv ==
    /\ \A k \in Checks : checkPc[k] \in {"cancelVirtual", "cancelStop"} => checkTodo[k] \subseteq Virtual
    /\ \A h \in Handlers : openTodo[h] \subseteq Virtual
    /\ \A h \in Handlers : openPc[h] \in {"buy", "bought", "stamp", "adjust"} => job[h] \in Real

\* A check cancels the virtual orders it has read.
LEMMA CheckVirtual ==
    ASSUME Typed, VirtualInv, NEW k \in Checks, CheckStep(k)
    PROVE  VirtualInv'
<1> USE OpenOrderAssumption DEF Typed, TypeOK, VirtualInv, redis, checker, handler, bull,
        CheckGoto, CheckReturn
<1>1. ASSUME NEW s \in Symbols PROVE ActiveVirtual(s) \subseteq Virtual
  BY DEF ActiveVirtual
<1>2. SymbolOfCheck(k) \in Symbols
  BY DEF Checks, SymbolOfCheck
<1>3. CASE CheckRead(k)
  <2>1. UNCHANGED <<openTodo, openPc, job>> /\ checkPc'[k] \in {"mixed", "refresh"}
    BY <1>3 DEF CheckRead
  <2>2. \A j \in Checks \ {k} : checkPc'[j] = checkPc[j] /\ checkTodo'[j] = checkTodo[j]
    BY <1>3 DEF CheckRead
  <2> QED
    BY <2>1, <2>2
<1>4. CASE CheckMixed(k)
  BY <1>1, <1>2, <1>4 DEF CheckMixed
<1>5. CASE CheckCancelOnly(k)
  BY <1>1, <1>2, <1>5 DEF CheckCancelOnly
<1>6. CASE CheckReread(k)
  <2>1. UNCHANGED <<openTodo, openPc, job>> /\ checkPc'[k] \in {"idle", "refresh"}
    BY <1>6 DEF CheckReread
  <2>2. \A j \in Checks \ {k} : checkPc'[j] = checkPc[j] /\ checkTodo'[j] = checkTodo[j]
    BY <1>6 DEF CheckReread
  <2> QED
    BY <2>1, <2>2
<1>7. CASE CheckCancelDone(k) \/ CheckSkip(k) \/ SendOpenJob(k)
  BY <1>7 DEF CheckCancelDone, CheckSkip, SendOpenJob
<1>8. CASE CheckGoOpen(k) \/ CheckPause(k) \/ CheckPending(k) \/ StartPending(k)
  BY <1>8 DEF CheckGoOpen, CheckPause, CheckPending, StartPending
<1>9. ASSUME NEW o \in Ids, CheckCancelVirtual(k, o) PROVE VirtualInv'
  BY <1>9 DEF CheckCancelVirtual
<1>10. ASSUME NEW o \in Ids, CheckRefresh(k, o) PROVE VirtualInv'
  BY <1>10 DEF CheckRefresh
<1>11. ASSUME NEW o \in Ids, CreateOrder(k, o) PROVE VirtualInv'
  BY <1>11 DEF CreateOrder
<1> QED
  BY <1>3, <1>4, <1>5, <1>6, <1>7, <1>8, <1>9, <1>10, <1>11 DEF CheckStep

\* A handler buys what is not virtual (orders.service.ts:144) and then cancels
\* what is.
LEMMA OpenIsVirtual ==
    ASSUME Typed, VirtualInv, NEW h \in Handlers, OpenStep(h)
    PROVE  VirtualInv'
<1> USE OpenOrderAssumption DEF Typed, TypeOK, JobsNamed, VirtualInv, Real, redis, checker, handler,
        bull, OpenGoto, OpenReturn
<1>1. CASE OpenGiveUp(h) \/ OpenCheckPause(h) \/ OpenCancelOwn(h)
  BY <1>1 DEF OpenGiveUp, OpenCheckPause, OpenCancelOwn
<1>2. CASE OpenVirtual(h)
  BY <1>2 DEF OpenVirtual
<1>3. CASE OpenCheckPending(h)
  BY <1>3 DEF OpenCheckPending
<1>4. CASE OpenBuy(h)
  BY <1>4 DEF OpenBuy
<1>5. CASE OpenRecord(h)
  BY <1>5 DEF OpenRecord
<1>6. CASE OpenStamp(h)
  BY <1>6 DEF OpenStamp
<1>7. CASE OpenAdjust(h)
  BY <1>7 DEF OpenAdjust
<1>8. CASE OpenReadVirtual(h)
  BY <1>8 DEF OpenReadVirtual, ActiveVirtual
<1>9. CASE OpenThrow(h)
  BY <1>9 DEF OpenThrow
<1>10. CASE OpenRelease(h)
  BY <1>10 DEF OpenRelease
<1>11. ASSUME NEW o \in Ids, OpenTake(h, o) PROVE VirtualInv'
  BY <1>11 DEF OpenTake
<1>12. ASSUME NEW o \in Ids, OpenCancelVirtual(h, o) PROVE VirtualInv'
  BY <1>12 DEF OpenCancelVirtual
<1> QED
  BY <1>1, <1>2, <1>3, <1>4, <1>5, <1>6, <1>7, <1>8, <1>9, <1>10, <1>11, <1>12 DEF OpenStep

\* The cron, the clocks and the restarts read and buy nothing.
LEMMA NextVirtualInv == Typed /\ VirtualInv /\ [Next]_vars => VirtualInv'
<1> SUFFICES ASSUME Typed, VirtualInv, [Next]_vars PROVE VirtualInv'
  OBVIOUS
<1>1. CASE UNCHANGED vars
  BY <1>1 DEF VirtualInv, vars, checker, handler
<1>2. ASSUME NEW c \in Containers, Lose(c) PROVE VirtualInv'
  BY <1>2 DEF VirtualInv, Lose
<1>3. CASE CronStep \/ TimeStep
  BY <1>3 DEF VirtualInv, CronStep, CronRead, CronCancel, TimeStep, ExpirePause, Age, ExpireOpening,
     checker, handler
<1> QED
  BY <1>1, <1>2, <1>3, CheckVirtual, OpenIsVirtual DEF Next, Restart, Stall

----------------------------------------------------------------------------
NotBought(o) == status[o] = "WAIT_OPEN" /\ buys[o] = 0
Bought(o)    == status[o] = "WAIT_OPEN" /\ buys[o] > 0

\* The real orders no hazard has befallen.
Sound == Real \ troubled

\* What the status of such an order says about its purchase.
Stage(o) ==
    \/ status[o] \in {"NONE", "CANCELLED"} /\ buys[o] = 0
    \/ NotBought(o)
    \/ Bought(o) /\ \E h \in Handlers : job[h] = o /\ openPc[h] = "bought"
    \/ status[o] = "OPENED" /\ buys[o] > 0

Buying   == {"pause", "pending", "cancelOwn", "buy", "failed"}
Recorded == {"stamp", "adjust"}

\* What its place says about its status and its purchase.
UnderWay ==
    /\ \A o \in queue \intersect Sound : NotBought(o)
    /\ \A k \in Checks : new[k] \in Sound => NotBought(new[k])
    /\ \A h \in Handlers : job[h] \in Sound =>
           /\ openPc[h] \in Buying => NotBought(job[h])
           /\ openPc[h] = "bought" => Bought(job[h])
           /\ openPc[h] \in Recorded => status[job[h]] = "OPENED"

\* Old orders nothing has befallen are carried by nobody, and the cron cancels old
\* ones only.
Abandoned ==
    /\ \A o \in aged \ troubled : ~Live(o)
    /\ \A o \in aged : status[o] # "NONE"
    /\ cronTodo \subseteq aged
    /\ \A o \in cronTodo \intersect Sound : NotBought(o)

PositionInv == (\A o \in Sound : Stage(o)) /\ UnderWay /\ Abandoned

\* The whole inductive invariant of an opening.
OpeningInv == Typed /\ RefreshInv /\ OnceInv /\ VirtualInv /\ PositionInv

\* What most steps do: sound orders stay what they are unless the step befalls them,
\* and whoever has one keeps it at its stage or lets it go.
Steady ==
    /\ troubled \subseteq troubled'
    /\ \A o \in Real \ troubled' : status'[o] = status[o] /\ buys'[o] = buys[o]
    /\ \A o \in Ids : status[o] # "NONE" => status'[o] # "NONE"
    /\ UNCHANGED aged
    /\ cronTodo' \subseteq cronTodo
    /\ queue' \subseteq queue \union troubled'
    /\ \A k \in Checks : new'[k] \in {new[k], None}
    /\ \A h \in Handlers : job'[h] \in {job[h], None}
    /\ \A h \in Handlers : job[h] \in Real \ troubled' /\ openPc[h] = "bought" =>
           openPc'[h] = "bought" /\ job'[h] = job[h]
    /\ \A h \in Handlers : job'[h] \in Real \ troubled' =>
           /\ openPc'[h] \in Buying => openPc[h] \in Buying
           /\ openPc'[h] = "bought" => openPc[h] = "bought"
           /\ openPc'[h] \in Recorded => openPc[h] \in Recorded

\* The steps that take a sound order on.
Advances ==
    \/ \E k \in Checks, o \in Ids : CreateOrder(k, o)
    \/ \E k \in Checks : SendOpenJob(k)
    \/ \E h \in Handlers, o \in Ids : OpenTake(h, o)
    \/ \E h \in Handlers : (OpenBuy(h) \/ OpenRecord(h)) /\ job[h] \in Real \ troubled'
    \/ CronRead
    \/ \E o \in Sound : CronCancel(o)
    \/ \E o \in Ids : Age(o)

\* A check that creates and sends nothing cancels virtual orders, or writes what the
\* book has already, or befalls the order it writes.
LEMMA CheckSteady ==
    ASSUME OpeningInv, NEW k \in Checks, CheckStep(k)
    PROVE  Steady \/ Advances
<1> USE OpenOrderAssumption DEF OpeningInv, Typed, TypeOK, redis, checker, handler, bull, CheckGoto,
        CheckReturn
<1>1. CASE \/ CheckRead(k) \/ CheckMixed(k) \/ CheckCancelOnly(k) \/ CheckCancelDone(k)
           \/ CheckReread(k) \/ CheckGoOpen(k) \/ CheckSkip(k) \/ CheckPause(k) \/ CheckPending(k)
           \/ StartPending(k)
  <2>1. UNCHANGED <<status, buys, aged, cronTodo, queue, job, openPc, troubled>>
    BY <1>1 DEF CheckRead, CheckMixed, CheckCancelOnly, CheckCancelDone, CheckReread, CheckGoOpen,
       CheckSkip, CheckPause, CheckPending, StartPending
  <2>2. \A j \in Checks : new'[j] \in {new[j], None}
    BY <1>1 DEF CheckRead, CheckMixed, CheckCancelOnly, CheckCancelDone, CheckReread, CheckGoOpen,
       CheckSkip, CheckPause, CheckPending, StartPending
  <2> QED
    BY <2>1, <2>2 DEF Steady
<1>2. ASSUME NEW o \in Ids, CheckCancelVirtual(k, o) PROVE Steady
  <2>1. o \notin Real
    BY <1>2 DEF CheckCancelVirtual, VirtualInv, Real
  <2> QED
    BY <1>2, <2>1 DEF CheckCancelVirtual, Steady, Real
<1>3. ASSUME NEW o \in Ids, CheckRefresh(k, o) PROVE Steady
  <2>1. seen[k][o] # "NONE"
    BY <1>3 DEF CheckRefresh, RefreshInv, SeenOrders, Active
  <2>2. /\ status' = status \/ status' = [status EXCEPT ![o] = seen[k][o]]
        /\ status'[o] # status[o] => o \in troubled'
        /\ troubled \subseteq troubled'
        /\ UNCHANGED <<buys, aged, cronTodo, queue, new, job, openPc>>
    BY <1>3 DEF CheckRefresh, Befalls
  <2> QED
    BY <2>1, <2>2 DEF Steady, Real
<1>4. (\E o \in Ids : CreateOrder(k, o)) \/ SendOpenJob(k) => Advances
  BY DEF Advances
<1> QED
  BY <1>1, <1>2, <1>3, <1>4 DEF CheckStep

\* A handler that buys or records nothing sound leaves sound orders as they are.
LEMMA OpenSteady ==
    ASSUME OpeningInv, NEW h \in Handlers, OpenStep(h)
    PROVE  Steady \/ Advances
<1> USE OpenOrderAssumption DEF OpeningInv, Typed, TypeOK, redis, checker, handler, bull, OpenGoto,
        OpenReturn, Buying, Recorded
<1>1. CASE OpenGiveUp(h) \/ OpenCheckPause(h) \/ OpenStamp(h) \/ OpenReadVirtual(h) \/ OpenThrow(h)
  BY <1>1 DEF OpenGiveUp, OpenCheckPause, OpenStamp, OpenReadVirtual, OpenThrow, Steady
<1>2. CASE OpenRelease(h)
  BY <1>2 DEF OpenRelease, Steady
<1>3. CASE OpenCheckPending(h)
  BY <1>3 DEF OpenCheckPending, Steady
<1>4. CASE OpenCancelOwn(h)
  <2>1. job[h] \in aged => job[h] \in troubled
    BY <1>4 DEF OpenCancelOwn, JobsNamed, PositionInv, Abandoned, Live
  <2> QED
    BY <1>4, <2>1 DEF OpenCancelOwn, Steady
<1>5. CASE OpenVirtual(h)
  BY <1>5 DEF OpenVirtual, JobsNamed, Steady, Real
<1>6. CASE OpenAdjust(h)
  <2>1. job[h] \in Real /\ (job[h] \in Sound => status[job[h]] = "OPENED")
    BY <1>6 DEF OpenAdjust, VirtualInv, PositionInv, UnderWay
  <2> QED
    BY <1>6, <2>1 DEF OpenAdjust, Steady, Real, Sound
<1>7. ASSUME NEW o \in Ids, OpenCancelVirtual(h, o) PROVE Steady
  <2>1. o \notin Real
    BY <1>7 DEF OpenCancelVirtual, VirtualInv, Real
  <2> QED
    BY <1>7, <2>1 DEF OpenCancelVirtual, Steady, Real
<1>8. ASSUME OpenBuy(h) \/ OpenRecord(h), job[h] \in troubled' PROVE Steady
  <2>1. CASE OpenBuy(h)
    <3>1. /\ UNCHANGED <<status, aged, cronTodo, queue, new, job>>
          /\ troubled \subseteq troubled'
          /\ \A g \in Handlers : g # h => openPc'[g] = openPc[g]
          /\ \A x \in Ids : x # job[h] => buys'[x] = buys[x]
          /\ openPc[h] = "buy" /\ openPc'[h] \in {"bought", "failed"}
      BY <2>1 DEF OpenBuy, Befalls
    <3> QED
      BY <1>8, <3>1 DEF Steady, Real
  <2>2. CASE OpenRecord(h)
    <3>1. /\ UNCHANGED <<buys, aged, cronTodo, queue, new>>
          /\ troubled \subseteq troubled'
          /\ \A g \in Handlers : g # h => openPc'[g] = openPc[g] /\ job'[g] = job[g]
          /\ \A x \in Ids : x # job[h] => status'[x] = status[x]
          /\ status[job[h]] # "NONE" => status'[job[h]] # "NONE"
          /\ job'[h] \in {job[h], None}
          /\ job'[h] \in Ids => job'[h] = job[h]
      BY <2>2 DEF OpenRecord, Befalls
    <3> QED
      BY <1>8, <3>1 DEF Steady, Real
  <2> QED
    BY <1>8, <2>1, <2>2
<1>9. ASSUME OpenBuy(h) \/ OpenRecord(h), job[h] \notin troubled' PROVE Advances
  BY <1>9 DEF Advances, OpenBuy, OpenRecord, VirtualInv
<1>10. (\E o \in Ids : OpenTake(h, o)) => Advances
  BY DEF Advances
<1> QED
  BY <1>1, <1>2, <1>3, <1>4, <1>5, <1>6, <1>7, <1>8, <1>9, <1>10 DEF OpenStep

\* The clocks touch no order; a restart, or a process Bull takes a job back from,
\* befalls the orders whose handlers it loses.
LEMMA OtherSteady ==
    ASSUME OpeningInv, CronStep \/ TimeStep \/ (\E c \in Containers : Restart(c) \/ Stall(c))
    PROVE  Steady \/ Advances
<1> USE OpenOrderAssumption DEF OpeningInv, Typed, TypeOK, redis, checker, handler, bull
<1>1. ASSUME NEW o \in Ids, CronCancel(o), o \notin Sound PROVE Steady
  <2>1. o \notin Real \ troubled'
    BY <1>1 DEF CronCancel, Sound
  <2> QED
    BY <1>1, <2>1 DEF CronCancel, Steady
<1>2. CASE ExpirePause \/ \E s \in Symbols : ExpireOpening(s)
  BY <1>2 DEF ExpirePause, ExpireOpening, Steady
<1>3. ASSUME NEW c \in Containers, Restart(c) PROVE Steady
  <2>1. /\ UNCHANGED <<status, buys, aged>>
        /\ queue' = {} /\ cronTodo' \subseteq cronTodo
        /\ troubled \subseteq troubled'
        /\ \A h \in Handlers : h[1] = c /\ openPc[h] = "bought" => job[h] \in troubled'
    BY <1>3 DEF Restart, Befalls
  <2>2. \A h \in Handlers : IF h[1] = c THEN openPc'[h] = "idle" /\ job'[h] = None
                                        ELSE openPc'[h] = openPc[h] /\ job'[h] = job[h]
    BY <1>3 DEF Restart, Lose
  <2>3. \A k \in Checks : new'[k] \in {new[k], None}
    BY <1>3 DEF Restart, Lose
  <2> QED
    BY <2>1, <2>2, <2>3 DEF Steady, Buying, Recorded
<1>4. ASSUME NEW c \in Containers, Stall(c) PROVE Steady
  <2> DEFINE jobs == {job[h] : h \in {g \in Handlers : g[1] = c}} \ {None}
  <2>1. /\ UNCHANGED <<status, buys, aged>>
        /\ queue' \subseteq queue \union jobs /\ cronTodo' \subseteq cronTodo
        /\ troubled' = troubled \union jobs
    BY <1>4 DEF Stall, Befalls
  <2>2. \A h \in Handlers : h[1] = c /\ job[h] # None => job[h] \in jobs
    OBVIOUS
  <2>3. \A h \in Handlers : IF h[1] = c THEN openPc'[h] = "idle" /\ job'[h] = None
                                        ELSE openPc'[h] = openPc[h] /\ job'[h] = job[h]
    BY <1>4 DEF Stall, Lose
  <2>4. \A k \in Checks : new'[k] \in {new[k], None}
    BY <1>4 DEF Stall, Lose
  <2> HIDE DEF jobs
  <2>5. \A h \in Handlers : job[h] \in Real \ troubled' => h[1] # c
    BY <2>1, <2>2 DEF Real
  <2> QED
    BY <2>1, <2>3, <2>4, <2>5 DEF Steady, Buying, Recorded, Real
<1>5. CronRead \/ (\E o \in Sound : CronCancel(o)) \/ (\E o \in Ids : Age(o)) => Advances
  BY DEF Advances
<1> QED
  BY <1>1, <1>2, <1>3, <1>4, <1>5 DEF CronStep, TimeStep

\* Every step is one or the other.
LEMMA SteadyOrAdvances ==
    ASSUME OpeningInv, [Next]_vars
    PROVE  Steady \/ Advances
<1>1. UNCHANGED vars => Steady
  BY DEF vars, redis, checker, handler, bull, Steady, OpeningInv, Typed, TypeOK
<1> QED
  BY <1>1, CheckSteady, OpenSteady, OtherSteady DEF Next

\* A steady step keeps what places, statuses and purchases say of each other.
LEMMA SteadyPosition ==
    ASSUME Typed, Typed', PositionInv, Steady
    PROVE  PositionInv'
<1> USE OpenOrderAssumption DEF Steady, Typed, TypeOK, PositionInv, NotBought, Bought, Real, Sound
<1>1. ASSUME NEW o \in Sound' PROVE Stage(o)'
  <2>1. \A h \in Handlers : job[h] = o /\ openPc[h] = "bought" =>
            job'[h] = o /\ openPc'[h] = "bought"
    BY <1>1
  <2>2. Stage(o) /\ status'[o] = status[o] /\ buys'[o] = buys[o]
    BY <1>1
  <2> QED
    BY <2>1, <2>2 DEF Stage
<1>2. UnderWay'
  <2>1. \A o \in (queue \intersect Sound)' : NotBought(o)'
    BY DEF UnderWay
  <2>2. \A k \in Checks : new'[k] \in Sound' => NotBought(new[k])' /\ new'[k] = new[k]
    BY DEF UnderWay
  <2>3. ASSUME NEW h \in Handlers, job'[h] \in Sound'
        PROVE  /\ openPc'[h] \in Buying => NotBought(job[h])'
               /\ openPc'[h] = "bought" => Bought(job[h])'
               /\ openPc'[h] \in Recorded => status'[job'[h]] = "OPENED"
    <3>1. job'[h] = job[h] /\ job[h] \in Sound
      BY <2>3
    <3>2. status'[job[h]] = status[job[h]] /\ buys'[job[h]] = buys[job[h]]
      BY <2>3, <3>1
    <3> QED
      BY <2>3, <3>1, <3>2 DEF UnderWay
  <2> QED
    BY <2>1, <2>2, <2>3 DEF UnderWay
<1>3. Abandoned'
  BY DEF Abandoned, Live
<1> QED
  BY <1>1, <1>2, <1>3

\* A check moves a new order from "not there" to itself and then to the queue.
LEMMA CreatePosition ==
    ASSUME Typed, Typed', OnceInv, PositionInv, NEW k \in Checks,
           (\E o \in Ids : CreateOrder(k, o)) \/ SendOpenJob(k)
    PROVE  PositionInv'
<1> USE OpenOrderAssumption DEF Typed, TypeOK, redis, checker, handler, bull, CheckGoto, CheckReturn
<1>1. ASSUME NEW o \in Ids, CreateOrder(k, o) PROVE PositionInv'
  <2>1. /\ status[o] = "NONE" /\ ~Live(o) /\ buys[o] = 0 /\ o \notin aged
        /\ status' = [status EXCEPT ![o] = "WAIT_OPEN"]
        /\ new' = [new EXCEPT ![k] = o]
        /\ UNCHANGED <<aged, cronTodo, queue, job, openPc, buys, troubled>>
    BY <1>1 DEF CreateOrder, MayCreate, OnceInv, OnePlace, NotYetBought, PositionInv, Abandoned
  <2>2. \A x \in Sound' : Stage(x)'
    BY <2>1 DEF PositionInv, Stage, NotBought, Bought, Real, Sound
  <2>3. UnderWay'
    BY <2>1 DEF PositionInv, UnderWay, NotBought, Bought, Real, Sound, Live
  <2>4. Abandoned'
    BY <2>1 DEF PositionInv, Abandoned, NotBought, Real, Sound, Live
  <2> QED
    BY <2>2, <2>3, <2>4 DEF PositionInv
<1>2. CASE SendOpenJob(k)
  <2>1. /\ new[k] \in Ids
        /\ queue' = queue \union {new[k]}
        /\ new' = [new EXCEPT ![k] = None]
        /\ UNCHANGED <<status, aged, cronTodo, job, openPc, buys, troubled>>
    BY <1>2 DEF SendOpenJob, JobsNamed
  <2>2. \A x \in Sound' : Stage(x)'
    BY <2>1 DEF PositionInv, Stage, NotBought, Bought, Sound
  <2>3. UnderWay'
    BY <2>1 DEF PositionInv, UnderWay, NotBought, Bought, Real, Sound
  <2>4. \A o \in Ids : Live(o)' => Live(o)
    BY <2>1 DEF Live
  <2>5. Abandoned'
    BY <2>1, <2>4 DEF PositionInv, Abandoned, NotBought, Real, Sound
  <2> QED
    BY <2>2, <2>3, <2>5 DEF PositionInv
<1> QED
  BY <1>1, <1>2

\* A handler takes a job from the queue as it is.
LEMMA TakePosition ==
    ASSUME Typed, Typed', PositionInv, NEW h \in Handlers, NEW o \in Ids, OpenTake(h, o)
    PROVE  PositionInv'
<1> USE OpenOrderAssumption DEF Typed, TypeOK
<1>1. /\ o \in queue /\ openPc[h] = "idle"
      /\ queue' = queue \ {o}
      /\ job' = [job EXCEPT ![h] = o]
      /\ openPc' = [openPc EXCEPT ![h] = "pause"]
      /\ UNCHANGED <<status, aged, cronTodo, new, buys, troubled>>
  BY DEF OpenTake, OpenGoto, redis, checker
<1>2. \A x \in Sound' : Stage(x)'
  BY <1>1 DEF PositionInv, Stage, NotBought, Bought, Sound
<1>3. UnderWay'
  BY <1>1 DEF PositionInv, UnderWay, NotBought, Bought, Real, Sound, Buying, Recorded
<1>4. \A x \in Ids : Live(x)' => Live(x)
  BY <1>1 DEF Live
<1>5. Abandoned'
  BY <1>1, <1>4 DEF PositionInv, Abandoned, NotBought, Real, Sound
<1> QED
  BY <1>2, <1>3, <1>5 DEF PositionInv

\* A handler takes a sound order through the purchase to OPENED, and nobody else has
\* the order meanwhile.
LEMMA BuyPosition ==
    ASSUME Typed, Typed', OnceInv, VirtualInv, PositionInv, NEW h \in Handlers,
           OpenBuy(h) \/ OpenRecord(h), job[h] \in Real \ troubled'
    PROVE  PositionInv'
<1> USE OpenOrderAssumption DEF Typed, TypeOK, redis, checker, handler, bull, OpenGoto, OpenReturn,
        Buying, Recorded
<1> DEFINE o == job[h]
<1>1. o \in Sound /\ troubled' = troubled
  BY DEF OpenBuy, OpenRecord, Befalls, Sound
<1>2. /\ o \in Real /\ o # None
      /\ o \notin queue /\ o \notin aged /\ o \notin cronTodo
      /\ \A k \in Checks : new[k] # o
      /\ \A g \in Handlers : g # h => job[g] # o
  BY <1>1 DEF Real, Sound, OnceInv, OnePlace, PositionInv, Abandoned, Live
<1>3. CASE OpenBuy(h)
  <2>1. NotBought(o)
    BY <1>1, <1>3 DEF OpenBuy, PositionInv, UnderWay
  <2>2. /\ UNCHANGED <<status, aged, cronTodo, queue, new, job>>
        /\ \A g \in Handlers : g # h => openPc'[g] = openPc[g]
        /\ \A x \in Ids : x # o => buys'[x] = buys[x]
        /\ openPc[h] = "buy"
        /\ \/ openPc'[h] = "bought" /\ buys'[o] = 1
           \/ openPc'[h] = "failed" /\ buys'[o] = 0
    BY <1>1, <1>2, <1>3, <2>1 DEF OpenBuy, NotBought, Real, Befalls
  <2>3. \A x \in Sound' : Stage(x)'
    BY <1>1, <1>2, <2>1, <2>2 DEF PositionInv, Stage, NotBought, Bought, Real, Sound
  <2>4. UnderWay'
    BY <1>1, <1>2, <2>1, <2>2 DEF PositionInv, UnderWay, NotBought, Bought, Real, Sound
  <2>5. Abandoned'
    BY <1>1, <1>2, <2>2 DEF PositionInv, Abandoned, NotBought, Real, Sound, Live
  <2> QED
    BY <2>3, <2>4, <2>5 DEF PositionInv
<1>4. CASE OpenRecord(h)
  <2>1. Bought(o)
    BY <1>1, <1>4 DEF OpenRecord, PositionInv, UnderWay
  <2>2. /\ UNCHANGED <<buys, aged, cronTodo, queue, new, job>>
        /\ status' = [status EXCEPT ![o] = "OPENED"]
        /\ openPc' = [openPc EXCEPT ![h] = "stamp"]
    BY <1>1, <1>4 DEF OpenRecord, Befalls
  <2>3. \A x \in Sound' : Stage(x)'
    BY <1>1, <1>2, <2>1, <2>2 DEF PositionInv, Stage, NotBought, Bought, Real, Sound
  <2>4. UnderWay'
    BY <1>1, <1>2, <2>1, <2>2 DEF PositionInv, UnderWay, NotBought, Bought, Real, Sound
  <2>5. Abandoned'
    BY <1>1, <1>2, <2>2 DEF PositionInv, Abandoned, NotBought, Real, Sound, Live
  <2> QED
    BY <2>3, <2>4, <2>5 DEF PositionInv
<1> QED
  BY <1>3, <1>4

\* The cron cancels sound orders that nobody carries any more; an order that grows
\* old while it is carried is befallen.
LEMMA CronPosition ==
    ASSUME Typed, Typed', PositionInv,
           CronRead \/ (\E o \in Sound : CronCancel(o)) \/ (\E o \in Ids : Age(o))
    PROVE  PositionInv'
<1> USE OpenOrderAssumption DEF Typed, TypeOK, redis, checker, handler, bull, Sound
<1>1. CASE CronRead
  <2>1. /\ UNCHANGED <<status, aged, queue, new, job, openPc, buys, troubled>>
        /\ cronTodo' = {o \in aged : status[o] = "WAIT_OPEN"}
    BY <1>1 DEF CronRead
  <2>2. \A o \in aged \intersect Sound : status[o] = "WAIT_OPEN" => NotBought(o)
    BY DEF PositionInv, Stage, NotBought, Bought, Abandoned, Live, Real
  <2>3. Abandoned'
    BY <2>1, <2>2 DEF PositionInv, Abandoned, NotBought, Live
  <2> QED
    BY <2>1, <2>3 DEF PositionInv, Stage, UnderWay, NotBought, Bought
<1>2. ASSUME NEW o \in Sound, CronCancel(o) PROVE PositionInv'
  <2>1. /\ o \in cronTodo /\ ~Live(o) /\ o \in Ids
        /\ status' = [status EXCEPT ![o] = "CANCELLED"]
        /\ cronTodo' = cronTodo \ {o}
        /\ UNCHANGED <<aged, queue, new, job, openPc, buys, troubled>>
    BY <1>2 DEF CronCancel, PositionInv, Abandoned, Real
  <2>2. \A x \in Sound' : Stage(x)'
    BY <2>1 DEF PositionInv, Abandoned, Stage, NotBought, Bought, Real
  <2>3. UnderWay'
    BY <2>1 DEF PositionInv, UnderWay, NotBought, Bought, Real, Live
  <2>4. Abandoned'
    BY <2>1 DEF PositionInv, Abandoned, NotBought, Real, Live
  <2> QED
    BY <2>2, <2>3, <2>4 DEF PositionInv
<1>3. ASSUME NEW o \in Ids, Age(o) PROVE PositionInv'
  <2>1. /\ status[o] = "WAIT_OPEN" /\ o \notin aged
        /\ aged' = aged \union {o}
        /\ troubled \subseteq troubled' /\ (Live(o) => o \in troubled')
        /\ UNCHANGED <<status, cronTodo, queue, new, job, openPc, buys>>
    BY <1>3 DEF Age, Befalls
  <2>2. \A x \in Sound' : Stage(x)'
    BY <2>1 DEF PositionInv, Stage, NotBought, Bought
  <2>3. UnderWay'
    BY <2>1 DEF PositionInv, UnderWay, NotBought, Bought
  <2>4. Abandoned'
    BY <2>1 DEF PositionInv, Abandoned, NotBought, Live
  <2> QED
    BY <2>2, <2>3, <2>4 DEF PositionInv
<1> QED
  BY <1>1, <1>2, <1>3

\* The invariant of an opening holds initially and every step keeps it.
LEMMA OpeningInvariant == Spec => []OpeningInv
<1>1. Init => OpeningInv
  <2>1. Init => VirtualInv
    BY OpenOrderAssumption DEF Init, VirtualInv
  <2>2. Init => PositionInv
    BY OpenOrderAssumption DEF Init, PositionInv, Stage, UnderWay, Abandoned, Real, Sound, Buying, Recorded
  <2> QED
    BY <2>1, <2>2, InitTyped, InitOnce DEF OpeningInv
<1>2. OpeningInv /\ [Next]_vars => OpeningInv'
  <2> SUFFICES ASSUME OpeningInv, [Next]_vars PROVE OpeningInv'
    OBVIOUS
  <2>1. Typed' /\ RefreshInv' /\ OnceInv' /\ VirtualInv'
    BY NextTyped, NextRefreshInv, NextOnce, NextVirtualInv DEF OpeningInv
  <2>2. CASE Steady
    BY <2>1, <2>2, SteadyPosition DEF OpeningInv
  <2>3. CASE Advances
    BY <2>1, <2>3, CreatePosition, TakePosition, BuyPosition, CronPosition DEF OpeningInv, Advances
  <2> QED
    BY <2>2, <2>3, SteadyOrAdvances
<1> QED
  BY <1>1, <1>2, PTL DEF Spec

\* openBuyOrder(): what the exchange has executed is OPENED in the book as soon as its
\* handler has written it, and stays so whatever befalls other orders, for any number
\* of containers, handlers and orders - the cron that cancels from a snapshot included.
THEOREM PositionsAreRecorded == Spec => []PositionRecorded
<1>1. OpeningInv => PositionRecorded
  BY OpenOrderAssumption DEF OpeningInv, PositionInv, Stage, NotBought, PositionRecorded, Typed, TypeOK,
     Real, Sound
<1> QED
  BY <1>1, OpeningInvariant, PTL

----------------------------------------------------------------------------
(***************************************************************************)
(* LifeRefined: a step changes the life of at most one sound order, and    *)
(* that one goes one step of OrderLife on; or it befalls some orders.      *)
(***************************************************************************)

\* The orders nothing befalls keep their status and their purchases.
Quiet ==
    /\ troubled \subseteq troubled'
    /\ \A o \in Real \ troubled' : status'[o] = status[o] /\ buys'[o] = buys[o]

\* Then their lives go on as they are, and those of the others get into trouble.
LEMMA QuietIsTrouble ==
    ASSUME Quiet
    PROVE  Abstract!Next
<1> DEFINE befallen == Real \intersect troubled'
<1>1. Life' = [o \in Real |-> IF o \in befallen THEN "troubled" ELSE Life[o]]
  <2>1. ASSUME NEW o \in Real
        PROVE  Life'[o] = IF o \in befallen THEN "troubled" ELSE Life[o]
    <3>1. CASE o \in troubled'
      BY <3>1 DEF Life
    <3>2. CASE o \notin troubled'
      BY <3>2 DEF Life, Quiet
    <3> QED
      BY <3>1, <3>2
  <2> HIDE DEF befallen
  <2>2. Life' = [o \in Real |-> Life'[o]]
    BY DEF Life
  <2> QED
    BY <2>1, <2>2
<1>2. befallen \in SUBSET Real
  OBVIOUS
<1> HIDE DEF befallen
<1> QED
  BY <1>1, <1>2 DEF Abstract!Next, Abstract!Trouble

\* A step that touches one order and befalls none moves its life alone.
LEMMA LifeMoves ==
    ASSUME NEW o \in Real, UNCHANGED troubled,
           \A x \in Real \ {o} : status'[x] = status[x] /\ buys'[x] = buys[x]
    PROVE  Life' = [Life EXCEPT ![o] = Life'[o]]
BY DEF Life

\* Creation, purchase, record and the cron's cancellation are the steps of OrderLife
\* of these names; what else takes an order on leaves its status and purchases alone.
LEMMA AdvancesMove ==
    ASSUME OpeningInv, Advances
    PROVE  Abstract!Next
<1> USE DEF OpeningInv, Typed, TypeOK, redis, checker, handler, bull, Real, Sound
<1>1. ASSUME NEW k \in Checks, NEW o \in Ids, CreateOrder(k, o)
      PROVE  Abstract!Next
  <2>1. /\ status[o] = "NONE" /\ status' = [status EXCEPT ![o] = "WAIT_OPEN"]
        /\ buys[o] = 0 /\ buys' = buys /\ troubled' = troubled
    BY <1>1 DEF CreateOrder, MayCreate, OnceInv, NotYetBought
  <2>2. CASE o \in Sound
    <3>1. Life[o] = "none" /\ Life'[o] = "waiting"
      BY <2>1, <2>2 DEF Life
    <3> QED
      BY <2>1, <2>2, <3>1, LifeMoves DEF Abstract!Next, Abstract!Create, Abstract!Move
  <2>3. CASE o \notin Sound
    BY <2>1, <2>3, QuietIsTrouble DEF Quiet
  <2> QED
    BY <2>2, <2>3
<1>2. ASSUME NEW h \in Handlers, OpenBuy(h), job[h] \in Real \ troubled' PROVE Abstract!Next
  <2> DEFINE o == job[h]
  <2>1. o \in Sound /\ NotBought(o) /\ UNCHANGED <<status, troubled>>
    BY <1>2 DEF OpenBuy, Befalls, PositionInv, UnderWay, Buying
  <2>2. CASE buys' = [buys EXCEPT ![o] = @ + 1]
    <3>1. Life[o] = "waiting" /\ Life'[o] = "bought"
      BY <2>1, <2>2 DEF Life, NotBought
    <3> QED
      BY <2>1, <2>2, <3>1, LifeMoves DEF Abstract!Next, Abstract!Buy, Abstract!Move
  <2>3. CASE buys' = buys
    BY <2>1, <2>3, QuietIsTrouble DEF Quiet
  <2> QED
    BY <1>2, <2>2, <2>3 DEF OpenBuy
<1>3. ASSUME NEW h \in Handlers, OpenRecord(h), job[h] \in Real \ troubled' PROVE Abstract!Next
  <2> DEFINE o == job[h]
  <2>1. /\ o \in Sound /\ Bought(o) /\ UNCHANGED <<buys, troubled>>
        /\ status' = [status EXCEPT ![o] = "OPENED"]
    BY <1>3 DEF OpenRecord, Befalls, PositionInv, UnderWay
  <2>2. Life[o] = "bought" /\ Life'[o] = "opened"
    BY <2>1 DEF Life, Bought
  <2> QED
    BY <2>1, <2>2, LifeMoves DEF Abstract!Next, Abstract!Open, Abstract!Move
<1>4. ASSUME NEW o \in Sound, CronCancel(o) PROVE Abstract!Next
  <2>1. /\ NotBought(o)
        /\ UNCHANGED <<buys, troubled>>
        /\ status' = [status EXCEPT ![o] = "CANCELLED"]
    BY <1>4 DEF CronCancel, PositionInv, Abandoned
  <2>2. Life[o] = "waiting" /\ Life'[o] = "cancelled"
    BY <2>1, <1>4 DEF Life, NotBought
  <2> QED
    BY <2>1, <2>2, LifeMoves DEF Abstract!Next, Abstract!Cancel, Abstract!Move
<1>5. CASE \/ \E k \in Checks : SendOpenJob(k)
           \/ \E h \in Handlers, o \in Ids : OpenTake(h, o)
           \/ CronRead
           \/ \E o \in Ids : Age(o)
  <2>1. Quiet
    BY <1>5 DEF SendOpenJob, OpenTake, CronRead, Age, Befalls, Quiet
  <2> QED
    BY <2>1, QuietIsTrouble
<1> QED
  BY <1>1, <1>2, <1>3, <1>4, <1>5 DEF Advances

\* The opening of orders implements OrderLife: every real order is created waiting
\* and is then either cancelled unbought, or bought and then opened, and what is
\* cancelled or opened stays so until one of the hazards strikes that very order, for
\* any number of containers, handlers and orders.
THEOREM OpeningRefinesLife == Spec => LifeRefined
<1>1. Init => Abstract!Init
  BY DEF Init, Abstract!Init, Life, Real
<1>2. OpeningInv /\ [Next]_vars => [Abstract!Next]_Life
  <2>1. Steady => Quiet
    BY DEF Steady, Quiet
  <2> QED
    BY <2>1, SteadyOrAdvances, QuietIsTrouble, AdvancesMove
<1> QED
  BY <1>1, <1>2, OpeningInvariant, PTL DEF Spec, LifeRefined, Abstract!Spec

=============================================================================
