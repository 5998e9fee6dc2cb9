-------------------------- MODULE CloseOrderProofs --------------------------
(***************************************************************************)
(* What closing guarantees for any number of orders and handlers, whatever *)
(* fails and whoever else writes orders meanwhile: an order is shown as    *)
(* CLOSED only when its coins were sold, it comes back only by those who   *)
(* write it from an older reading, and its coins are sold once as long as  *)
(* one handler has it in hand and the sale is recorded.  The last part is  *)
(* about the rules of a signal check, which send these jobs: for any       *)
(* number of orders, any prices and any parameters.                        *)
(***************************************************************************)
EXTENDS CloseOrder, SignalRules, Sums

Shape ==
    /\ book = [o \in Ids |-> book[o]]
    /\ stale = [o \in Ids |-> stale[o]]
    /\ snap = [c \in Closers |-> snap[c]]
    /\ sold \in [Ids -> Nat]
    /\ openPc \in [Ids -> OpenPcs]
    /\ pc \in [Closers -> Pcs]
    /\ todo \in [Closers -> SUBSET Ids]
    /\ cur \in [Closers -> Ids \union {None}]

\* What somebody has read and may write back, or act upon, was active.
ReadActive ==
    /\ \A o \in Ids : stale[o].status \in {"NONE", "WAIT_OPEN", "OPENED"}
    /\ \A c \in Closers, o \in Ids : snap[c][o].status \in {"NONE", "WAIT_OPEN", "OPENED"}

\* Whoever is about to write CLOSED has sold the order, or has found it waiting, or the
\* order is virtual.
SoldBeforeWrite ==
    \A c \in Closers :
      /\ pc[c] \in {"balance", "sell"} => SeenAs(c, "WAIT_OPEN") \subseteq waited
      /\ pc[c] \in {"mark", "price"} =>
            /\ todo[c] \subseteq Seen(c)
            /\ \A o \in Seen(c) \ waited : sold[o] > 0
      /\ pc[c] \in {"real", "sellOne"} => cur[c] \in Ids
      /\ pc[c] \in {"closeOne", "priceOne"} => cur[c] \in Ids /\ sold[cur[c]] > 0
      /\ pc[c] = "virtual" => todo[c] \subseteq Virtual

SaleInv == Shape /\ ReadActive /\ SoldBeforeWrite /\ ClosedWasSold

\* closeAllOrders() is not used.
NamedOnly ==
    /\ waited = {}
    /\ \A c \in Closers :
          pc[c] \notin {"cancel", "balance", "sell", "mark", "price", "cancelLast"}

----------------------------------------------------------------------------
(* One step keeps what is known about sales *)

\* Leaving a job forgets everything that constrains it.
LEMMA ReturnSale ==
    ASSUME SaleInv, NEW c \in Closers, Return(c),
           book' = book, sold' = sold, openPc' = openPc, stale' = stale /\ waited' = waited
    PROVE  SaleInv'
  <1>. USE DEF SaleInv, Return, Goto
  <1>1. Shape'
    BY DEF Shape, Pcs
  <1>2. ReadActive'
    BY DEF ReadActive, Shape, Absent
  <1>3. SoldBeforeWrite'
    BY DEF SoldBeforeWrite, Shape, Seen, SeenAs
  <1>4. ClosedWasSold'
    BY DEF ClosedWasSold
  <1>. QED
    BY <1>1, <1>2, <1>3, <1>4

\* A write that is not CLOSED changes nothing about sales, wherever the closers go.
LEMMA BookSale ==
    ASSUME SaleInv, NEW o \in Ids, NEW order, order.status # "CLOSED",
           book' = [book EXCEPT ![o] = order], sold' = sold, waited' = waited
    PROVE  book' = [p \in Ids |-> book'[p]] /\ ClosedWasSold'
  BY DEF SaleInv, Shape, ClosedWasSold, Real

\* A job begins: it has read active orders, and nothing is to be written as CLOSED.
LEMMA SnapshotSale ==
    ASSUME SaleInv, NEW c \in Closers, NEW ids, ids \subseteq Ids,
           \A o \in ids : Active(book[o]),
           snap' = [snap EXCEPT ![c] = Snapshot(ids)],
           stale' = stale
    PROVE  /\ snap' = [d \in Closers |-> snap'[d]]
           /\ ReadActive'
           /\ \A d \in Closers \ {c} : /\ Seen(d)' = Seen(d)
                                       /\ SeenAs(d, "WAIT_OPEN")' = SeenAs(d, "WAIT_OPEN")
  <1>1. snap' = [d \in Closers |-> snap'[d]]
    BY DEF SaleInv, Shape
  <1>2. \A o \in Ids : Snapshot(ids)[o].status \in {"NONE", "WAIT_OPEN", "OPENED"}
    BY DEF Snapshot, Absent, Active
  <1>3. ReadActive'
    BY <1>2 DEF SaleInv, Shape, ReadActive
  <1>4. \A d \in Closers \ {c} : /\ Seen(d)' = Seen(d)
                                 /\ SeenAs(d, "WAIT_OPEN")' = SeenAs(d, "WAIT_OPEN")
    BY DEF SaleInv, Shape, Seen, SeenAs
  <1>. QED
    BY <1>1, <1>3, <1>4

LEMMA AllSale ==
    ASSUME SaleInv, NEW c \in Closers, AllStep(c) PROVE SaleInv'
  <1>1. CASE AllRead(c)
    <2>1. PICK orders : /\ orders \subseteq Ids
                        /\ \A o \in orders : Active(book[o])
                        /\ orders = ActiveAmong(Real)
                        /\ snap' = [snap EXCEPT ![c] = Snapshot(orders)]
      BY <1>1 DEF AllRead, ActiveAmong, Real
    <2>2. /\ book' = book /\ sold' = sold /\ openPc' = openPc /\ stale' = stale /\ waited' = waited
          /\ cur' = cur
          /\ \/ pc' = [pc EXCEPT ![c] = "cancel"]
             \/ /\ pc' = [pc EXCEPT ![c] = "balance"]
                /\ \A o \in orders : book[o].status # "WAIT_OPEN"
      BY <1>1, <2>1 DEF AllRead, Goto, exchange, opener, history
    <2>3. todo' \in [Closers -> SUBSET Ids] /\ \A d \in Closers \ {c} : todo'[d] = todo[d]
      BY <1>1 DEF AllRead, ActiveAmong, Real, SaleInv, Shape
    <2>4. /\ snap' = [d \in Closers |-> snap'[d]]
          /\ ReadActive'
          /\ \A d \in Closers \ {c} : /\ Seen(d)' = Seen(d)
                                      /\ SeenAs(d, "WAIT_OPEN")' = SeenAs(d, "WAIT_OPEN")
      BY <2>1, <2>2, SnapshotSale
    <2>5. Shape'
      BY <2>2, <2>3, <2>4 DEF SaleInv, Shape, Pcs
    <2>6. pc'[c] = "balance" => SeenAs(c, "WAIT_OPEN")' = {}
      BY <2>1, <2>2 DEF SaleInv, Shape, SeenAs, Snapshot, Absent
    <2>7. /\ pc'[c] \in {"cancel", "balance"} /\ \A d \in Closers \ {c} : pc'[d] = pc[d]
          /\ UNCHANGED <<sold, cur, waited>>
      BY <2>2 DEF SaleInv, Shape
    <2>8. SoldBeforeWrite'
      BY <2>3, <2>4, <2>6, <2>7 DEF SaleInv, SoldBeforeWrite
    <2>. QED
      BY <2>2, <2>4, <2>5, <2>8 DEF SaleInv, ClosedWasSold
  <1>2. CASE AllReread(c)
    <2>1. CASE ActiveAmong(Real) = {}
      BY <1>2, <2>1, ReturnSale DEF AllReread, exchange, opener, history
    <2>2. CASE ActiveAmong(Real) # {}
      <3>1. /\ book' = book /\ sold' = sold /\ openPc' = openPc /\ stale' = stale
            /\ waited' = waited \union {o \in ActiveAmong(Real) : book[o].status = "WAIT_OPEN"}
            /\ cur' = cur /\ todo' = todo
            /\ pc' = [pc EXCEPT ![c] = "balance"]
            /\ snap' = [snap EXCEPT ![c] = Snapshot(ActiveAmong(Real))]
        BY <1>2, <2>2 DEF AllReread, Goto, exchange, opener, history
      <3>2. ActiveAmong(Real) \subseteq Ids /\ \A o \in ActiveAmong(Real) : Active(book[o])
        BY DEF ActiveAmong, Real
      <3>3. /\ snap' = [d \in Closers |-> snap'[d]]
            /\ ReadActive'
            /\ \A d \in Closers \ {c} : /\ Seen(d)' = Seen(d)
                                        /\ SeenAs(d, "WAIT_OPEN")' = SeenAs(d, "WAIT_OPEN")
        BY <3>1, <3>2, SnapshotSale
      <3>4. Shape'
        BY <3>1, <3>3 DEF SaleInv, Shape, Pcs
      <3>5. SeenAs(c, "WAIT_OPEN")' \subseteq waited'
        BY <3>1, <3>2 DEF SaleInv, Shape, SeenAs, Snapshot, Absent
      <3>6. SoldBeforeWrite'
        BY <3>1, <3>3, <3>5 DEF SaleInv, Shape, SoldBeforeWrite
      <3>. QED
        BY <3>1, <3>3, <3>4, <3>6 DEF SaleInv, ClosedWasSold
    <2>. QED
      BY <2>1, <2>2
  <1>3. CASE AllBalance(c)
    <2>1. CASE Return(c)
      BY <1>3, <2>1, ReturnSale DEF AllBalance, exchange, opener, history
    <2>2. CASE ~Return(c)
      <3>1. /\ book' = book /\ sold' = sold /\ openPc' = openPc /\ stale' = stale /\ waited' = waited
            /\ cur' = cur /\ todo' = todo /\ snap' = snap
            /\ pc[c] = "balance" /\ pc' = [pc EXCEPT ![c] = "sell"]
        BY <1>3, <2>2 DEF AllBalance, Goto, exchange, opener, history
      <3>. QED
        BY <3>1 DEF SaleInv, Shape, Pcs, ReadActive, SoldBeforeWrite, Seen, SeenAs, ClosedWasSold
    <2>. QED
      BY <2>1, <2>2
  <1>4. CASE AllSell(c)
    \* What is seen and was not found waiting is OPENED, so it is sold.
    <2>1. /\ pc[c] = "sell" /\ book' = book /\ openPc' = openPc /\ stale' = stale /\ waited' = waited
          /\ sold' = [o \in Ids |-> IF o \in SeenAs(c, "OPENED") THEN sold[o] + 1 ELSE sold[o]]
      BY <1>4 DEF AllSell, opener, history
    <2>2. /\ sold' \in [Ids -> Nat]
          /\ \A o \in Ids : sold[o] > 0 => sold'[o] > 0
          /\ \A o \in Seen(c) \ waited : sold'[o] > 0
      BY <2>1 DEF SaleInv, Shape, ReadActive, SoldBeforeWrite, Seen, SeenAs
    <2>3. ClosedWasSold'
      BY <2>1, <2>2 DEF SaleInv, ClosedWasSold, Real
    <2>4. CASE Goto(c, "mark") /\ todo' = [todo EXCEPT ![c] = Seen(c)]
                               /\ UNCHANGED <<snap, cur, bal>>
      <3>1. Shape'
        BY <2>1, <2>2, <2>4 DEF SaleInv, Shape, Pcs, Goto, Seen
      <3>2. SoldBeforeWrite'
        BY <2>1, <2>2, <2>4 DEF SaleInv, Shape, SoldBeforeWrite, Goto, Seen, SeenAs
      <3>. QED
        BY <2>1, <2>3, <2>4, <3>1, <3>2 DEF SaleInv, ReadActive
    <2>5. CASE Return(c)
      <3>1. Shape'
        BY <2>1, <2>2, <2>5 DEF SaleInv, Shape, Pcs, Return, Goto
      <3>2. ReadActive'
        BY <2>1, <2>5 DEF SaleInv, Shape, ReadActive, Return, Absent
      <3>3. SoldBeforeWrite'
        BY <2>1, <2>2, <2>5 DEF SaleInv, Shape, SoldBeforeWrite, Return, Goto, Seen, SeenAs
      <3>. QED
        BY <2>3, <3>1, <3>2, <3>3 DEF SaleInv
    <2>. QED
      BY <1>4, <2>4, <2>5 DEF AllSell
  <1>5. CASE AllNext(c)
    <2>1. /\ pc[c] = "mark" /\ pc' = [pc EXCEPT ![c] = "price"]
          /\ todo' = [todo EXCEPT ![c] = Seen(c)]
          /\ UNCHANGED <<book, sold, openPc, stale, snap, cur, waited>>
      BY <1>5 DEF AllNext, Goto, exchange, opener, history
    <2>. QED
      BY <2>1 DEF SaleInv, Shape, Pcs, ReadActive, SoldBeforeWrite, Seen, SeenAs, ClosedWasSold
  <1>6. CASE AllReadWaiting(c)
    <2>1. PICK orders : /\ orders \subseteq Ids
                        /\ \A o \in orders : Active(book[o])
                        /\ snap' = [snap EXCEPT ![c] = Snapshot(orders)]
                        /\ todo' = [todo EXCEPT ![c] = orders]
      BY <1>6 DEF AllReadWaiting, Active, Real
    <2>2. /\ book' = book /\ sold' = sold /\ openPc' = openPc /\ stale' = stale /\ waited' = waited
          /\ cur' = cur /\ pc' = [pc EXCEPT ![c] = "cancelLast"]
      BY <1>6 DEF AllReadWaiting, Goto, exchange, opener, history
    <2>3. /\ snap' = [d \in Closers |-> snap'[d]]
          /\ ReadActive'
          /\ \A d \in Closers \ {c} : /\ Seen(d)' = Seen(d)
                                      /\ SeenAs(d, "WAIT_OPEN")' = SeenAs(d, "WAIT_OPEN")
      BY <2>1, <2>2, SnapshotSale
    <2>4. Shape'
      BY <2>1, <2>2, <2>3 DEF SaleInv, Shape, Pcs
    <2>5. SoldBeforeWrite'
      BY <2>1, <2>2, <2>3 DEF SaleInv, Shape, SoldBeforeWrite
    <2>. QED
      BY <2>2, <2>3, <2>4, <2>5 DEF SaleInv, ClosedWasSold
  <1>7. ASSUME NEW o \in Ids, CancelWaiting(c, o) PROVE SaleInv'
    <2>1. CASE Return(c) /\ UNCHANGED book
      BY <1>7, <2>1, ReturnSale DEF CancelWaiting, exchange, opener, history
    <2>2. CASE SetOrder(o, "CANCELLED", snap[c][o].volume) /\ Done(c, o)
               /\ UNCHANGED <<pc, snap, cur, bal>>
      <3>1. sold' = sold /\ openPc' = openPc /\ stale' = stale /\ waited' = waited
        BY <1>7 DEF CancelWaiting, exchange, opener, history
      <3>2. book' = [p \in Ids |-> book'[p]] /\ ClosedWasSold'
        BY <2>2, <3>1, BookSale DEF SetOrder
      <3>3. pc[c] \in {"cancel", "cancelLast"}
        BY <1>7 DEF CancelWaiting
      <3>. QED
        BY <2>2, <3>1, <3>2, <3>3
        DEF SaleInv, Shape, Done, ReadActive, SoldBeforeWrite, Seen, SeenAs
    <2>. QED
      BY <1>7, <2>1, <2>2 DEF CancelWaiting
  <1>8. ASSUME NEW o \in Ids, AllWrite(c, o) PROVE SaleInv'
    <2>1. /\ pc[c] \in {"mark", "price"} /\ o \in todo[c]
          /\ sold' = sold /\ openPc' = openPc /\ stale' = stale /\ waited' = waited
          /\ pc' = pc /\ snap' = snap /\ cur' = cur
          /\ todo' = [todo EXCEPT ![c] = @ \ {o}]
      BY <1>8 DEF AllWrite, Done, exchange, opener, history
    <2>2. o \notin waited => sold[o] > 0
      BY <2>1 DEF SaleInv, SoldBeforeWrite
    <2>3. \/ book' = book
          \/ book' = [book EXCEPT ![o] = [status |-> "CLOSED", volume |-> AllVolume(c, o)]]
      BY <1>8 DEF AllWrite, SetOrder
    <2>4. book' = [p \in Ids |-> book'[p]] /\ ClosedWasSold'
      BY <2>1, <2>2, <2>3 DEF SaleInv, Shape, ClosedWasSold, Real
    <2>. QED
      BY <2>1, <2>4 DEF SaleInv, Shape, ReadActive, SoldBeforeWrite, Seen, SeenAs
  <1>. QED
    BY <1>1, <1>2, <1>3, <1>4, <1>5, <1>6, <1>7, <1>8 DEF AllStep

LEMMA SomeSale ==
    ASSUME SaleInv, NEW c \in Closers, SomeStep(c) PROVE SaleInv'
  <1>1. CASE SomeRead(c)
    <2>1. PICK orders : /\ orders \subseteq Ids
                        /\ \A o \in orders : Active(book[o])
                        /\ snap' = [snap EXCEPT ![c] = Snapshot(orders)]
                        /\ todo' = [todo EXCEPT ![c] = orders]
      BY <1>1 DEF SomeRead, ActiveAmong, Real
    <2>2. /\ book' = book /\ sold' = sold /\ openPc' = openPc /\ stale' = stale /\ waited' = waited
          /\ cur' = cur /\ pc' = [pc EXCEPT ![c] = "balanceSome"]
      BY <1>1 DEF SomeRead, Goto, exchange, opener, history
    <2>3. /\ snap' = [d \in Closers |-> snap'[d]]
          /\ ReadActive'
          /\ \A d \in Closers \ {c} : /\ Seen(d)' = Seen(d)
                                      /\ SeenAs(d, "WAIT_OPEN")' = SeenAs(d, "WAIT_OPEN")
      BY <2>1, <2>2, SnapshotSale
    <2>4. Shape'
      BY <2>1, <2>2, <2>3 DEF SaleInv, Shape, Pcs
    <2>5. SoldBeforeWrite'
      BY <2>1, <2>2, <2>3 DEF SaleInv, Shape, SoldBeforeWrite
    <2>. QED
      BY <2>2, <2>3, <2>4, <2>5 DEF SaleInv, ClosedWasSold
  <1>2. CASE SomeBalance(c) \/ SomeCheck(c) \/ SomeRefused(c)
    <2>1. CASE Return(c)
      BY <1>2, <2>1, ReturnSale DEF SomeBalance, SomeCheck, SomeRefused, exchange, opener, history
    <2>2. CASE ~Return(c)
      <3>1. /\ UNCHANGED <<book, sold, openPc, stale, snap, todo, cur, waited>>
            /\ \/ pc' = [pc EXCEPT ![c] = "some"]
               \/ pc[c] = "real" /\ pc' = [pc EXCEPT ![c] = "sellOne"]
        BY <1>2, <2>2 DEF SomeBalance, SomeCheck, SomeRefused, Goto, exchange, opener, history
      <3>. QED
        BY <3>1 DEF SaleInv, Shape, Pcs, ReadActive, SoldBeforeWrite, Seen, SeenAs, ClosedWasSold
    <2>. QED
      BY <2>1, <2>2
  <1>3. CASE SomeSell(c)
    <2>1. /\ pc[c] = "sellOne" /\ UNCHANGED <<book, openPc, stale, snap, todo, cur, waited>>
          /\ sold' = [sold EXCEPT ![cur[c]] = @ + 1]
          /\ \/ pc' = [pc EXCEPT ![c] = "closeOne"]
             \/ pc' = [pc EXCEPT ![c] = "some"]
      BY <1>3 DEF SomeSell, Goto, opener, history
    <2>2. cur[c] \in Ids
      BY <2>1 DEF SaleInv, SoldBeforeWrite
    <2>3. /\ sold' \in [Ids -> Nat] /\ sold'[cur[c]] > 0
          /\ \A o \in Ids : sold[o] > 0 => sold'[o] > 0
      BY <2>1, <2>2 DEF SaleInv, Shape
    <2>4. Shape'
      BY <2>1, <2>3 DEF SaleInv, Shape, Pcs
    <2>5. SoldBeforeWrite'
      BY <2>1, <2>2, <2>3 DEF SaleInv, Shape, SoldBeforeWrite, Seen, SeenAs
    <2>6. ReadActive' /\ ClosedWasSold'
      BY <2>1, <2>3 DEF SaleInv, ReadActive, ClosedWasSold, Real
    <2>. QED
      BY <2>4, <2>5, <2>6 DEF SaleInv
  <1>4. CASE SomeWrite(c)
    <2>1. /\ pc[c] \in {"closeOne", "priceOne"}
          /\ UNCHANGED <<sold, openPc, stale, snap, todo, cur, waited>>
          /\ \/ pc' = [pc EXCEPT ![c] = "priceOne"] /\ pc[c] = "closeOne"
             \/ pc' = [pc EXCEPT ![c] = "some"]
      BY <1>4 DEF SomeWrite, Goto, exchange, opener, history
    <2>2. cur[c] \in Ids /\ sold[cur[c]] > 0
      BY <2>1 DEF SaleInv, SoldBeforeWrite
    <2>3. \/ book' = book
          \/ book' = [book EXCEPT ![cur[c]] = [status |-> "CLOSED", volume |-> snap[c][cur[c]].volume]]
      BY <1>4 DEF SomeWrite, SetOrder
    <2>4. book' = [p \in Ids |-> book'[p]] /\ ClosedWasSold'
      BY <2>1, <2>2, <2>3 DEF SaleInv, Shape, ClosedWasSold, Real
    <2>5. Shape'
      BY <2>1, <2>4 DEF SaleInv, Shape, Pcs
    <2>6. SoldBeforeWrite'
      BY <2>1, <2>2 DEF SaleInv, Shape, SoldBeforeWrite, Seen, SeenAs
    <2>. QED
      BY <2>1, <2>4, <2>5, <2>6 DEF SaleInv, ReadActive
  <1>5. ASSUME NEW o \in Ids, SomeCancel(c, o) PROVE SaleInv'
    <2>1. CASE Return(c) /\ UNCHANGED book
      BY <1>5, <2>1, ReturnSale DEF SomeCancel, exchange, opener, history
    <2>2. CASE SetOrder(o, "CANCELLED", snap[c][o].volume) /\ Done(c, o)
               /\ UNCHANGED <<pc, snap, cur, bal>>
      <3>1. pc[c] = "some" /\ sold' = sold /\ openPc' = openPc /\ stale' = stale /\ waited' = waited
        BY <1>5 DEF SomeCancel, exchange, opener, history
      <3>2. book' = [p \in Ids |-> book'[p]] /\ ClosedWasSold'
        BY <2>2, <3>1, BookSale DEF SetOrder
      <3>. QED
        BY <2>2, <3>1, <3>2 DEF SaleInv, Shape, Done, ReadActive, SoldBeforeWrite, Seen, SeenAs
    <2>. QED
      BY <1>5, <2>1, <2>2 DEF SomeCancel
  <1>6. ASSUME NEW o \in Ids, SomeTake(c, o) PROVE SaleInv'
    <2>1. CASE Return(c) /\ UNCHANGED book
      BY <1>6, <2>1, ReturnSale DEF SomeTake, exchange, opener, history
    <2>2. CASE ~(Return(c) /\ UNCHANGED book)
      <3>1. /\ pc[c] = "some" /\ UNCHANGED <<sold, openPc, stale, snap, waited>>
            /\ cur' = [cur EXCEPT ![c] = o]
            /\ todo' = [todo EXCEPT ![c] = @ \ {o}]
            /\ pc' = [pc EXCEPT ![c] = "real"]
        BY <1>6, <2>2 DEF SomeTake, Goto, Done, exchange, opener, history
      <3>2. \/ book' = book
            \/ /\ o \in Virtual
               /\ book' = [book EXCEPT ![o] = [status |-> "CLOSED", volume |-> snap[c][o].volume]]
        BY <1>6, <2>2 DEF SomeTake, SetOrder
      <3>3. book' = [p \in Ids |-> book'[p]] /\ ClosedWasSold'
        BY <3>1, <3>2 DEF SaleInv, Shape, ClosedWasSold, Real
      <3>4. Shape'
        BY <3>1, <3>3 DEF SaleInv, Shape, Pcs
      <3>5. SoldBeforeWrite'
        BY <3>1 DEF SaleInv, Shape, SoldBeforeWrite, Seen, SeenAs
      <3>. QED
        BY <3>1, <3>3, <3>4, <3>5 DEF SaleInv, ReadActive
    <2>. QED
      BY <2>1, <2>2
  <1>. QED
    BY <1>1, <1>2, <1>3, <1>4, <1>5, <1>6 DEF SomeStep

LEMMA VirtualSale ==
    ASSUME SaleInv, NEW c \in Closers, VirtualStep(c) PROVE SaleInv'
  <1>1. CASE VirtualRead(c)
    <2>1. PICK orders : /\ orders \subseteq Virtual
                        /\ \A o \in orders : Active(book[o])
                        /\ snap' = [snap EXCEPT ![c] = Snapshot(orders)]
                        /\ todo' = [todo EXCEPT ![c] = orders]
      BY <1>1 DEF VirtualRead, ActiveAmong
    <2>2. /\ book' = book /\ sold' = sold /\ openPc' = openPc /\ stale' = stale /\ waited' = waited
          /\ cur' = cur /\ pc' = [pc EXCEPT ![c] = "virtual"]
      BY <1>1 DEF VirtualRead, Goto, exchange, opener, history
    <2>3. orders \subseteq Ids
      BY <2>1, CloseOrderAssumption
    <2>4. /\ snap' = [d \in Closers |-> snap'[d]]
          /\ ReadActive'
          /\ \A d \in Closers \ {c} : /\ Seen(d)' = Seen(d)
                                      /\ SeenAs(d, "WAIT_OPEN")' = SeenAs(d, "WAIT_OPEN")
      BY <2>1, <2>2, <2>3, SnapshotSale
    <2>5. Shape'
      BY <2>1, <2>2, <2>3, <2>4 DEF SaleInv, Shape, Pcs
    <2>6. SoldBeforeWrite'
      BY <2>1, <2>2, <2>4 DEF SaleInv, Shape, SoldBeforeWrite
    <2>. QED
      BY <2>2, <2>4, <2>5, <2>6 DEF SaleInv, ClosedWasSold
  <1>2. ASSUME NEW o \in Ids, VirtualWrite(c, o) PROVE SaleInv'
    <2>1. CASE Return(c) /\ UNCHANGED book
      BY <1>2, <2>1, ReturnSale DEF VirtualWrite, exchange, opener, history
    <2>2. CASE ~(Return(c) /\ UNCHANGED book)
      <3>1. /\ pc[c] = "virtual" /\ o \in todo[c]
            /\ UNCHANGED <<sold, openPc, stale, pc, snap, cur, waited>>
            /\ todo' = [todo EXCEPT ![c] = @ \ {o}]
        BY <1>2, <2>2 DEF VirtualWrite, Done, exchange, opener, history
      <3>2. o \in Virtual
        BY <3>1 DEF SaleInv, SoldBeforeWrite
      <3>3. PICK order : book' = [book EXCEPT ![o] = order]
        BY <1>2, <2>2 DEF VirtualWrite, SetOrder
      <3>4. book' = [p \in Ids |-> book'[p]] /\ ClosedWasSold'
        BY <3>1, <3>2, <3>3 DEF SaleInv, Shape, ClosedWasSold, Real
      <3>. QED
        BY <3>1, <3>4 DEF SaleInv, Shape, ReadActive, SoldBeforeWrite, Seen, SeenAs
    <2>. QED
      BY <2>1, <2>2
  <1>. QED
    BY <1>1, <1>2 DEF VirtualStep

\* The rest of the trader never writes CLOSED.
LEMMA OthersSale ==
    ASSUME SaleInv,
           (\E o \in Ids : OpenerStep(o) \/ RefreshWrite(o)) \/ RefreshRead \/ Withdraw
    PROVE  SaleInv'
  <1>1. ASSUME NEW o \in Ids, OpenerStep(o) PROVE SaleInv'
    <2>1. /\ UNCHANGED <<sold, stale, pc, snap, todo, cur, waited>>
          /\ \E where \in OpenPcs : openPc' = [openPc EXCEPT ![o] = where]
      BY <1>1 DEF OpenerStep, Create, OpenStart, OpenBuy, OpenRecord, OpenAdjust,
                  OpenPcs, exchange, closer, history
    <2>2. \/ book' = book
          \/ \E status \in {"WAIT_OPEN", "OPENED"} : \E volume :
               book' = [book EXCEPT ![o] = [status |-> status, volume |-> volume]]
      BY <1>1 DEF OpenerStep, Create, OpenStart, OpenBuy, OpenRecord, OpenAdjust, SetOrder
    <2>3. book' = [p \in Ids |-> book'[p]] /\ ClosedWasSold'
      BY <2>1, <2>2 DEF SaleInv, Shape, ClosedWasSold, Real
    <2>. QED
      BY <2>1, <2>3 DEF SaleInv, Shape, ReadActive, SoldBeforeWrite, Seen, SeenAs
  <1>2. ASSUME NEW o \in Ids, RefreshWrite(o) PROVE SaleInv'
    <2>1. /\ UNCHANGED <<sold, openPc, pc, snap, todo, cur, waited>>
          /\ book' = [book EXCEPT ![o] = stale[o]]
          /\ stale' = [stale EXCEPT ![o] = Absent]
      BY <1>2 DEF RefreshWrite, exchange, opener, history, closer
    <2>2. stale[o].status # "CLOSED"
      BY DEF SaleInv, ReadActive
    <2>3. book' = [p \in Ids |-> book'[p]] /\ ClosedWasSold'
      BY <2>1, <2>2, BookSale
    <2>4. Shape'
      BY <2>1, <2>3 DEF SaleInv, Shape
    <2>5. ReadActive'
      BY <2>1 DEF SaleInv, Shape, ReadActive, Absent
    <2>. QED
      BY <2>1, <2>3, <2>4, <2>5 DEF SaleInv, SoldBeforeWrite, Seen, SeenAs
  <1>3. CASE RefreshRead
    <2>1. /\ UNCHANGED <<book, sold, openPc, pc, snap, todo, cur, waited>>
          /\ stale' = Snapshot(ActiveAmong(Ids))
      BY <1>3 DEF RefreshRead, exchange, opener, history, closer
    <2>2. /\ stale' = [o \in Ids |-> stale'[o]]
          /\ \A o \in Ids : stale'[o].status \in {"NONE", "WAIT_OPEN", "OPENED"}
      BY <2>1 DEF Snapshot, ActiveAmong, Active, Absent
    <2>. QED
      BY <2>1, <2>2 DEF SaleInv, Shape, ReadActive, SoldBeforeWrite, Seen, SeenAs, ClosedWasSold
  <1>4. CASE Withdraw
    BY <1>4 DEF Withdraw, opener, history, closer, SaleInv, Shape, ReadActive, SoldBeforeWrite,
                Seen, SeenAs, ClosedWasSold
  <1>. QED
    BY <1>1, <1>2, <1>3, <1>4

LEMMA SaleInit == Init => SaleInv
  <1>. SUFFICES ASSUME Init PROVE SaleInv
    OBVIOUS
  <1>1. Shape
    BY DEF Init, Shape, OpenPcs, Pcs
  <1>2. ReadActive
    BY DEF Init, ReadActive, Absent
  <1>3. SoldBeforeWrite
    BY DEF Init, SoldBeforeWrite
  <1>4. ClosedWasSold
    BY DEF Init, ClosedWasSold, Absent, Real
  <1>. QED
    BY <1>1, <1>2, <1>3, <1>4 DEF SaleInv

LEMMA SaleStep == SaleInv /\ [Next]_vars => SaleInv'
  <1>. SUFFICES ASSUME SaleInv, [Next]_vars PROVE SaleInv'
    OBVIOUS
  <1>1. ASSUME NEW c \in Closers, Refused(c) \/ Finish(c) \/ Restart(c) PROVE SaleInv'
    BY <1>1, ReturnSale DEF Refused, Finish, Restart, exchange, opener, history
  <1>2. ASSUME NEW c \in Closers, CloserStep(c) PROVE SaleInv'
    BY <1>1, <1>2, AllSale, SomeSale, VirtualSale DEF CloserStep
  <1>3. CASE UNCHANGED vars
    BY <1>3 DEF vars, exchange, opener, history, closer, SaleInv, Shape, ReadActive,
                SoldBeforeWrite, Seen, SeenAs, ClosedWasSold
  <1>. QED
    BY <1>2, <1>3, OthersSale DEF Next

\* An order the book shows as CLOSED was sold, unless CLOSE_ALL has found it waiting in
\* its second snapshot: for any number of orders and handlers, whatever fails, is lost
\* or restarted, and whoever else writes orders meanwhile.
THEOREM ClosedWasAlwaysSold == Spec => []ClosedWasSold
  <1>1. SaleInv => ClosedWasSold
    BY DEF SaleInv
  <1>. QED
    BY <1>1, SaleInit, SaleStep, PTL DEF Spec

----------------------------------------------------------------------------
(* Orders closed by name *)

\* closeOrder(): without CLOSE_ALL jobs there is no exception, every order the book
\* shows as CLOSED was sold.
THEOREM NamedClosedWasSold ==
    ASSUME "all" \notin Kinds
    PROVE  Spec => [](ClosedWasSold /\ waited = {})
  <1>1. Init => SaleInv /\ NamedOnly
    BY SaleInit DEF Init, NamedOnly
  <1>2. SaleInv /\ NamedOnly /\ [Next]_vars => (SaleInv /\ NamedOnly)'
    <2>. SUFFICES ASSUME SaleInv, NamedOnly, [Next]_vars PROVE SaleInv' /\ NamedOnly'
      OBVIOUS
    <2>1. SaleInv'
      BY SaleStep
    <2>2. ASSUME NEW c \in Closers, CloserStep(c) PROVE NamedOnly'
      <3>1. ~AllStep(c)
        BY DEF AllStep, AllRead, AllReread, AllBalance, AllSell, AllNext, AllReadWaiting,
               CancelWaiting, AllWrite, NamedOnly
      <3>2. CASE SomeStep(c)
        <4>1. waited' = waited
          BY <3>2 DEF SomeStep, SomeRead, SomeBalance, SomeCheck, SomeSell, SomeRefused,
                      SomeWrite, SomeCancel, SomeTake, history
        <4>. QED
          BY <3>2, <4>1 DEF SomeStep, SomeRead, SomeBalance, SomeCheck, SomeSell, SomeRefused,
                    SomeWrite, SomeCancel, SomeTake, Return, Goto, NamedOnly, SaleInv, Shape
      <3>3. CASE VirtualStep(c)
        BY <3>3 DEF VirtualStep, VirtualRead, VirtualWrite, Return, Goto, NamedOnly,
                    SaleInv, Shape, history
      <3>4. CASE Refused(c) \/ Finish(c) \/ Restart(c)
        BY <3>4 DEF Refused, Finish, Restart, Return, Goto, NamedOnly, SaleInv, Shape, history
      <3>. QED
        BY <2>2, <3>1, <3>2, <3>3, <3>4 DEF CloserStep
    <2>3. ASSUME ~\E c \in Closers : CloserStep(c) PROVE NamedOnly'
      <3>1. pc' = pc /\ waited' = waited
        BY <2>3 DEF Next, OpenerStep, Create, OpenStart, OpenBuy, OpenRecord, OpenAdjust,
                    RefreshWrite, RefreshRead, Withdraw, closer, history, vars
      <3>. QED
        BY <3>1 DEF NamedOnly
    <2>. QED
      BY <2>1, <2>2, <2>3
  <1>3. SaleInv /\ NamedOnly => ClosedWasSold /\ waited = {}
    BY DEF SaleInv, NamedOnly
  <1>. QED
    BY <1>1, <1>2, <1>3, PTL DEF Spec

----------------------------------------------------------------------------
(* Closed for good *)

\* The order a loop is at was read as OPENED, and is done with.
HandInv ==
    \A c \in Closers :
      /\ todo[c] \subseteq Seen(c)
      /\ pc[c] \in {"real", "sellOne", "closeOne", "priceOne"} =>
            cur[c] \in SeenAs(c, "OPENED") \ todo[c]

\* What is not yet opened is nowhere OPENED, and is not sold; what does not yet exist is
\* nowhere.
FreshInv ==
    \A o \in Ids :
      /\ openPc[o] = "none" =>
            /\ book[o].status = "NONE" /\ stale[o].status = "NONE"
            /\ \A c \in Closers : snap[c][o].status = "NONE"
      /\ openPc[o] \in {"none", "waiting", "buying", "bought"} =>
            /\ sold[o] = 0
            /\ book[o].status # "OPENED" /\ stale[o].status # "OPENED"
            /\ \A c \in Closers : snap[c][o].status # "OPENED"

TradeInv == SaleInv /\ HandInv /\ FreshInv

\* What a closer's step may do: it ends orders it has read, and sells those it has read
\* as OPENED; what it reads is in the book.
Effect(c) ==
    /\ UNCHANGED <<stale, openPc>>
    /\ \A o \in Ids :
         /\ \/ book'[o].status = book[o].status
            \/ book'[o].status \in {"CLOSED", "CANCELLED"} /\ o \in Seen(c)
         /\ snap'[c][o].status \in {"NONE", book[o].status, snap[c][o].status}
         /\ \A d \in Closers \ {c} : snap'[d] = snap[d]
         /\ sold'[o] = sold[o] \/ o \in SeenAs(c, "OPENED")

LEMMA ReturnEffect ==
    ASSUME TradeInv, NEW c \in Closers, Return(c), UNCHANGED <<book, sold, openPc, stale>>
    PROVE  Effect(c) /\ HandInv'
  <1>1. Effect(c)
    BY DEF TradeInv, SaleInv, Shape, Return, Effect, Absent
  <1>2. HandInv'
    BY DEF TradeInv, SaleInv, Shape, HandInv, Return, Goto, Seen, SeenAs
  <1>. QED
    BY <1>1, <1>2

\* A snapshot holds what is in the book.
LEMMA SnapshotEffect ==
    ASSUME TradeInv, NEW c \in Closers, NEW ids, ids \subseteq Ids,
           \A o \in ids : Active(book[o]),
           snap' = [snap EXCEPT ![c] = Snapshot(ids)]
    PROVE  /\ Seen(c)' = ids
           /\ \A o \in Ids : snap'[c][o].status \in {"NONE", book[o].status}
           /\ \A d \in Closers \ {c} :
                /\ snap'[d] = snap[d]
                /\ Seen(d)' = Seen(d)
                /\ SeenAs(d, "OPENED")' = SeenAs(d, "OPENED")
  <1>1. snap'[c] = Snapshot(ids) /\ \A d \in Closers \ {c} : snap'[d] = snap[d]
    BY DEF TradeInv, SaleInv, Shape
  <1>2. \A o \in Ids : /\ o \in ids => Snapshot(ids)[o] = book[o]
                       /\ o \notin ids => Snapshot(ids)[o].status = "NONE"
    BY DEF Snapshot, Absent
  <1>. QED
    BY <1>1, <1>2 DEF Seen, SeenAs, Active

\* A closer that leaves its snapshot alone only has to say what it writes and sells.
LEMMA LocalEffect ==
    ASSUME TradeInv, NEW c \in Closers, UNCHANGED <<openPc, stale, snap>>,
           \A o \in Ids : \/ book'[o].status = book[o].status
                          \/ book'[o].status \in {"CLOSED", "CANCELLED"} /\ o \in Seen(c),
           \A o \in Ids : sold'[o] = sold[o] \/ o \in SeenAs(c, "OPENED")
    PROVE  Effect(c)
  BY DEF Effect

\* One write of an order the closer has read.
LEMMA WriteEffect ==
    ASSUME TradeInv, NEW c \in Closers, NEW o \in Seen(c),
           NEW status \in {"CLOSED", "CANCELLED"}, NEW volume,
           SetOrder(o, status, volume)
    PROVE  \A p \in Ids : \/ book'[p].status = book[p].status
                          \/ book'[p].status \in {"CLOSED", "CANCELLED"} /\ p \in Seen(c)
  BY DEF TradeInv, SaleInv, Shape, SetOrder, Seen

LEMMA AllEffect ==
    ASSUME TradeInv, NEW c \in Closers, AllStep(c) PROVE Effect(c) /\ HandInv'
  <1>0. /\ pc \in [Closers -> Pcs] /\ todo \in [Closers -> SUBSET Ids]
        /\ HandInv
    BY DEF TradeInv, SaleInv, Shape
  <1>1. CASE AllRead(c)
    <2>1. PICK orders : /\ orders \subseteq Ids
                        /\ \A o \in orders : Active(book[o])
                        /\ snap' = [snap EXCEPT ![c] = Snapshot(orders)]
                        /\ todo' = [todo EXCEPT ![c] =
                                      {o \in orders : book[o].status = "WAIT_OPEN"}]
      BY <1>1 DEF AllRead, ActiveAmong, Real
    <2>2. /\ UNCHANGED <<book, sold, openPc, stale, cur>>
          /\ pc'[c] \in {"cancel", "balance"} /\ \A d \in Closers \ {c} : pc'[d] = pc[d]
      BY <1>0, <1>1 DEF AllRead, Goto, exchange, opener
    <2>3. /\ Seen(c)' = orders
          /\ \A o \in Ids : snap'[c][o].status \in {"NONE", book[o].status}
          /\ \A d \in Closers \ {c} :
                /\ snap'[d] = snap[d]
                /\ Seen(d)' = Seen(d)
                /\ SeenAs(d, "OPENED")' = SeenAs(d, "OPENED")
      BY <2>1, SnapshotEffect
    <2>4. /\ todo'[c] \subseteq orders
          /\ \A d \in Closers \ {c} : todo'[d] = todo[d]
      BY <1>0, <2>1
    <2>. QED
      BY <1>0, <2>2, <2>3, <2>4 DEF Effect, HandInv
  <1>2. CASE AllReread(c)
    <2>1. CASE ActiveAmong(Real) = {}
      BY <1>2, <2>1, ReturnEffect DEF AllReread, exchange, opener
    <2>2. CASE ActiveAmong(Real) # {}
      <3>1. /\ UNCHANGED <<book, sold, openPc, stale, cur, todo>>
            /\ todo[c] = {}
            /\ pc'[c] = "balance" /\ \A d \in Closers \ {c} : pc'[d] = pc[d]
            /\ snap' = [snap EXCEPT ![c] = Snapshot(ActiveAmong(Real))]
        BY <1>0, <1>2, <2>2 DEF AllReread, Goto, exchange, opener
      <3>2. ActiveAmong(Real) \subseteq Ids /\ \A o \in ActiveAmong(Real) : Active(book[o])
        BY DEF ActiveAmong, Real
      <3>3. /\ \A o \in Ids : snap'[c][o].status \in {"NONE", book[o].status}
            /\ \A d \in Closers \ {c} :
                /\ snap'[d] = snap[d]
                /\ Seen(d)' = Seen(d)
                /\ SeenAs(d, "OPENED")' = SeenAs(d, "OPENED")
        BY <3>1, <3>2, SnapshotEffect
      <3>. QED
        BY <1>0, <3>1, <3>3 DEF Effect, HandInv
    <2>. QED
      BY <2>1, <2>2
  <1>3. CASE AllBalance(c)
    <2>1. CASE Return(c)
      BY <1>3, <2>1, ReturnEffect DEF AllBalance, exchange, opener
    <2>2. CASE ~Return(c)
      <3>1. /\ UNCHANGED <<book, sold, openPc, stale, cur, todo, snap>>
            /\ pc'[c] = "sell" /\ \A d \in Closers \ {c} : pc'[d] = pc[d]
        BY <1>0, <1>3, <2>2 DEF AllBalance, Goto, exchange, opener
      <3>. QED
        BY <1>0, <3>1, LocalEffect DEF HandInv, Seen, SeenAs
    <2>. QED
      BY <2>1, <2>2
  <1>4. CASE AllSell(c)
    <2>1. /\ UNCHANGED <<book, openPc, stale>>
          /\ \A o \in Ids : sold'[o] = sold[o] \/ o \in SeenAs(c, "OPENED")
      BY <1>4 DEF AllSell, opener
    <2>2. CASE Return(c)
      <3>1. Effect(c)
        BY <2>1, <2>2 DEF TradeInv, SaleInv, Shape, Return, Effect, Absent
      <3>2. HandInv'
        BY <2>1, <2>2 DEF TradeInv, SaleInv, Shape, HandInv, Return, Goto, Seen, SeenAs
      <3>. QED
        BY <3>1, <3>2
    <2>3. CASE ~Return(c)
      <3>1. /\ UNCHANGED <<snap, cur>>
            /\ todo' = [todo EXCEPT ![c] = Seen(c)]
            /\ pc'[c] = "mark" /\ \A d \in Closers \ {c} : pc'[d] = pc[d]
        BY <1>0, <1>4, <2>3 DEF AllSell, Goto
      <3>2. Effect(c)
        BY <2>1, <3>1, LocalEffect
      <3>. QED
        BY <1>0, <3>1, <3>2 DEF HandInv, Seen, SeenAs
    <2>. QED
      BY <2>2, <2>3
  <1>5. CASE AllNext(c)
    <2>1. /\ UNCHANGED <<book, sold, openPc, stale, cur, snap>>
          /\ todo' = [todo EXCEPT ![c] = Seen(c)]
          /\ pc'[c] = "price" /\ \A d \in Closers \ {c} : pc'[d] = pc[d]
      BY <1>0, <1>5 DEF AllNext, Goto, exchange, opener
    <2>2. Effect(c)
      BY <2>1, LocalEffect
    <2>. QED
      BY <1>0, <2>1, <2>2 DEF HandInv, Seen, SeenAs
  <1>6. CASE AllReadWaiting(c)
    <2>1. PICK orders : /\ orders \subseteq Ids
                        /\ \A o \in orders : Active(book[o])
                        /\ snap' = [snap EXCEPT ![c] = Snapshot(orders)]
                        /\ todo' = [todo EXCEPT ![c] = orders]
      BY <1>6 DEF AllReadWaiting, Active, Real
    <2>2. /\ UNCHANGED <<book, sold, openPc, stale, cur>>
          /\ pc'[c] = "cancelLast" /\ \A d \in Closers \ {c} : pc'[d] = pc[d]
      BY <1>0, <1>6 DEF AllReadWaiting, Goto, exchange, opener
    <2>3. /\ Seen(c)' = orders
          /\ \A o \in Ids : snap'[c][o].status \in {"NONE", book[o].status}
          /\ \A d \in Closers \ {c} :
                /\ snap'[d] = snap[d]
                /\ Seen(d)' = Seen(d)
                /\ SeenAs(d, "OPENED")' = SeenAs(d, "OPENED")
      BY <2>1, SnapshotEffect
    <2>4. todo'[c] = orders /\ \A d \in Closers \ {c} : todo'[d] = todo[d]
      BY <1>0, <2>1
    <2>. QED
      BY <1>0, <2>2, <2>3, <2>4 DEF Effect, HandInv
  <1>7. ASSUME NEW o \in Ids, CancelWaiting(c, o) PROVE Effect(c) /\ HandInv'
    <2>1. CASE Return(c) /\ UNCHANGED book
      BY <1>7, <2>1, ReturnEffect DEF CancelWaiting, exchange, opener
    <2>2. CASE SetOrder(o, "CANCELLED", snap[c][o].volume) /\ Done(c, o)
               /\ UNCHANGED <<pc, snap, cur, bal>>
      <3>1. UNCHANGED <<sold, openPc, stale>> /\ o \in Seen(c)
        BY <1>0, <1>7 DEF CancelWaiting, HandInv, exchange, opener
      <3>2. Effect(c)
        BY <2>2, <3>1, WriteEffect, LocalEffect
      <3>. QED
        BY <1>0, <2>2, <3>2 DEF HandInv, Done, Seen, SeenAs
    <2>. QED
      BY <1>7, <2>1, <2>2 DEF CancelWaiting
  <1>8. ASSUME NEW o \in Ids, AllWrite(c, o) PROVE Effect(c) /\ HandInv'
    <2>1. /\ UNCHANGED <<sold, openPc, stale, pc, snap, cur>> /\ o \in Seen(c)
          /\ todo' = [todo EXCEPT ![c] = @ \ {o}]
      BY <1>0, <1>8 DEF AllWrite, Done, HandInv, exchange, opener
    <2>2. SetOrder(o, "CLOSED", AllVolume(c, o)) \/ UNCHANGED book
      BY <1>8 DEF AllWrite
    <2>3. Effect(c)
      BY <2>1, <2>2, WriteEffect, LocalEffect
    <2>. QED
      BY <1>0, <2>1, <2>3 DEF HandInv, Seen, SeenAs
  <1>. QED
    BY <1>1, <1>2, <1>3, <1>4, <1>5, <1>6, <1>7, <1>8 DEF AllStep

LEMMA SomeEffect ==
    ASSUME TradeInv, NEW c \in Closers, SomeStep(c) PROVE Effect(c) /\ HandInv'
  <1>0. /\ pc \in [Closers -> Pcs] /\ todo \in [Closers -> SUBSET Ids]
        /\ cur \in [Closers -> Ids \union {None}]
        /\ HandInv
    BY DEF TradeInv, SaleInv, Shape
  <1>1. CASE SomeRead(c)
    <2>1. PICK orders : /\ orders \subseteq Ids
                        /\ \A o \in orders : Active(book[o])
                        /\ snap' = [snap EXCEPT ![c] = Snapshot(orders)]
                        /\ todo' = [todo EXCEPT ![c] = orders]
      BY <1>1 DEF SomeRead, ActiveAmong, Real
    <2>2. /\ UNCHANGED <<book, sold, openPc, stale, cur>>
          /\ pc'[c] = "balanceSome" /\ \A d \in Closers \ {c} : pc'[d] = pc[d]
      BY <1>0, <1>1 DEF SomeRead, Goto, exchange, opener
    <2>3. /\ Seen(c)' = orders
          /\ \A o \in Ids : snap'[c][o].status \in {"NONE", book[o].status}
          /\ \A d \in Closers \ {c} :
                /\ snap'[d] = snap[d]
                /\ Seen(d)' = Seen(d)
                /\ SeenAs(d, "OPENED")' = SeenAs(d, "OPENED")
      BY <2>1, SnapshotEffect
    <2>4. todo'[c] = orders /\ \A d \in Closers \ {c} : todo'[d] = todo[d]
      BY <1>0, <2>1
    <2>. QED
      BY <1>0, <2>2, <2>3, <2>4 DEF Effect, HandInv
  <1>2. CASE SomeBalance(c) \/ SomeCheck(c) \/ SomeRefused(c)
    <2>1. CASE Return(c)
      BY <1>2, <2>1, ReturnEffect DEF SomeBalance, SomeCheck, SomeRefused, exchange, opener
    <2>2. CASE ~Return(c)
      <3>1. /\ UNCHANGED <<book, sold, openPc, stale, snap, todo, cur>>
            /\ \/ pc'[c] = "some"
               \/ pc[c] = "real" /\ pc'[c] = "sellOne"
            /\ \A d \in Closers \ {c} : pc'[d] = pc[d]
        BY <1>0, <1>2, <2>2 DEF SomeBalance, SomeCheck, SomeRefused, Goto, exchange, opener
      <3>2. Effect(c)
        BY <3>1, LocalEffect
      <3>. QED
        BY <1>0, <3>1, <3>2 DEF HandInv, Seen, SeenAs
    <2>. QED
      BY <2>1, <2>2
  <1>3. CASE SomeSell(c)
    <2>1. /\ pc[c] = "sellOne" /\ UNCHANGED <<book, openPc, stale, snap, todo, cur>>
          /\ sold' = [sold EXCEPT ![cur[c]] = @ + 1]
          /\ pc'[c] \in {"closeOne", "some"} /\ \A d \in Closers \ {c} : pc'[d] = pc[d]
      BY <1>0, <1>3 DEF SomeSell, Goto, opener
    <2>2. cur[c] \in SeenAs(c, "OPENED")
      BY <1>0, <2>1 DEF HandInv
    <2>3. \A o \in Ids : sold'[o] = sold[o] \/ o \in SeenAs(c, "OPENED")
      BY <2>1, <2>2 DEF TradeInv, SaleInv, Shape
    <2>4. Effect(c)
      BY <2>1, <2>3, LocalEffect
    <2>. QED
      BY <1>0, <2>1, <2>4 DEF HandInv, Seen, SeenAs
  <1>4. CASE SomeWrite(c)
    <2>1. /\ pc[c] \in {"closeOne", "priceOne"}
          /\ UNCHANGED <<sold, openPc, stale, snap, todo, cur>>
          /\ \/ pc'[c] = "priceOne"
             \/ pc'[c] = "some"
          /\ \A d \in Closers \ {c} : pc'[d] = pc[d]
      BY <1>0, <1>4 DEF SomeWrite, Goto, exchange, opener
    <2>2. cur[c] \in Seen(c)
      BY <1>0, <2>1 DEF HandInv, Seen, SeenAs
    <2>3. SetOrder(cur[c], "CLOSED", snap[c][cur[c]].volume) \/ UNCHANGED book
      BY <1>4 DEF SomeWrite
    <2>4. Effect(c)
      BY <2>1, <2>2, <2>3, WriteEffect, LocalEffect
    <2>. QED
      BY <1>0, <2>1, <2>4 DEF HandInv, Seen, SeenAs
  <1>5. ASSUME NEW o \in Ids, SomeCancel(c, o) PROVE Effect(c) /\ HandInv'
    <2>1. CASE Return(c) /\ UNCHANGED book
      BY <1>5, <2>1, ReturnEffect DEF SomeCancel, exchange, opener
    <2>2. CASE SetOrder(o, "CANCELLED", snap[c][o].volume) /\ Done(c, o)
               /\ UNCHANGED <<pc, snap, cur, bal>>
      <3>1. UNCHANGED <<sold, openPc, stale>> /\ o \in Seen(c) /\ pc[c] = "some"
        BY <1>0, <1>5 DEF SomeCancel, HandInv, exchange, opener
      <3>2. Effect(c)
        BY <2>2, <3>1, WriteEffect, LocalEffect
      <3>. QED
        BY <1>0, <2>2, <3>1, <3>2 DEF HandInv, Done, Seen, SeenAs
    <2>. QED
      BY <1>5, <2>1, <2>2 DEF SomeCancel
  <1>6. ASSUME NEW o \in Ids, SomeTake(c, o) PROVE Effect(c) /\ HandInv'
    <2>1. CASE Return(c) /\ UNCHANGED book
      BY <1>6, <2>1, ReturnEffect DEF SomeTake, exchange, opener
    <2>2. CASE ~(Return(c) /\ UNCHANGED book)
      <3>1. /\ UNCHANGED <<sold, openPc, stale, snap>>
            /\ cur'[c] = o /\ \A d \in Closers \ {c} : cur'[d] = cur[d]
            /\ todo' = [todo EXCEPT ![c] = @ \ {o}]
            /\ pc'[c] = "real" /\ \A d \in Closers \ {c} : pc'[d] = pc[d]
            /\ o \in SeenAs(c, "OPENED") /\ o \in Seen(c)
        BY <1>0, <1>6, <2>2 DEF SomeTake, Goto, Done, SeenAs, Seen, exchange, opener
      <3>2. SetOrder(o, "CLOSED", snap[c][o].volume) \/ UNCHANGED book
        BY <1>6, <2>2 DEF SomeTake
      <3>3. Effect(c)
        BY <3>1, <3>2, WriteEffect, LocalEffect
      <3>. QED
        BY <1>0, <3>1, <3>3 DEF HandInv, Seen, SeenAs
    <2>. QED
      BY <2>1, <2>2
  <1>. QED
    BY <1>1, <1>2, <1>3, <1>4, <1>5, <1>6 DEF SomeStep

LEMMA VirtualEffect ==
    ASSUME TradeInv, NEW c \in Closers, VirtualStep(c) PROVE Effect(c) /\ HandInv'
  <1>0. /\ pc \in [Closers -> Pcs] /\ todo \in [Closers -> SUBSET Ids]
        /\ HandInv
    BY DEF TradeInv, SaleInv, Shape
  <1>1. CASE VirtualRead(c)
    <2>1. PICK orders : /\ orders \subseteq Ids
                        /\ \A o \in orders : Active(book[o])
                        /\ snap' = [snap EXCEPT ![c] = Snapshot(orders)]
                        /\ todo' = [todo EXCEPT ![c] = orders]
      BY <1>1, CloseOrderAssumption DEF VirtualRead, ActiveAmong
    <2>2. /\ UNCHANGED <<book, sold, openPc, stale, cur>>
          /\ pc'[c] = "virtual" /\ \A d \in Closers \ {c} : pc'[d] = pc[d]
      BY <1>0, <1>1 DEF VirtualRead, Goto, exchange, opener
    <2>3. /\ Seen(c)' = orders
          /\ \A o \in Ids : snap'[c][o].status \in {"NONE", book[o].status}
          /\ \A d \in Closers \ {c} :
                /\ snap'[d] = snap[d]
                /\ Seen(d)' = Seen(d)
                /\ SeenAs(d, "OPENED")' = SeenAs(d, "OPENED")
      BY <2>1, SnapshotEffect
    <2>4. todo'[c] = orders /\ \A d \in Closers \ {c} : todo'[d] = todo[d]
      BY <1>0, <2>1
    <2>. QED
      BY <1>0, <2>2, <2>3, <2>4 DEF Effect, HandInv
  <1>2. ASSUME NEW o \in Ids, VirtualWrite(c, o) PROVE Effect(c) /\ HandInv'
    <2>1. CASE Return(c) /\ UNCHANGED book
      BY <1>2, <2>1, ReturnEffect DEF VirtualWrite, exchange, opener
    <2>2. CASE ~(Return(c) /\ UNCHANGED book)
      <3>1. /\ UNCHANGED <<sold, openPc, stale, pc, snap, cur>> /\ o \in Seen(c)
            /\ todo' = [todo EXCEPT ![c] = @ \ {o}]
        BY <1>0, <1>2, <2>2 DEF VirtualWrite, Done, HandInv, exchange, opener
      <3>2. PICK status \in {"CLOSED", "CANCELLED"} : SetOrder(o, status, snap[c][o].volume)
        BY <1>2, <2>2 DEF VirtualWrite
      <3>3. Effect(c)
        BY <3>1, <3>2, WriteEffect, LocalEffect
      <3>. QED
        BY <1>0, <3>1, <3>3 DEF HandInv, Seen, SeenAs
    <2>. QED
      BY <2>1, <2>2
  <1>. QED
    BY <1>1, <1>2 DEF VirtualStep

LEMMA CloserEffect ==
    ASSUME TradeInv, NEW c \in Closers, CloserStep(c) PROVE Effect(c) /\ HandInv'
  <1>1. CASE Refused(c) \/ Finish(c) \/ Restart(c)
    BY <1>1, ReturnEffect DEF Refused, Finish, Restart, exchange, opener
  <1>. QED
    BY <1>1, AllEffect, SomeEffect, VirtualEffect DEF CloserStep

\* Writes of what is known, and readings of it, bring nothing new.
LEMMA FreshKept ==
    ASSUME FreshInv, UNCHANGED <<sold, snap, openPc>>,
           \A o \in Ids : book'[o].status \in {book[o].status, stale[o].status},
           \A o \in Ids : stale'[o].status \in {"NONE", book[o].status, stale[o].status}
    PROVE  FreshInv'
  <1>. SUFFICES ASSUME NEW o \in Ids
                PROVE  /\ openPc[o] = "none" =>
                            /\ book'[o].status = "NONE" /\ stale'[o].status = "NONE"
                            /\ \A c \in Closers : snap[c][o].status = "NONE"
                       /\ openPc[o] \in {"none", "waiting", "buying", "bought"} =>
                            /\ sold[o] = 0
                            /\ book'[o].status # "OPENED" /\ stale'[o].status # "OPENED"
                            /\ \A c \in Closers : snap[c][o].status # "OPENED"
    BY DEF FreshInv
  <1>1. /\ book'[o].status \in {book[o].status, stale[o].status}
        /\ stale'[o].status \in {"NONE", book[o].status, stale[o].status}
    OBVIOUS
  <1>. QED
    BY <1>1 DEF FreshInv

\* What the rest of the trader does to an order: it goes on with the opening, and it
\* writes OPENED only what it has bought, or what somebody has read as OPENED.
LEMMA OthersEffect ==
    ASSUME TradeInv,
           (\E o \in Ids : OpenerStep(o) \/ RefreshWrite(o)) \/ RefreshRead \/ Withdraw
    PROVE  HandInv' /\ FreshInv'
  <1>1. UNCHANGED <<sold, pc, snap, todo, cur>>
    BY DEF OpenerStep, Create, OpenStart, OpenBuy, OpenRecord, OpenAdjust,
           RefreshWrite, RefreshRead, Withdraw, exchange, closer
  <1>2. HandInv'
    BY <1>1 DEF TradeInv, HandInv, Seen, SeenAs
  <1>3. ASSUME NEW o \in Ids, OpenerStep(o) PROVE FreshInv'
    <2>1. stale' = stale /\ \A p \in Ids \ {o} : book'[p] = book[p] /\ openPc'[p] = openPc[p]
      BY <1>3 DEF OpenerStep, Create, OpenStart, OpenBuy, OpenRecord, OpenAdjust, SetOrder,
                  TradeInv, SaleInv, Shape
    <2>2. \/ /\ openPc[o] = "none" /\ openPc'[o] = "waiting" /\ book'[o].status = "WAIT_OPEN"
          \/ /\ openPc[o] \in {"waiting", "buying"} /\ openPc'[o] \in {"buying", "bought"}
             /\ book' = book
          \/ openPc'[o] \in {"recorded", "done"}
      BY <1>3 DEF OpenerStep, Create, OpenStart, OpenBuy, OpenRecord, OpenAdjust, SetOrder,
                  TradeInv, SaleInv, Shape
    <2>. QED
      BY <1>1, <2>1, <2>2 DEF TradeInv, FreshInv
  <1>4. ASSUME NEW o \in Ids, RefreshWrite(o) PROVE FreshInv'
    <2>1. /\ openPc' = openPc
          /\ \A p \in Ids : /\ book'[p].status \in {book[p].status, stale[p].status}
                            /\ stale'[p].status \in {"NONE", stale[p].status}
      BY <1>4 DEF RefreshWrite, Absent, opener, TradeInv, SaleInv, Shape
    <2>. QED
      BY <1>1, <2>1, FreshKept DEF TradeInv
  <1>5. ASSUME RefreshRead PROVE FreshInv'
    <2>1. /\ openPc' = openPc /\ book' = book
          /\ \A o \in Ids : stale'[o].status \in {"NONE", book[o].status}
      BY <1>5 DEF RefreshRead, Snapshot, Absent, opener
    <2>. QED
      BY <1>1, <2>1, FreshKept DEF TradeInv
  <1>6. ASSUME Withdraw PROVE FreshInv'
    <2>1. UNCHANGED <<book, stale, openPc>>
      BY <1>6 DEF Withdraw, opener
    <2>. QED
      BY <1>1, <2>1, FreshKept DEF TradeInv
  <1>7. FreshInv'
    BY <1>3, <1>4, <1>5, <1>6
  <1>. QED
    BY <1>2, <1>7

LEMMA TradeInit == Init => TradeInv
  <1>1. Init => HandInv /\ FreshInv
    BY DEF Init, HandInv, FreshInv, Absent, Seen
  <1>. QED
    BY <1>1, SaleInit DEF TradeInv

LEMMA TradeStep == TradeInv /\ [Next]_vars => TradeInv'
  <1>. SUFFICES ASSUME TradeInv, [Next]_vars PROVE TradeInv'
    OBVIOUS
  <1>1. SaleInv'
    BY SaleStep DEF TradeInv
  <1>2. ASSUME NEW c \in Closers, CloserStep(c) PROVE HandInv' /\ FreshInv'
    <2>1. Effect(c) /\ HandInv'
      BY <1>2, CloserEffect
    <2>2. FreshInv'
      BY <2>1 DEF TradeInv, FreshInv, Effect, Seen, SeenAs
    <2>. QED
      BY <2>1, <2>2
  <1>3. ASSUME UNCHANGED vars PROVE HandInv' /\ FreshInv'
    <2>1. UNCHANGED <<book, sold, stale, openPc, snap, pc, todo, cur>>
      BY <1>3 DEF vars, exchange, opener, closer
    <2>2. HandInv'
      BY <2>1 DEF TradeInv, HandInv, Seen, SeenAs
    <2>3. FreshInv'
      BY <2>1, FreshKept DEF TradeInv
    <2>. QED
      BY <2>2, <2>3
  <1>4. ASSUME (\E o \in Ids : OpenerStep(o) \/ RefreshWrite(o)) \/ RefreshRead \/ Withdraw
        PROVE  HandInv' /\ FreshInv'
    BY <1>4, OthersEffect
  <1>5. HandInv' /\ FreshInv'
    BY <1>2, <1>3, <1>4 DEF Next
  <1>. QED
    BY <1>1, <1>5 DEF TradeInv

\* A closed order becomes active again only by the handler that still opens it or by a
\* refresh that has read it before: for any number of orders and handlers, whatever
\* fails, is lost or restarted.
THEOREM ClosedStaysClosed == Spec => ClosedForGood
  <1>1. TradeInv /\ [Next]_vars =>
            [\A o \in Real : book[o].status = "CLOSED" =>
                ~Active(book[o])' \/ Opening(o) \/ stale[o] # Absent]_vars
    <2>. SUFFICES ASSUME TradeInv, Next, NEW o \in Real, book[o].status = "CLOSED"
                  PROVE  ~Active(book[o])' \/ Opening(o) \/ stale[o] # Absent
      OBVIOUS
    <2>0. o \in Ids /\ o \notin Virtual /\ ~Active(book[o])
      BY DEF Real, Active
    <2>1. ASSUME NEW c \in Closers, CloserStep(c) PROVE ~Active(book[o])'
      <3>1. Effect(c)
        BY <2>1, CloserEffect
      <3>. QED
        BY <2>0, <3>1 DEF Effect, Active
    <2>2. ASSUME NEW p \in Ids, OpenerStep(p) PROVE ~Active(book[o])' \/ Opening(o)
      <3>1. CASE p # o
        <4>1. book' = book \/ \E status, volume : SetOrder(p, status, volume)
          BY <2>2 DEF OpenerStep, Create, OpenStart, OpenBuy, OpenRecord, OpenAdjust
        <4>2. book'[o] = book[o]
          BY <2>0, <3>1, <4>1 DEF SetOrder, TradeInv, SaleInv, Shape
        <4>. QED
          BY <2>0, <4>2 DEF Active
      <3>2. CASE p = o
        <4>1. openPc[o] # "none"
          BY <2>0 DEF TradeInv, FreshInv
        <4>2. Opening(o) \/ book' = book
          BY <2>0, <2>2, <3>2, <4>1
          DEF OpenerStep, Create, OpenStart, OpenBuy, OpenRecord, OpenAdjust, Opening
        <4>. QED
          BY <2>0, <4>2 DEF Active
      <3>. QED
        BY <3>1, <3>2
    <2>3. ASSUME NEW p \in Ids, RefreshWrite(p) PROVE ~Active(book[o])' \/ stale[o] # Absent
      <3>1. stale[p] # Absent /\ book' = [book EXCEPT ![p] = stale[p]]
        BY <2>3 DEF RefreshWrite
      <3>2. p # o => book'[o] = book[o]
        BY <3>1 DEF TradeInv, SaleInv, Shape
      <3>. QED
        BY <2>0, <3>1, <3>2 DEF Active
    <2>4. CASE RefreshRead \/ Withdraw
      BY <2>0, <2>4 DEF RefreshRead, Withdraw, Active
    <2>. QED
      BY <2>1, <2>2, <2>3, <2>4 DEF Next
  <1>. QED
    BY <1>1, TradeInit, TradeStep, PTL DEF Spec, ClosedForGood

----------------------------------------------------------------------------
(* Sold once *)

\* The orders a closer may still sell.
MaySell(c) ==
    {o \in InHand(c) :
        \/ pc[c] \in {"balance", "sell"}
        \/ /\ pc[c] \in {"balanceSome", "some", "real", "sellOne", "closeOne", "priceOne"}
           /\ o \in todo[c]
        \/ pc[c] \in {"real", "sellOne"} /\ o = cur[c]}

\* An order nobody contests is in one hand at most; once it is sold, the book shows it as
\* OPENED only until that hand has written it, and nobody sells it again.
OneHand(o) == \A c, d \in Closers : o \in InHand(c) /\ o \in InHand(d) => c = d

OnceInv ==
    \A o \in Real \ contested :
      /\ sold[o] <= 1
      /\ sold[o] > 0 /\ book[o].status = "OPENED" => \E c \in Closers : o \in Unwritten(c)
      /\ \A c \in Closers : o \in MaySell(c) => sold[o] = 0
      /\ OneHand(o)

\* A step of one closer leaves the others where they are.
Elsewhere(c) ==
    \A d \in Closers \ {c} :
        pc'[d] = pc[d] /\ snap'[d] = snap[d] /\ todo'[d] = todo[d] /\ cur'[d] = cur[d]

LEMMA ElsewhereKept ==
    ASSUME NEW c \in Closers, Elsewhere(c)
    PROVE  \A d \in Closers \ {c} :
              /\ InHand(d)' = InHand(d)
              /\ MaySell(d)' = MaySell(d)
              /\ Unwritten(d)' = Unwritten(d)
  BY DEF Elsewhere, InHand, MaySell, Unwritten, SeenAs

LEMMA InTheHand ==
    ASSUME NEW c \in Closers
    PROVE  /\ MaySell(c) \subseteq InHand(c)
           /\ Unwritten(c) \subseteq InHand(c)
  BY DEF MaySell, Unwritten

\* A closer that sells nothing and takes nothing in hand loses no sale it has to write.
LEMMA CloserOnce ==
    ASSUME TradeInv, OnceInv, NEW c \in Closers, Elsewhere(c), Effect(c), sold' = sold,
           contested \subseteq contested',
           InHand(c)' \subseteq InHand(c), MaySell(c)' \subseteq MaySell(c),
           \A o \in Unwritten(c) :
              o \in Unwritten(c)' \/ o \in contested' \/ book'[o].status # "OPENED"
    PROVE  OnceInv'
  <1>. SUFFICES ASSUME NEW o \in Real \ contested'
                PROVE  /\ sold'[o] <= 1
                       /\ sold'[o] > 0 /\ book'[o].status = "OPENED" =>
                            \E d \in Closers : o \in Unwritten(d)'
                       /\ \A d \in Closers : o \in MaySell(d)' => sold'[o] = 0
                       /\ OneHand(o)'
    BY DEF OnceInv
  <1>1. /\ sold[o] <= 1
        /\ sold[o] > 0 /\ book[o].status = "OPENED" => \E d \in Closers : o \in Unwritten(d)
        /\ \A d \in Closers : o \in MaySell(d) => sold[o] = 0
        /\ OneHand(o)
    BY DEF OnceInv
  <1>2. \A d \in Closers : /\ o \in InHand(d)' => o \in InHand(d)
                           /\ o \in MaySell(d)' => o \in MaySell(d)
                           /\ o \in Unwritten(d) =>
                                o \in Unwritten(d)' \/ book'[o].status # "OPENED"
    BY ElsewhereKept
  <1>3. book'[o].status = "OPENED" => book[o].status = "OPENED"
    BY DEF Effect, Real
  <1>4. OneHand(o)'
    BY <1>1, <1>2 DEF OneHand
  <1>. QED
    BY <1>1, <1>2, <1>3, <1>4

\* A closer that reads takes in hand what is OPENED and in no other hand, or contested.
LEMMA ReadOnce ==
    ASSUME TradeInv, OnceInv, NEW c \in Closers, Elsewhere(c), UNCHANGED <<book, sold>>,
           contested \subseteq contested', Unwritten(c) = {},
           \A o \in Real : o \in InHand(c)' =>
              /\ book[o].status = "OPENED"
              /\ o \in contested' \/ \A d \in Closers \ {c} : o \notin InHand(d)
    PROVE  OnceInv'
  <1>. SUFFICES ASSUME NEW o \in Real \ contested'
                PROVE  /\ sold'[o] <= 1
                       /\ sold'[o] > 0 /\ book'[o].status = "OPENED" =>
                            \E d \in Closers : o \in Unwritten(d)'
                       /\ \A d \in Closers : o \in MaySell(d)' => sold'[o] = 0
                       /\ OneHand(o)'
    BY DEF OnceInv
  <1>1. /\ sold[o] <= 1 /\ sold[o] \in Nat
        /\ sold[o] > 0 /\ book[o].status = "OPENED" => \E d \in Closers : o \in Unwritten(d)
        /\ \A d \in Closers : o \in MaySell(d) => sold[o] = 0
        /\ OneHand(o)
    BY DEF OnceInv, TradeInv, SaleInv, Shape, Real
  <1>2. \A d \in Closers \ {c} : /\ o \in InHand(d)' <=> o \in InHand(d)
                                 /\ o \in MaySell(d)' <=> o \in MaySell(d)
                                 /\ o \in Unwritten(d) <=> o \in Unwritten(d)'
    BY ElsewhereKept
  <1>3. sold[o] > 0 /\ book[o].status = "OPENED" =>
            \E d \in Closers \ {c} : o \in Unwritten(d) /\ o \in InHand(d)
    BY <1>1, InTheHand
  <1>4. o \in InHand(c)' => sold[o] = 0
    <2>. SUFFICES ASSUME o \in InHand(c)' PROVE ~(sold[o] > 0)
      BY <1>1
    <2>. QED
      BY <1>3
  <1>5. o \in MaySell(c)' => o \in InHand(c)'
    BY DEF MaySell
  <1>6. OneHand(o)'
    BY <1>1, <1>2 DEF OneHand
  <1>. QED
    BY <1>1, <1>2, <1>3, <1>4, <1>5, <1>6

\* A closer that sells what it may sell has to write it, or has contested it.
LEMMA SellOnce ==
    ASSUME TradeInv, OnceInv, NEW c \in Closers, Elsewhere(c), book' = book,
           contested \subseteq contested', Unwritten(c) = {},
           InHand(c)' \subseteq InHand(c), MaySell(c)' \subseteq MaySell(c),
           \A o \in Ids : \/ sold'[o] = sold[o]
                          \/ /\ o \in MaySell(c) /\ sold'[o] = sold[o] + 1
                             /\ o \in contested' \/ (o \in Unwritten(c)' /\ o \notin MaySell(c)')
    PROVE  OnceInv'
  <1>. SUFFICES ASSUME NEW o \in Real \ contested'
                PROVE  /\ sold'[o] <= 1
                       /\ sold'[o] > 0 /\ book'[o].status = "OPENED" =>
                            \E d \in Closers : o \in Unwritten(d)'
                       /\ \A d \in Closers : o \in MaySell(d)' => sold'[o] = 0
                       /\ OneHand(o)'
    BY DEF OnceInv
  <1>1. /\ sold[o] <= 1
        /\ sold[o] > 0 /\ book[o].status = "OPENED" => \E d \in Closers : o \in Unwritten(d)
        /\ \A d \in Closers : o \in MaySell(d) => sold[o] = 0
        /\ OneHand(o)
    BY DEF OnceInv
  <1>2. \A d \in Closers : /\ o \in InHand(d)' => o \in InHand(d)
                           /\ o \in MaySell(d)' => o \in MaySell(d)
                           /\ o \in Unwritten(d) => o \in Unwritten(d)'
    BY ElsewhereKept
  <1>3. OneHand(o)'
    BY <1>1, <1>2 DEF OneHand
  <1>4. CASE sold'[o] = sold[o]
    BY <1>1, <1>2, <1>3, <1>4
  <1>5. CASE sold'[o] # sold[o]
    <2>1. /\ o \in MaySell(c) /\ sold'[o] = sold[o] + 1
          /\ o \in Unwritten(c)' /\ o \notin MaySell(c)'
      BY <1>5 DEF Real
    <2>2. sold'[o] = 1
      BY <1>1, <2>1
    <2>3. \A d \in Closers : o \notin MaySell(d)'
      BY <1>1, <1>2, <2>1, InTheHand DEF OneHand
    <2>. QED
      BY <1>3, <2>1, <2>2, <2>3
  <1>. QED
    BY <1>4, <1>5

\* A closer that returns has nothing in hand any more.
LEMMA ReturnOnce ==
    ASSUME TradeInv, OnceInv, NEW c \in Closers, Return(c),
           UNCHANGED <<book, sold, openPc, stale>>,
           contested \subseteq contested', Unwritten(c) \subseteq contested'
    PROVE  OnceInv'
  <1>1. Elsewhere(c) /\ InHand(c)' = {}
    BY DEF TradeInv, SaleInv, Shape, Return, Goto, Elsewhere, InHand, SeenAs, Absent
  <1>2. MaySell(c)' = {}
    BY <1>1 DEF MaySell
  <1>3. Effect(c)
    BY ReturnEffect
  <1>. QED
    BY <1>1, <1>2, <1>3, CloserOnce

\* The rest of the trader writes OPENED only what was OPENED or is not sold, or contests it.
LEMMA OthersOnce ==
    ASSUME TradeInv, OnceInv, UNCHANGED <<sold, pc, snap, todo, cur>>,
           contested \subseteq contested',
           \A o \in Real \ contested' :
              book'[o].status = "OPENED" => book[o].status = "OPENED" \/ sold[o] = 0
    PROVE  OnceInv'
  <1>1. \A c \in Closers : /\ InHand(c)' = InHand(c)
                           /\ MaySell(c)' = MaySell(c)
                           /\ Unwritten(c)' = Unwritten(c)
    BY DEF InHand, MaySell, Unwritten, SeenAs
  <1>2. \A o \in Ids : OneHand(o)' <=> OneHand(o)
    BY <1>1 DEF OneHand
  <1>. QED
    BY <1>1, <1>2 DEF OnceInv, Real

LEMMA AllOnce ==
    ASSUME TradeInv, OnceInv, NEW c \in Closers, AllStep(c) PROVE OnceInv'
  <1>0. /\ pc \in [Closers -> Pcs] /\ todo \in [Closers -> SUBSET Ids]
        /\ snap = [d \in Closers |-> snap[d]] /\ cur \in [Closers -> Ids \union {None}]
        /\ HandInv /\ Effect(c)
    BY AllEffect DEF TradeInv, SaleInv, Shape
  <1>1. CASE AllRead(c)
    <2>1. /\ Elsewhere(c) /\ UNCHANGED <<book, sold>> /\ Unwritten(c) = {}
          /\ snap'[c] = Snapshot(ActiveAmong(Real))
          /\ pc'[c] \in {"cancel", "balance"}
      BY <1>0, <1>1 DEF AllRead, Goto, Elsewhere, Unwritten, exchange
    <2>2. \A o \in InHand(c)' : o \in ActiveAmong(Real) /\ book[o].status = "OPENED"
      BY <2>1 DEF InHand, SeenAs, Snapshot, Absent
    <2>3. CASE pc'[c] = "cancel"
      <3>1. InHand(c)' = {}
        BY <2>3 DEF InHand
      <3>2. contested \subseteq contested'
        BY <1>1 DEF AllRead, Shares, Contests
      <3>. QED
        BY <2>1, <3>1, <3>2, ReadOnce
    <2>4. CASE pc'[c] = "balance"
      <3>1. Shares(c, ActiveAmong(Real))
        BY <1>0, <1>1, <2>4 DEF AllRead, Goto
      <3>2. contested \subseteq contested'
        BY <3>1 DEF Shares, Contests
      <3>3. \A o \in InHand(c)' :
                o \in contested' \/ \A d \in Closers \ {c} : o \notin InHand(d)
        BY <2>2, <3>1 DEF Shares, Contests
      <3>. QED
        BY <2>1, <2>2, <3>2, <3>3, ReadOnce
    <2>. QED
      BY <2>1, <2>3, <2>4
  <1>2. CASE AllReread(c)
    <2>1. pc[c] = "cancel" /\ Unwritten(c) = {}
      BY <1>2 DEF AllReread, Unwritten
    <2>2. CASE ActiveAmong(Real) = {}
      BY <1>2, <2>1, <2>2, ReturnOnce DEF AllReread, exchange, opener, history
    <2>3. CASE ActiveAmong(Real) # {}
      <3>1. /\ Elsewhere(c) /\ UNCHANGED <<book, sold>>
            /\ snap'[c] = Snapshot(ActiveAmong(Real)) /\ Shares(c, ActiveAmong(Real))
        BY <1>0, <1>2, <2>3 DEF AllReread, Goto, Elsewhere, exchange
      <3>2. \A o \in InHand(c)' : o \in ActiveAmong(Real) /\ book[o].status = "OPENED"
        BY <3>1 DEF InHand, SeenAs, Snapshot, Absent
      <3>3. /\ contested \subseteq contested'
            /\ \A o \in InHand(c)' :
                  o \in contested' \/ \A d \in Closers \ {c} : o \notin InHand(d)
        BY <3>1, <3>2 DEF Shares, Contests
      <3>. QED
        BY <2>1, <3>1, <3>2, <3>3, ReadOnce
    <2>. QED
      BY <2>2, <2>3
  <1>3. CASE AllBalance(c)
    <2>1. pc[c] = "balance" /\ Unwritten(c) = {}
      BY <1>3 DEF AllBalance, Unwritten
    <2>2. CASE Return(c)
      BY <1>3, <2>1, <2>2, ReturnOnce DEF AllBalance, exchange, opener, history
    <2>3. CASE ~Return(c)
      <3>1. /\ UNCHANGED <<sold, contested, snap>> /\ Elsewhere(c) /\ pc'[c] = "sell"
        BY <1>0, <1>3, <2>3 DEF AllBalance, Goto, Elsewhere, exchange, history
      <3>2. InHand(c)' = InHand(c) /\ MaySell(c)' \subseteq MaySell(c)
        BY <2>1, <3>1 DEF InHand, MaySell, SeenAs
      <3>. QED
        BY <1>0, <2>1, <3>1, <3>2, CloserOnce
    <2>. QED
      BY <2>2, <2>3
  <1>4. CASE AllSell(c)
    <2>1. /\ pc[c] = "sell" /\ Unwritten(c) = {} /\ book' = book
          /\ MaySell(c) = SeenAs(c, "OPENED") /\ InHand(c) = SeenAs(c, "OPENED")
      BY <1>4 DEF AllSell, Unwritten, MaySell, InHand
    <2>2. \A o \in Ids : \/ sold'[o] = sold[o]
                         \/ o \in MaySell(c) /\ sold'[o] = sold[o] + 1
      BY <1>4, <2>1 DEF AllSell
    <2>3. CASE Return(c)
      <3>1. Elsewhere(c) /\ InHand(c)' = {}
        BY <1>0, <2>3 DEF Return, Goto, Elsewhere, InHand, SeenAs, Absent
      <3>2. MaySell(c)' = {}
        BY <3>1 DEF MaySell
      <3>3. contested' = contested \union SeenAs(c, "OPENED")
        BY <1>0, <1>4, <2>3 DEF AllSell, Return, Goto, Contests
      <3>. QED
        BY <2>1, <2>2, <3>1, <3>2, <3>3, SellOnce
    <2>4. CASE ~Return(c)
      <3>1. /\ Elsewhere(c) /\ pc'[c] = "mark" /\ snap' = snap /\ contested' = contested
            /\ todo'[c] = Seen(c)
        BY <1>0, <1>4, <2>4 DEF AllSell, Goto, Elsewhere
      <3>2. InHand(c)' = InHand(c) /\ MaySell(c)' = {}
        BY <2>1, <3>1 DEF InHand, MaySell, SeenAs
      <3>3. Unwritten(c)' = InHand(c)
        BY <2>1, <3>1, <3>2 DEF Unwritten, Seen, SeenAs
      <3>. QED
        BY <2>1, <2>2, <3>1, <3>2, <3>3, SellOnce
    <2>. QED
      BY <2>3, <2>4
  <1>5. CASE AllNext(c)
    <2>1. /\ UNCHANGED <<sold, contested, snap>> /\ Elsewhere(c) /\ pc'[c] = "price"
          /\ pc[c] = "mark" /\ todo[c] = {}
      BY <1>0, <1>5 DEF AllNext, Goto, Elsewhere, exchange, history
    <2>2. InHand(c)' = InHand(c) /\ MaySell(c)' = {} /\ Unwritten(c) = {}
      BY <2>1 DEF InHand, MaySell, Unwritten, SeenAs
    <2>. QED
      BY <1>0, <2>1, <2>2, CloserOnce
  <1>6. CASE AllReadWaiting(c)
    <2>1. /\ Elsewhere(c) /\ UNCHANGED <<book, sold, contested>> /\ Unwritten(c) = {}
          /\ snap'[c] = Snapshot({o \in Real : book[o].status = "WAIT_OPEN"})
      BY <1>0, <1>6 DEF AllReadWaiting, Goto, Elsewhere, Unwritten, exchange, history
    <2>2. InHand(c)' = {}
      BY <2>1 DEF InHand, SeenAs, Snapshot, Absent
    <2>. QED
      BY <2>1, <2>2, ReadOnce
  <1>7. ASSUME NEW o \in Ids, CancelWaiting(c, o) PROVE OnceInv'
    <2>1. pc[c] \in {"cancel", "cancelLast"} /\ Unwritten(c) = {}
      BY <1>7 DEF CancelWaiting, Unwritten
    <2>2. CASE Return(c) /\ UNCHANGED book
      BY <1>7, <2>1, <2>2, ReturnOnce DEF CancelWaiting, exchange, opener, history
    <2>3. CASE SetOrder(o, "CANCELLED", snap[c][o].volume) /\ Done(c, o)
               /\ UNCHANGED <<pc, snap, cur, bal>>
      <3>1. UNCHANGED <<sold, contested>> /\ Elsewhere(c)
        BY <1>0, <1>7, <2>3 DEF CancelWaiting, Done, Elsewhere, exchange, history
      <3>2. InHand(c)' = InHand(c) /\ MaySell(c)' = {}
        BY <2>1, <2>3 DEF InHand, MaySell, SeenAs
      <3>. QED
        BY <1>0, <2>1, <3>1, <3>2, CloserOnce
    <2>. QED
      BY <1>7, <2>2, <2>3 DEF CancelWaiting
  <1>8. ASSUME NEW o \in Ids, AllWrite(c, o) PROVE OnceInv'
    <2>1. /\ pc[c] \in {"mark", "price"} /\ UNCHANGED <<sold, pc, snap>> /\ Elsewhere(c)
          /\ todo' = [todo EXCEPT ![c] = @ \ {o}]
      BY <1>0, <1>8 DEF AllWrite, Done, Elsewhere, exchange
    <2>2. /\ contested \subseteq contested'
          /\ book'[o].status = "CLOSED" \/ Unwritten(c) \intersect {o} \subseteq contested'
      BY <1>8 DEF AllWrite, SetOrder, Contests, TradeInv, SaleInv, Shape
    <2>3. InHand(c)' = InHand(c) /\ MaySell(c)' = {}
      BY <2>1 DEF InHand, MaySell, SeenAs
    <2>4. Unwritten(c) \ {o} \subseteq Unwritten(c)'
      BY <1>0, <2>1, <2>3 DEF Unwritten
    <2>. QED
      BY <1>0, <2>1, <2>2, <2>3, <2>4, CloserOnce
  <1>. QED
    BY <1>1, <1>2, <1>3, <1>4, <1>5, <1>6, <1>7, <1>8 DEF AllStep

LEMMA SomeOnce ==
    ASSUME TradeInv, OnceInv, NEW c \in Closers, SomeStep(c) PROVE OnceInv'
  <1>0. /\ pc \in [Closers -> Pcs] /\ todo \in [Closers -> SUBSET Ids]
        /\ snap = [d \in Closers |-> snap[d]] /\ cur \in [Closers -> Ids \union {None}]
        /\ HandInv /\ Effect(c)
    BY SomeEffect DEF TradeInv, SaleInv, Shape
  <1>1. CASE SomeRead(c)
    <2>1. PICK orders : /\ \A o \in orders : o \in Ids
                        /\ snap' = [snap EXCEPT ![c] = Snapshot(orders)]
                        /\ todo' = [todo EXCEPT ![c] = orders]
                        /\ Shares(c, orders)
      BY <1>1 DEF SomeRead, ActiveAmong
    <2>2. Elsewhere(c) /\ UNCHANGED <<book, sold>> /\ Unwritten(c) = {}
      BY <1>0, <1>1, <2>1 DEF SomeRead, Goto, Elsewhere, Unwritten, exchange
    <2>3. \A o \in InHand(c)' : o \in orders /\ book[o].status = "OPENED"
      BY <1>0, <2>1 DEF InHand, SeenAs, Snapshot, Absent
    <2>4. /\ contested \subseteq contested'
          /\ \A o \in InHand(c)' :
                o \in contested' \/ \A d \in Closers \ {c} : o \notin InHand(d)
      BY <2>1, <2>3 DEF Shares, Contests
    <2>. QED
      BY <2>2, <2>3, <2>4, ReadOnce
  <1>2. CASE SomeBalance(c) \/ SomeCheck(c) \/ SomeRefused(c)
    <2>1. /\ pc[c] \in {"balanceSome", "real", "sellOne"} /\ Unwritten(c) = {}
          /\ UNCHANGED <<book, sold, openPc, stale, contested>>
      BY <1>2 DEF SomeBalance, SomeCheck, SomeRefused, Unwritten, exchange, opener, history
    <2>2. CASE Return(c)
      BY <2>1, <2>2, ReturnOnce
    <2>3. CASE ~Return(c)
      <3>1. /\ UNCHANGED <<snap, todo, cur>> /\ Elsewhere(c)
            /\ \/ pc'[c] = "some"
               \/ pc[c] = "real" /\ pc'[c] = "sellOne"
        BY <1>0, <1>2, <2>3 DEF SomeBalance, SomeCheck, SomeRefused, Goto, Elsewhere
      <3>2. InHand(c)' = InHand(c) /\ MaySell(c)' \subseteq MaySell(c)
        BY <2>1, <3>1 DEF InHand, MaySell, SeenAs
      <3>. QED
        BY <1>0, <2>1, <3>1, <3>2, CloserOnce
    <2>. QED
      BY <2>2, <2>3
  <1>3. CASE SomeSell(c)
    <2>1. /\ pc[c] = "sellOne" /\ Unwritten(c) = {} /\ Elsewhere(c)
          /\ UNCHANGED <<book, snap, todo, cur>>
          /\ sold' = [sold EXCEPT ![cur[c]] = @ + 1]
          /\ \/ pc'[c] = "closeOne" /\ contested' = contested
             \/ pc'[c] = "some" /\ contested' = contested \union {cur[c]}
      BY <1>0, <1>3 DEF SomeSell, Goto, Elsewhere, Unwritten, Contests
    <2>2. cur[c] \in SeenAs(c, "OPENED") \ todo[c]
      BY <1>0, <2>1 DEF HandInv
    <2>3. cur[c] \in MaySell(c) /\ InHand(c) = SeenAs(c, "OPENED")
      BY <2>1, <2>2 DEF MaySell, InHand
    <2>4. \A o \in Ids : \/ sold'[o] = sold[o]
                         \/ o = cur[c] /\ sold'[o] = sold[o] + 1
      BY <2>1, <2>2 DEF TradeInv, SaleInv, Shape
    <2>5. InHand(c)' = InHand(c) /\ MaySell(c)' \subseteq MaySell(c) \ {cur[c]}
      BY <2>1, <2>2 DEF InHand, MaySell, SeenAs
    <2>6. pc'[c] = "closeOne" => cur[c] \in Unwritten(c)'
      BY <2>1, <2>2, <2>3, <2>5 DEF Unwritten
    <2>7. contested \subseteq contested' /\ (cur[c] \in contested' \/ cur[c] \in Unwritten(c)')
      BY <2>1, <2>6
    <2>. QED
      BY <2>1, <2>3, <2>4, <2>5, <2>7, SellOnce
  <1>4. CASE SomeWrite(c)
    <2>1. /\ pc[c] \in {"closeOne", "priceOne"} /\ UNCHANGED <<sold, snap, todo, cur>>
          /\ pc'[c] \in {"priceOne", "some"} /\ Elsewhere(c)
      BY <1>0, <1>4 DEF SomeWrite, Goto, Elsewhere, exchange
    <2>2. Unwritten(c) \subseteq {cur[c]} /\ Unwritten(c) \subseteq Ids
      BY <2>1 DEF Unwritten, InHand, SeenAs
    <2>3. /\ contested \subseteq contested'
          /\ \A o \in Unwritten(c) : book'[o].status = "CLOSED" \/ o \in contested'
      BY <1>4, <2>2 DEF SomeWrite, SetOrder, Contests, TradeInv, SaleInv, Shape
    <2>4. InHand(c)' = InHand(c) /\ MaySell(c)' \subseteq MaySell(c)
      BY <2>1 DEF InHand, MaySell, SeenAs
    <2>. QED
      BY <1>0, <2>1, <2>3, <2>4, CloserOnce
  <1>5. ASSUME NEW o \in Ids, SomeCancel(c, o) \/ SomeTake(c, o) PROVE OnceInv'
    <2>1. /\ pc[c] = "some" /\ Unwritten(c) = {} /\ UNCHANGED <<sold, openPc, stale, contested>>
          /\ o \in todo[c]
      BY <1>5 DEF SomeCancel, SomeTake, Unwritten, exchange, opener, history
    <2>2. CASE Return(c) /\ UNCHANGED book
      BY <2>1, <2>2, ReturnOnce
    <2>3. CASE ~(Return(c) /\ UNCHANGED book)
      <3>1. /\ snap' = snap /\ todo' = [todo EXCEPT ![c] = @ \ {o}] /\ Elsewhere(c)
            /\ \/ pc'[c] = "some"
               \/ pc'[c] = "real" /\ cur'[c] = o
        BY <1>0, <1>5, <2>1, <2>3 DEF SomeCancel, SomeTake, Goto, Done, Elsewhere
      <3>2. InHand(c)' = InHand(c)
        BY <2>1, <3>1 DEF InHand, SeenAs
      <3>3. MaySell(c)' \subseteq MaySell(c)
        BY <1>0, <2>1, <3>1, <3>2 DEF MaySell
      <3>. QED
        BY <1>0, <2>1, <3>1, <3>2, <3>3, CloserOnce
    <2>. QED
      BY <2>2, <2>3
  <1>. QED
    BY <1>1, <1>2, <1>3, <1>4, <1>5 DEF SomeStep

LEMMA VirtualOnce ==
    ASSUME TradeInv, OnceInv, NEW c \in Closers, VirtualStep(c) PROVE OnceInv'
  <1>0. /\ pc \in [Closers -> Pcs] /\ todo \in [Closers -> SUBSET Ids]
        /\ snap = [d \in Closers |-> snap[d]]
        /\ Effect(c)
    BY VirtualEffect DEF TradeInv, SaleInv, Shape
  <1>1. CASE VirtualRead(c)
    <2>1. /\ Elsewhere(c) /\ UNCHANGED <<book, sold, contested>> /\ Unwritten(c) = {}
          /\ snap'[c] = Snapshot(ActiveAmong(Virtual))
      BY <1>0, <1>1 DEF VirtualRead, Goto, Elsewhere, Unwritten, exchange, history
    <2>2. \A o \in Real : o \notin InHand(c)'
      BY <2>1 DEF InHand, SeenAs, Snapshot, ActiveAmong, Absent, Real
    <2>. QED
      BY <2>1, <2>2, ReadOnce
  <1>2. ASSUME NEW o \in Ids, VirtualWrite(c, o) PROVE OnceInv'
    <2>1. /\ pc[c] = "virtual" /\ Unwritten(c) = {}
          /\ UNCHANGED <<sold, openPc, stale, contested>>
      BY <1>2 DEF VirtualWrite, Unwritten, exchange, opener, history
    <2>2. CASE Return(c) /\ UNCHANGED book
      BY <2>1, <2>2, ReturnOnce
    <2>3. CASE ~(Return(c) /\ UNCHANGED book)
      <3>1. UNCHANGED <<snap, pc>> /\ Elsewhere(c)
        BY <1>0, <1>2, <2>3 DEF VirtualWrite, Done, Elsewhere
      <3>2. InHand(c)' = InHand(c) /\ MaySell(c)' = {}
        BY <2>1, <3>1 DEF InHand, MaySell, SeenAs
      <3>. QED
        BY <1>0, <2>1, <3>1, <3>2, CloserOnce
    <2>. QED
      BY <2>2, <2>3
  <1>. QED
    BY <1>1, <1>2 DEF VirtualStep

LEMMA OpenerOnce ==
    ASSUME TradeInv, OnceInv, NEW p \in Ids, OpenerStep(p) \/ RefreshWrite(p)
    PROVE  OnceInv'
  <1>1. UNCHANGED <<sold, pc, snap, todo, cur>> /\ contested \subseteq contested'
    BY DEF OpenerStep, Create, OpenStart, OpenBuy, OpenRecord, OpenAdjust, RefreshWrite,
           exchange, closer, history, Reopens, Contests
  <1>2. book' = book \/ \E order : book' = [book EXCEPT ![p] = order]
    BY DEF OpenerStep, Create, OpenStart, OpenBuy, OpenRecord, OpenAdjust, RefreshWrite,
           SetOrder
  <1>3. \A o \in Ids \ {p} : book'[o] = book[o]
    BY <1>2 DEF TradeInv, SaleInv, Shape
  <1>4. ASSUME p \in Real \ contested', book'[p].status = "OPENED"
        PROVE  book[p].status = "OPENED" \/ sold[p] = 0
    <2>1. CASE OpenAdjust(p) \/ RefreshWrite(p)
      BY <1>4, <2>1 DEF OpenAdjust, RefreshWrite, Reopens, Contests
    <2>2. CASE OpenRecord(p)
      BY <2>2 DEF OpenRecord, TradeInv, FreshInv
    <2>3. CASE Create(p) \/ OpenStart(p) \/ OpenBuy(p)
      BY <1>4, <2>3 DEF Create, OpenStart, OpenBuy, SetOrder, Real, TradeInv, SaleInv, Shape
    <2>. QED
      BY <2>1, <2>2, <2>3 DEF OpenerStep
  <1>. QED
    BY <1>1, <1>3, <1>4, OthersOnce DEF Real

\* However many handlers close the orders of a symbol, its coins are sold once unless the
\* order is contested: for any number of orders and handlers, under every hazard, with
\* openings and refreshes at any moment.
THEOREM CoinsAreSoldOnce == Spec => []SoldOnce
  <1>1. Init => OnceInv
    <2>. SUFFICES ASSUME Init PROVE OnceInv
      OBVIOUS
    <2>1. \A c \in Closers : InHand(c) = {}
      BY DEF Init, InHand, SeenAs, Absent
    <2>2. \A c \in Closers : MaySell(c) = {}
      BY <2>1 DEF MaySell
    <2>3. \A o \in Ids : sold[o] = 0
      BY DEF Init
    <2>. QED
      BY <2>1, <2>2, <2>3 DEF OnceInv, OneHand, Real
  <1>2. TradeInv /\ OnceInv /\ [Next]_vars => OnceInv'
    <2>. SUFFICES ASSUME TradeInv, OnceInv, [Next]_vars PROVE OnceInv'
      OBVIOUS
    <2>1. ASSUME NEW c \in Closers, CloserStep(c) PROVE OnceInv'
      <3>1. CASE Refused(c) \/ Finish(c)
        <4>1. Unwritten(c) = {}
          BY <3>1 DEF Refused, Finish, Unwritten
        <4>. QED
          BY <3>1, <4>1, ReturnOnce DEF Refused, Finish, exchange, opener, history
      <3>2. CASE Restart(c)
        BY <3>2, ReturnOnce DEF Restart, Contests, exchange, opener
      <3>. QED
        BY <2>1, <3>1, <3>2, AllOnce, SomeOnce, VirtualOnce DEF CloserStep
    <2>2. CASE RefreshRead \/ Withdraw \/ UNCHANGED vars
      <3>1. UNCHANGED <<book, sold, pc, snap, todo, cur, contested>>
        BY <2>2 DEF RefreshRead, Withdraw, vars, exchange, closer, history
      <3>. QED
        BY <3>1, OthersOnce
    <2>. QED
      BY <2>1, <2>2, OpenerOnce DEF Next
  <1>3. OnceInv => SoldOnce
    BY DEF OnceInv, SoldOnce
  <1>. QED
    BY <1>1, <1>2, <1>3, TradeInit, TradeStep, PTL DEF Spec

-----------------------------------------------------------------------------
(* Types *)

\* The order a loop is at.
CurKnown ==
    \A c \in Closers : pc[c] \in {"real", "sellOne", "closeOne", "priceOne"} => cur[c] \in Ids

TypeInv == TypeOK /\ CurKnown

\* Volumes are added up to a natural number.
LEMMA VolumeType ==
    ASSUME NEW orders \in [Ids -> Orders], NEW ids \in SUBSET Ids
    PROVE  Volume(orders, ids) \in Nat
  <1> DEFINE f == [o \in Ids |-> orders[o].volume]
  <1>1. IsFiniteSet(ids)
    BY CloseOrderAssumption, FS_Subset
  <1>2. \A o \in ids : f[o] \in Nat
    BY DEF Orders
  <1>. HIDE DEF f
  <1>3. SumFunctionOnSet(f, ids) \in Nat
    BY <1>1, <1>2, SumType
  <1>. QED
    BY <1>3 DEF f, Volume

\* ... and so are the volumes a sale leaves in the orders.
LEMMA AmountType ==
    ASSUME TypeOK, NEW c \in Closers
    PROVE  /\ SeenVolume(c) \in Nat
           /\ AllAmount(c) \in Nat
           /\ \A o \in Ids : AllVolume(c, o) \in Nat
  <1>1. SeenVolume(c) \in Nat
    <2>1. snap[c] \in [Ids -> Orders] /\ SeenAs(c, "OPENED") \in SUBSET Ids
      BY DEF TypeOK, SeenAs
    <2>. QED
      BY <2>1, VolumeType DEF SeenVolume
  <1>2. bal[c] \in Nat
    BY DEF TypeOK
  <1>3. AllAmount(c) \in Nat
    BY <1>1, <1>2 DEF AllAmount, Least
  <1>4. ASSUME NEW o \in Ids PROVE AllVolume(c, o) \in Nat
    <2>1. snap[c][o].volume \in Nat
      BY DEF TypeOK, Orders
    <2>2. snap[c][o].volume * bal[c] \in Nat
      BY <1>2, <2>1
    <2>3. ASSUME NEW x \in Nat, NEW y \in Nat, y > 0 PROVE x \div y \in Nat
      BY <2>3
    <2>4. CASE SeenVolume(c) > bal[c]
      <3>1. SeenVolume(c) > 0
        BY <1>1, <1>2, <2>4
      <3>. QED
        BY <1>1, <2>2, <2>3, <2>4, <3>1 DEF AllVolume
    <2>5. CASE ~(SeenVolume(c) > bal[c])
      BY <2>1, <2>5 DEF AllVolume
    <2>. QED
      BY <2>4, <2>5
  <1>. QED
    BY <1>1, <1>3, <1>4

LEMMA AbsentType == Absent \in Orders
  BY DEF Absent, Orders, Status

LEMMA SnapshotType ==
    ASSUME TypeOK, NEW ids
    PROVE  Snapshot(ids) \in [Ids -> Orders]
  BY AbsentType DEF TypeOK, Snapshot

\* What is remembered are orders.
Remembered == waited \subseteq Ids /\ contested \subseteq Ids

LEMMA HistoryType ==
    ASSUME TypeInv, [Next]_vars PROVE Remembered'
  <1>0. Remembered
    BY DEF TypeInv, TypeOK, Remembered
  <1>1. ASSUME NEW c \in Closers, CloserStep(c) PROVE Remembered'
    <2>1. SeenAs(c, "OPENED") \subseteq Ids /\ Unwritten(c) \subseteq Ids
      BY DEF SeenAs, Unwritten, InHand
    <2>2. ActiveAmong(Real) \subseteq Ids
      BY DEF ActiveAmong, Real
    <2>3. CASE AllStep(c)
      <3>1. CASE AllRead(c)
        BY <1>0, <2>2, <3>1 DEF AllRead, Shares, Contests, Remembered
      <3>2. CASE AllReread(c)
        BY <1>0, <2>2, <3>2 DEF AllReread, Shares, Contests, Remembered, history
      <3>3. CASE AllBalance(c) \/ AllNext(c) \/ AllReadWaiting(c)
        BY <1>0, <3>3 DEF AllBalance, AllNext, AllReadWaiting, Remembered, history
      <3>4. CASE AllSell(c)
        BY <1>0, <2>1, <3>4 DEF AllSell, Contests, Remembered
      <3>5. ASSUME NEW o \in Ids, CancelWaiting(c, o) PROVE Remembered'
        BY <1>0, <3>5 DEF CancelWaiting, Remembered, history
      <3>6. ASSUME NEW o \in Ids, AllWrite(c, o) PROVE Remembered'
        BY <1>0, <2>1, <3>6 DEF AllWrite, Contests, Remembered
      <3>. QED
        BY <2>3, <3>1, <3>2, <3>3, <3>4, <3>5, <3>6 DEF AllStep
    <2>4. CASE SomeStep(c)
      <3>1. CASE SomeRead(c)
        BY <1>0, <3>1 DEF SomeRead, ActiveAmong, Shares, Contests, Remembered
      <3>2. CASE SomeBalance(c) \/ SomeCheck(c) \/ SomeRefused(c)
        BY <1>0, <3>2 DEF SomeBalance, SomeCheck, SomeRefused, Remembered, history
      <3>3. CASE SomeSell(c)
        <4>1. cur[c] \in Ids
          BY <3>3 DEF SomeSell, TypeInv, CurKnown
        <4>. QED
          BY <1>0, <3>3, <4>1 DEF SomeSell, Contests, Remembered
      <3>4. CASE SomeWrite(c)
        BY <1>0, <2>1, <3>4 DEF SomeWrite, Contests, Remembered
      <3>5. ASSUME NEW o \in Ids, SomeCancel(c, o) \/ SomeTake(c, o) PROVE Remembered'
        BY <1>0, <3>5 DEF SomeCancel, SomeTake, Remembered, history
      <3>. QED
        BY <2>4, <3>1, <3>2, <3>3, <3>4, <3>5 DEF SomeStep
    <2>5. CASE VirtualStep(c) \/ Refused(c) \/ Finish(c)
      BY <1>0, <2>5 DEF VirtualStep, VirtualRead, VirtualWrite, Refused, Finish, Remembered,
                        history
    <2>6. CASE Restart(c)
      BY <1>0, <2>1, <2>6 DEF Restart, Contests, Remembered
    <2>. QED
      BY <1>1, <2>3, <2>4, <2>5, <2>6 DEF CloserStep
  <1>2. ASSUME NEW o \in Ids, OpenerStep(o) PROVE Remembered'
    BY <1>0, <1>2 DEF OpenerStep, Create, OpenStart, OpenBuy, OpenRecord, OpenAdjust,
                      Reopens, Contests, Remembered, history
  <1>3. ASSUME NEW o \in Ids, RefreshWrite(o) PROVE Remembered'
    BY <1>0, <1>3 DEF RefreshWrite, Reopens, Contests, Remembered
  <1>4. CASE RefreshRead \/ Withdraw \/ UNCHANGED vars
    BY <1>0, <1>4 DEF RefreshRead, Withdraw, Remembered, history, vars
  <1>. QED
    BY <1>1, <1>2, <1>3, <1>4 DEF Next

\* Leaving a job keeps the types.
LEMMA ReturnType ==
    ASSUME TypeInv, NEW c \in Closers, Return(c),
           UNCHANGED <<book, exchange, opener, stale>>, Remembered'
    PROVE  TypeInv'
  <1>1. [o \in Ids |-> Absent] \in [Ids -> Orders]
    BY AbsentType
  <1>. QED
    BY <1>1 DEF TypeInv, TypeOK, CurKnown, Remembered, Return, Goto, Pcs, exchange, opener

\* Writing an order keeps them, wherever the handler goes on.
LEMMA WriteType ==
    ASSUME TypeInv, NEW o \in Ids, NEW status \in Status, NEW volume \in Nat,
           SetOrder(o, status, volume)
    PROVE  book' \in [Ids -> Orders]
  <1>1. [status |-> status, volume |-> volume] \in Orders
    BY DEF Orders
  <1>. QED
    BY <1>1 DEF TypeInv, TypeOK, SetOrder

LEMMA AllType ==
    ASSUME TypeInv, NEW c \in Closers, AllStep(c), Remembered' PROVE TypeInv'
  <1>1. CASE AllRead(c)
    <2>1. Snapshot(ActiveAmong(Real)) \in [Ids -> Orders]
      BY SnapshotType DEF TypeInv
    <2>2. {o \in ActiveAmong(Real) : book[o].status = "WAIT_OPEN"} \in SUBSET Ids
      BY DEF ActiveAmong, Real
    <2>. QED
      BY <1>1, <2>1, <2>2
      DEF AllRead, TypeInv, TypeOK, CurKnown, Remembered, Goto, Pcs, exchange, opener
  <1>2. CASE AllReread(c)
    <2>1. Snapshot(ActiveAmong(Real)) \in [Ids -> Orders]
      BY SnapshotType DEF TypeInv
    <2>2. CASE Return(c)
      BY <1>2, <2>2, ReturnType DEF AllReread
    <2>3. CASE ~Return(c)
      BY <1>2, <2>1, <2>3
      DEF AllReread, TypeInv, TypeOK, CurKnown, Remembered, Goto, Pcs, exchange, opener
    <2>. QED
      BY <2>2, <2>3
  <1>3. CASE AllBalance(c)
    <2>1. CASE Return(c)
      BY <1>3, <2>1, ReturnType DEF AllBalance
    <2>2. CASE ~Return(c)
      BY <1>3, <2>2
      DEF AllBalance, TypeInv, TypeOK, CurKnown, Remembered, Goto, Pcs, exchange, opener
    <2>. QED
      BY <2>1, <2>2
  <1>4. CASE AllSell(c)
    <2>1. free' \in Nat
      BY <1>4, AmountType DEF AllSell, TypeInv, TypeOK
    <2>2. sold' \in [Ids -> Nat]
      BY <1>4 DEF AllSell, TypeInv, TypeOK
    <2>3. Seen(c) \in SUBSET Ids /\ [o \in Ids |-> Absent] \in [Ids -> Orders]
      BY AbsentType DEF Seen
    <2>4. CASE Return(c)
      BY <1>4, <2>1, <2>2, <2>3, <2>4
      DEF AllSell, TypeInv, TypeOK, CurKnown, Remembered, Return, Goto, Pcs, opener
    <2>5. CASE ~Return(c)
      BY <1>4, <2>1, <2>2, <2>3, <2>5
      DEF AllSell, TypeInv, TypeOK, CurKnown, Remembered, Goto, Pcs, opener
    <2>. QED
      BY <2>4, <2>5
  <1>5. CASE AllNext(c)
    <2>1. Seen(c) \in SUBSET Ids
      BY DEF Seen
    <2>. QED
      BY <1>5, <2>1 DEF AllNext, TypeInv, TypeOK, CurKnown, Remembered, Goto, Pcs, exchange, opener
  <1>6. CASE AllReadWaiting(c)
    <2> DEFINE waiting == {o \in Real : book[o].status = "WAIT_OPEN"}
    <2>1. Snapshot(waiting) \in [Ids -> Orders] /\ waiting \in SUBSET Ids
      BY SnapshotType DEF TypeInv, Real
    <2>. QED
      BY <1>6, <2>1
      DEF AllReadWaiting, TypeInv, TypeOK, CurKnown, Remembered, Goto, Pcs, exchange, opener
  <1>7. ASSUME NEW o \in Ids, CancelWaiting(c, o) PROVE TypeInv'
    <2>1. CASE Return(c) /\ UNCHANGED book
      BY <1>7, <2>1, ReturnType DEF CancelWaiting
    <2>2. CASE SetOrder(o, "CANCELLED", snap[c][o].volume) /\ Done(c, o)
               /\ UNCHANGED <<pc, snap, cur, bal>>
      <3>1. snap[c][o].volume \in Nat
        BY DEF TypeInv, TypeOK, Orders
      <3>2. book' \in [Ids -> Orders]
        BY <2>2, <3>1, WriteType DEF Status
      <3>. QED
        BY <1>7, <2>2, <3>2 DEF CancelWaiting, TypeInv, TypeOK, CurKnown, Remembered, Done, exchange, opener
    <2>. QED
      BY <1>7, <2>1, <2>2 DEF CancelWaiting
  <1>8. ASSUME NEW o \in Ids, AllWrite(c, o) PROVE TypeInv'
    <2>1. AllVolume(c, o) \in Nat
      BY AmountType DEF TypeInv
    <2>2. SetOrder(o, "CLOSED", AllVolume(c, o)) \/ UNCHANGED book
      BY <1>8 DEF AllWrite
    <2>3. book' \in [Ids -> Orders]
      BY <2>1, <2>2, WriteType DEF Status, TypeInv, TypeOK
    <2>. QED
      BY <1>8, <2>3 DEF AllWrite, TypeInv, TypeOK, CurKnown, Remembered, Done, exchange, opener
  <1>. QED
    BY <1>1, <1>2, <1>3, <1>4, <1>5, <1>6, <1>7, <1>8 DEF AllStep

LEMMA SomeType ==
    ASSUME TypeInv, NEW c \in Closers, SomeStep(c), Remembered' PROVE TypeInv'
  <1>1. CASE SomeRead(c)
    <2>1. PICK orders : /\ orders \in SUBSET Ids
                        /\ snap' = [snap EXCEPT ![c] = Snapshot(orders)]
                        /\ todo' = [todo EXCEPT ![c] = orders]
      BY <1>1 DEF SomeRead, ActiveAmong
    <2>2. Snapshot(orders) \in [Ids -> Orders]
      BY SnapshotType DEF TypeInv
    <2>. QED
      BY <1>1, <2>1, <2>2
      DEF SomeRead, TypeInv, TypeOK, CurKnown, Remembered, Goto, Pcs, exchange, opener
  <1>2. CASE SomeBalance(c)
    <2>1. CASE Return(c)
      BY <1>2, <2>1, ReturnType DEF SomeBalance
    <2>2. CASE ~Return(c)
      BY <1>2, <2>2
      DEF SomeBalance, TypeInv, TypeOK, CurKnown, Remembered, Goto, Pcs, exchange, opener
    <2>. QED
      BY <2>1, <2>2
  <1>3. CASE SomeCheck(c)
    <2>1. CASE Return(c)
      BY <1>3, <2>1, ReturnType DEF SomeCheck
    <2>2. CASE ~Return(c)
      <3>1. UNCHANGED <<book, exchange, opener, snap, todo, cur, bal, stale>>
        BY <1>3, <2>2 DEF SomeCheck
      <3>2. pc[c] = "real" /\ (Goto(c, "some") \/ Goto(c, "sellOne"))
        BY <1>3, <2>2 DEF SomeCheck
      <3>. QED
        BY <3>1, <3>2 DEF TypeInv, TypeOK, CurKnown, Remembered, Goto, Pcs, exchange, opener
    <2>. QED
      BY <2>1, <2>2
  <1>4. CASE SomeSell(c)
    <2>1. cur[c] \in Ids
      BY <1>4 DEF SomeSell, TypeInv, CurKnown
    <2>2. snap[c][cur[c]].volume \in Nat
      BY <2>1 DEF TypeInv, TypeOK, Orders
    <2>3. free' \in Nat
      BY <1>4, <2>2 DEF SomeSell, TypeInv, TypeOK
    <2>4. sold' \in [Ids -> Nat]
      BY <1>4, <2>1 DEF SomeSell, TypeInv, TypeOK
    <2>5. Goto(c, "closeOne") \/ Goto(c, "some")
      BY <1>4 DEF SomeSell
    <2>. QED
      BY <1>4, <2>1, <2>3, <2>4, <2>5 DEF SomeSell, TypeInv, TypeOK, CurKnown, Remembered, Goto, Pcs, opener
  <1>5. CASE SomeRefused(c)
    BY <1>5 DEF SomeRefused, TypeInv, TypeOK, CurKnown, Remembered, Goto, Pcs, exchange, opener
  <1>6. CASE SomeWrite(c)
    <2>1. cur[c] \in Ids
      BY <1>6 DEF SomeWrite, TypeInv, CurKnown
    <2>2. snap[c][cur[c]].volume \in Nat
      BY <2>1 DEF TypeInv, TypeOK, Orders
    <2>3. SetOrder(cur[c], "CLOSED", snap[c][cur[c]].volume) \/ UNCHANGED book
      BY <1>6 DEF SomeWrite
    <2>4. book' \in [Ids -> Orders]
      BY <2>1, <2>2, <2>3, WriteType DEF Status, TypeInv, TypeOK
    <2>5. Goto(c, "priceOne") \/ Goto(c, "some")
      BY <1>6 DEF SomeWrite
    <2>. QED
      BY <1>6, <2>1, <2>4, <2>5 DEF SomeWrite, TypeInv, TypeOK, CurKnown, Remembered, Goto, Pcs, exchange, opener
  <1>7. ASSUME NEW o \in Ids, SomeCancel(c, o) PROVE TypeInv'
    <2>1. CASE Return(c) /\ UNCHANGED book
      BY <1>7, <2>1, ReturnType DEF SomeCancel
    <2>2. CASE SetOrder(o, "CANCELLED", snap[c][o].volume) /\ Done(c, o)
               /\ UNCHANGED <<pc, snap, cur, bal>>
      <3>1. snap[c][o].volume \in Nat
        BY DEF TypeInv, TypeOK, Orders
      <3>2. book' \in [Ids -> Orders]
        BY <2>2, <3>1, WriteType DEF Status
      <3>. QED
        BY <1>7, <2>2, <3>2 DEF SomeCancel, TypeInv, TypeOK, CurKnown, Remembered, Done, exchange, opener
    <2>. QED
      BY <1>7, <2>1, <2>2 DEF SomeCancel
  <1>8. ASSUME NEW o \in Ids, SomeTake(c, o) PROVE TypeInv'
    <2>1. CASE Return(c) /\ UNCHANGED book
      BY <1>8, <2>1, ReturnType DEF SomeTake
    <2>2. CASE ~(Return(c) /\ UNCHANGED book)
      <3>1. snap[c][o].volume \in Nat
        BY DEF TypeInv, TypeOK, Orders
      <3>2. SetOrder(o, "CLOSED", snap[c][o].volume) \/ UNCHANGED book
        BY <1>8 DEF SomeTake
      <3>3. book' \in [Ids -> Orders]
        BY <3>1, <3>2, WriteType DEF Status, TypeInv, TypeOK
      <3>4. /\ cur' = [cur EXCEPT ![c] = o]
            /\ todo' = [todo EXCEPT ![c] = @ \ {o}]
            /\ pc' = [pc EXCEPT ![c] = "real"]
            /\ UNCHANGED <<free, sold, openPc, before, snap, bal, stale>>
        BY <1>8, <2>2 DEF SomeTake, Done, Goto, exchange, opener
      <3>. QED
        BY <3>3, <3>4 DEF TypeInv, TypeOK, CurKnown, Remembered, Pcs
    <2>. QED
      BY <2>1, <2>2
  <1>. QED
    BY <1>1, <1>2, <1>3, <1>4, <1>5, <1>6, <1>7, <1>8 DEF SomeStep

LEMMA VirtualType ==
    ASSUME TypeInv, NEW c \in Closers, VirtualStep(c), Remembered' PROVE TypeInv'
  <1>1. CASE VirtualRead(c)
    <2>1. /\ Snapshot(ActiveAmong(Virtual)) \in [Ids -> Orders]
          /\ ActiveAmong(Virtual) \in SUBSET Ids
      BY SnapshotType, CloseOrderAssumption DEF TypeInv, ActiveAmong
    <2>. QED
      BY <1>1, <2>1
      DEF VirtualRead, TypeInv, TypeOK, CurKnown, Remembered, Goto, Pcs, exchange, opener
  <1>2. ASSUME NEW o \in Ids, VirtualWrite(c, o) PROVE TypeInv'
    <2>1. CASE Return(c) /\ UNCHANGED book
      BY <1>2, <2>1, ReturnType DEF VirtualWrite
    <2>2. CASE ~(Return(c) /\ UNCHANGED book)
      <3>1. snap[c][o].volume \in Nat
        BY DEF TypeInv, TypeOK, Orders
      <3>2. \E status \in {"CANCELLED", "CLOSED"} : SetOrder(o, status, snap[c][o].volume)
        BY <1>2, <2>2 DEF VirtualWrite
      <3>3. book' \in [Ids -> Orders]
        BY <3>1, <3>2, WriteType DEF Status
      <3>. QED
        BY <1>2, <2>2, <3>3
        DEF VirtualWrite, TypeInv, TypeOK, CurKnown, Remembered, Done, exchange, opener
    <2>. QED
      BY <2>1, <2>2
  <1>. QED
    BY <1>1, <1>2 DEF VirtualStep

LEMMA OpenerType ==
    ASSUME TypeInv, NEW o \in Ids, OpenerStep(o), Remembered' PROVE TypeInv'
  <1>0. Lot \in Nat /\ BuyFee \in Nat /\ BuyFee < Lot
    BY CloseOrderAssumption
  <1>1. UNCHANGED <<sold, pc, snap, todo, cur, bal, stale>>
    BY DEF OpenerStep, Create, OpenStart, OpenBuy, OpenRecord, OpenAdjust, exchange, closer
  <1>2. free' \in Nat
    BY <1>0 DEF OpenerStep, Create, OpenStart, OpenBuy, OpenRecord, OpenAdjust, exchange,
        TypeInv, TypeOK
  <1>3. openPc' \in [Ids -> OpenPcs]
    BY DEF OpenerStep, Create, OpenStart, OpenBuy, OpenRecord, OpenAdjust, OpenPcs,
        TypeInv, TypeOK
  <1>4. before' \in [Ids -> Nat]
    BY DEF OpenerStep, Create, OpenStart, OpenBuy, OpenRecord, OpenAdjust,
        TypeInv, TypeOK
  <1>5. book' \in [Ids -> Orders]
    <2>1. \/ UNCHANGED book
          \/ \E status \in {"WAIT_OPEN", "OPENED"} : SetOrder(o, status, Lot)
          \/ free > before[o] /\ SetOrder(o, "OPENED", free - before[o])
          \/ SetOrder(o, "OPENED", (Lot * 998) \div 1000)
      BY DEF OpenerStep, Create, OpenStart, OpenBuy, OpenRecord, OpenAdjust
    <2>2. (Lot * 998) \div 1000 \in Nat
      BY <1>0
    <2>3. free > before[o] => free - before[o] \in Nat
      BY DEF TypeInv, TypeOK
    <2>. QED
      BY <1>0, <2>1, <2>2, <2>3, WriteType DEF Status, TypeInv, TypeOK
  <1>. QED
    BY <1>1, <1>2, <1>3, <1>4, <1>5 DEF TypeInv, TypeOK, CurKnown, Remembered

LEMMA TypeInvariant == Spec => []TypeInv
  <1>1. Init => TypeInv
    BY AbsentType DEF Init, TypeInv, TypeOK, CurKnown, Remembered, OpenPcs, Pcs
  <1>2. TypeInv /\ [Next]_vars => TypeInv'
    <2>. SUFFICES ASSUME TypeInv, [Next]_vars PROVE TypeInv'
      OBVIOUS
    <2>0. Remembered'
      BY HistoryType
    <2>1. ASSUME NEW c \in Closers, CloserStep(c) PROVE TypeInv'
      <3>1. CASE Refused(c) \/ Finish(c) \/ Restart(c)
        BY <2>0, <3>1, ReturnType DEF Refused, Finish, Restart
      <3>. QED
        BY <2>0, <2>1, <3>1, AllType, SomeType, VirtualType DEF CloserStep
    <2>2. ASSUME NEW o \in Ids, RefreshWrite(o) PROVE TypeInv'
      <3>1. stale[o] \in Orders /\ Absent \in Orders
        BY AbsentType DEF TypeInv, TypeOK
      <3>. QED
        BY <2>0, <2>2, <3>1 DEF RefreshWrite, TypeInv, TypeOK, CurKnown, Remembered, exchange, opener, closer
    <2>3. CASE RefreshRead
      <3>1. Snapshot(ActiveAmong(Ids)) \in [Ids -> Orders]
        BY SnapshotType DEF TypeInv
      <3>. QED
        BY <2>0, <2>3, <3>1 DEF RefreshRead, TypeInv, TypeOK, CurKnown, Remembered, exchange, opener, closer
    <2>4. CASE Withdraw
      <3>1. free' \in Nat
        BY <2>4, CloseOrderAssumption DEF Withdraw, TypeInv, TypeOK
      <3>. QED
        BY <2>0, <2>4, <3>1 DEF Withdraw, TypeInv, TypeOK, CurKnown, Remembered, opener, closer
    <2>5. CASE UNCHANGED vars
      BY <2>0, <2>5 DEF vars, exchange, opener, closer, TypeInv, TypeOK, CurKnown, Remembered
    <2>. QED
      BY <2>0, <2>1, <2>2, <2>3, <2>4, <2>5, OpenerType DEF Next
  <1>. QED
    BY <1>1, <1>2, PTL DEF Spec

\* Every volume, balance and count is a natural number, whatever the environment does:
\* no sale takes more than the wallet has, no division is by zero.
THEOREM TypeCorrect == Spec => []TypeOK
  <1>1. TypeInv => TypeOK
    BY DEF TypeInv
  <1>. QED
    BY <1>1, TypeInvariant, PTL

-----------------------------------------------------------------------------
(* The rules that send the jobs *)

NamedApart(jobs) == \A j, k \in jobs : j.orders \intersect k.orders # {} => j = k

-----------------------------------------------------------------------------
(***************************************************************************)
(* One more rule (the filter over the signals, signal.service.ts:669).     *)
(***************************************************************************)

\* A rule that leaves out what is named already keeps the jobs apart.
LEMMA WithCloseApart ==
    ASSUME NEW jobs, NEW orders, NamedApart(jobs)
    PROVE  NamedApart(WithClose(jobs, orders))
<1> DEFINE new == [type |-> "CLOSE", orders |-> orders \ Named(jobs)]
<1>1. \A j \in jobs : j.orders \subseteq Named(jobs)
  BY DEF Named
<1>2. \A j \in jobs : j.orders \intersect new.orders = {}
  BY <1>1
<1> QED BY <1>2 DEF NamedApart, WithClose

\* Then the jobs name what they named before and what the rule is about.
LEMMA WithCloseNamed ==
    ASSUME NEW jobs, NEW orders
    PROVE  Named(WithClose(jobs, orders)) = Named(jobs) \union orders
<1> DEFINE new == [type |-> "CLOSE", orders |-> orders \ Named(jobs)]
<1>1. CASE orders \subseteq Named(jobs)
  BY <1>1 DEF WithClose
<1>2. CASE ~(orders \subseteq Named(jobs))
  <2>1. WithClose(jobs, orders) = jobs \union {new}
    BY <1>2 DEF WithClose
  <2>2. Named(jobs \union {new}) = Named(jobs) \union new.orders
    BY DEF Named
  <2> QED BY <2>1, <2>2
<1> QED BY <1>1, <1>2

\* A rule that names orders is none that closes all.
LEMMA WithCloseNamesOnly ==
    ASSUME NEW jobs, NEW orders, CloseAll \notin jobs
    PROVE  CloseAll \notin WithClose(jobs, orders)
<1> QED BY DEF WithClose, CloseAll

\* CLOSE_ALL names no order.
LEMMA WithCloseAllApart ==
    ASSUME NEW jobs, NamedApart(jobs)
    PROVE  NamedApart(jobs \union {CloseAll})
<1> QED BY DEF NamedApart, CloseAll

-----------------------------------------------------------------------------
\* No order is in two CLOSE jobs of one check, whatever rules meet.
THEOREM EachNamedOnce == \A c, sl : NamedOnce(c, sl)
<1> SUFFICES ASSUME NEW c, NEW sl PROVE NamedApart(CloseJobs(c, sl))
  BY DEF NamedOnce, NamedApart
<1> DEFINE stops == WithClose({}, OrderStops(c))
           macd  == WithClose(stops, MacdClose(c))
           risen == WithClose(macd, RisenOrders(c))
           named == WithClose(risen, AveragingOrders(c))
<1>1. NamedApart({}) /\ NamedApart({CloseAll})
  BY DEF NamedApart
<1>2. NamedApart(stops) /\ NamedApart(macd) /\ NamedApart(risen) /\ NamedApart(named)
  <2>1. NamedApart(stops) BY <1>1, WithCloseApart
  <2>2. NamedApart(macd)  BY <2>1, WithCloseApart
  <2>3. NamedApart(risen) BY <2>2, WithCloseApart
  <2>4. NamedApart(named) BY <2>3, WithCloseApart
  <2> QED BY <2>1, <2>2, <2>3, <2>4
<1>3. /\ NamedApart(stops \union {CloseAll}) /\ NamedApart(named \union {CloseAll})
      /\ NamedApart(WithClose(named, ProfitOrders(c)))
  BY <1>2, WithCloseAllApart, WithCloseApart
<1>4. CloseJobs(c, sl) \in {{CloseAll}, stops \union {CloseAll}, named \union {CloseAll},
                            WithClose(named, ProfitOrders(c))}
  BY DEF CloseJobs
<1> QED BY <1>1, <1>3, <1>4

-----------------------------------------------------------------------------
(***************************************************************************)
(* The rules of CUPO.                                                      *)
(***************************************************************************)
LEMMA CupoParts ==
    ASSUME NEW c
    PROVE  /\ RisenOrders(c) \subseteq InProfit(c)
           /\ AveragingOrders(c) \subseteq InProfit(c)
           /\ ProfitOrders(c) \subseteq InProfit(c)
           /\ InProfit(c) \subseteq c.orders
           /\ GroupTakesProfit(c) => c.orders \subseteq InProfit(c)
<1>1. RisenOrders(c) \subseteq InProfit(c)
  BY DEF RisenOrders
<1>2. AveragingOrders(c) \subseteq InProfit(c)
  BY DEF AveragingOrders
<1>3. ProfitOrders(c) \subseteq InProfit(c)
  BY DEF ProfitOrders
<1>4. GroupTakesProfit(c) => c.orders \subseteq InProfit(c)
  BY DEF GroupTakesProfit, InProfit
<1> QED BY <1>1, <1>2, <1>3, <1>4 DEF InProfit

\* The chain of rules with its early returns closes what CupoCloses declares.
THEOREM CupoIsAsDeclared == \A c, sl : CupoAsDeclared(c, sl)
<1> SUFFICES ASSUME NEW c, NEW sl, ByCupoAlone(c, sl)
             PROVE  Closed(c, CloseJobs(c, sl)) = CupoCloses(c)
  BY DEF CupoAsDeclared
<1> DEFINE risen == WithClose({}, RisenOrders(c))
           named == WithClose(risen, AveragingOrders(c))
<1>1. OrderStops(c) = {} /\ MacdClose(c) = {}
  BY DEF ByCupoAlone, OrderStops, MacdClose, Pax
<1>2. WithClose({}, {}) = {}
  BY DEF WithClose
<1>3. Named({}) = {}
  BY DEF Named
<1>4. Named(named) = RisenOrders(c) \union AveragingOrders(c)
  BY <1>3, WithCloseNamed
<1>5. CloseAll \notin WithClose(named, ProfitOrders(c))
  <2>1. CloseAll \notin risen BY WithCloseNamesOnly
  <2>2. CloseAll \notin named BY <2>1, WithCloseNamesOnly
  <2> QED BY <2>2, WithCloseNamesOnly
<1>6. CloseJobs(c, sl) = IF GroupTakesProfit(c) /\ ~(c.orders \subseteq Named(named))
                         THEN named \union {CloseAll}
                         ELSE WithClose(named, ProfitOrders(c))
  BY <1>1, <1>2 DEF ByCupoAlone, CloseJobs
<1>7. CASE GroupTakesProfit(c) /\ ~(c.orders \subseteq Named(named))
  BY <1>6, <1>7 DEF Closed, CupoCloses
<1>8. CASE ~(GroupTakesProfit(c) /\ ~(c.orders \subseteq Named(named)))
  <2>1. Closed(c, CloseJobs(c, sl))
          = RisenOrders(c) \union AveragingOrders(c) \union ProfitOrders(c)
    <3>1. Closed(c, CloseJobs(c, sl)) = Named(WithClose(named, ProfitOrders(c)))
      BY <1>5, <1>6, <1>8 DEF Closed
    <3> QED BY <3>1, <1>4, WithCloseNamed
  <2>2. CASE GroupTakesProfit(c)
    <3>1. c.orders \subseteq RisenOrders(c) \union AveragingOrders(c)
      BY <1>4, <1>8, <2>2
    <3> QED BY <2>1, <2>2, <3>1, CupoParts DEF CupoCloses
  <2>3. CASE ~GroupTakesProfit(c)
    BY <2>1, <2>3 DEF CupoCloses
  <2> QED BY <2>2, <2>3
<1> QED BY <1>7, <1>8

\* CUPO closes an order at a loss only because of the symbol as a whole.
THEOREM CupoLosesNothing == \A c, sl : NothingAtALoss(c, sl)
<1> SUFFICES ASSUME NEW c, NEW sl, ByCupoAlone(c, sl)
             PROVE  Closed(c, CloseJobs(c, sl)) \subseteq InProfit(c)
  BY DEF NothingAtALoss
<1>1. Closed(c, CloseJobs(c, sl)) = CupoCloses(c)
  BY CupoIsAsDeclared DEF CupoAsDeclared
<1> QED BY <1>1, CupoParts DEF CupoCloses

\* An order opened at the ask of a check is not closed at the bid of the same price.
THEOREM CupoKeepsWhatItBought ==
    ASSUME NEW c, NEW sl, c.bid \in Nat, c.ask \in Nat, c.bid <= c.ask
    PROVE  BoughtIsKept(c, sl)
<1>1. \A o \in InProfit(c) : 1000 * c.bid > 1005 * o.open
  BY DEF InProfit, Gains
<1>2. ~(1000 * c.bid > 1005 * c.ask)
  OBVIOUS
<1>3. \A o \in InProfit(c) : o.open # c.ask
  BY <1>1, <1>2
<1> QED BY <1>3, CupoLosesNothing DEF NothingAtALoss, BoughtIsKept

-----------------------------------------------------------------------------
\* The stop a check raises is below the profit it has found.
THEOREM TrailingStopIsBelow ==
    ASSUME NEW c, c.profit \in Int, c.stop \in Int, c.p.trailingStep \in Int,
           c.p.trailingTP \in Int, c.p.tpPercent \in Int
    PROVE  TrailingLeavesRoom(c)
<1> SUFFICES ASSUME Trails(c), c.profit > 5
             PROVE  ~(c.profit < SymbolStop(c, ReadStop(c)))
  BY DEF TrailingLeavesRoom, StopReached
<1>1. ReadStop(c) \in Int /\ (ReadStop(c) = 0 \/ ReadStop(c) < c.profit)
  BY DEF Trails, ReadStop
<1>2. TrailedTo(c) \in Int /\ TrailedTo(c) < c.profit
  BY DEF Trails, TrailedTo, Smaller
<1> QED BY <1>1, <1>2 DEF SymbolStop, Larger

-----------------------------------------------------------------------------
\* The cron that closes what is disabled leaves alone what a check may trade in.
THEOREM CheckAndCronAgree == \A u, o, m : AllowedIsNotDisabled(u, o, m)
<1> QED BY DEF AllowedIsNotDisabled, AllowSymbolTrade, Disabled
=============================================================================
