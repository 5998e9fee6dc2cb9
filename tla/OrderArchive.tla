---------------------------- MODULE OrderArchive ----------------------------
(***************************************************************************)
(* Where the orders of ONE user on ONE exchange are kept: the working copy *)
(* in Redis (the book) and the archive in MongoDB.                         *)
(*                                                                         *)
(* Every five seconds a cron of the main trader, and the API after it has  *)
(* closed an order, count the collect jobs of the user and send one when   *)
(* there is none.  A collector (feeder) copies a snapshot of the book into *)
(* the archive, order by order, and then deletes from the book what was    *)
(* finished in the snapshot.  Meanwhile the trader writes whole orders     *)
(* from copies it has read (OpenOrder and CloseOrder have it in full), and *)
(* the user closes, cancels and deletes orders through the API, first in   *)
(* the book, then in the archive.                                          *)
(***************************************************************************)
EXTENDS Naturals, FiniteSets

CONSTANTS
    Ids,        \* orders
    Virtual,    \* the virtual (paper) ones
    Writers,    \* handlers, checks and crons of the trader that may hold a copy
    Collectors, \* COLLECT_ORDERS jobs that may run at the same time
    MaxMishaps, \* how often a collector may die or the senders may race, a bound
    None,       \* no order
    Hazards     \* what the environment may do, see HazardNames

(***************************************************************************)
(* crash   a trader or the API dies in the middle (collectors: MaxMishaps)  *)
(***************************************************************************)
HazardNames == {"crash"}

ASSUME OrderArchiveAssumption ==
    /\ Virtual \subseteq Ids
    /\ MaxMishaps \in Nat
    /\ None \notin Ids
    /\ IsFiniteSet(Collectors)
    /\ Hazards \subseteq HazardNames

VARIABLES
    book,      \* Redis hash of orders: id -> status
    archive,   \* MongoDB collection of orders: id -> status
    deleted,   \* the orders whose isDeleted is set in the archive
    held,      \* the order a writer holds a copy of
    copy,      \* the status in that copy
    jobs,      \* collect jobs waiting in Bull
    cron,      \* the cron has counted no job and is about to add one
    pc,        \* where each collector is
    snap,      \* the orders it has read
    todo,      \* those it has still to copy or to delete
    api,       \* where closeUserOrder() is
    mine,      \* the order it closes, an object it shares with the sale
    mineAs,    \* the status in that object
    sale,      \* the exchange has not answered yet
    removal,   \* the cancel or delete request of the user
    created,   \* history: the orders that were ever written
    removed,   \* history: the orders the user has cancelled or deleted
    contested, \* history: the orders written, removed or collected over another's work
    races,     \* history: how often both senders had counted before they added
    shared,    \* history: the orders two collectors had in their snapshots at once
    crashes    \* how often a collector has died

writer    == <<held, copy>>
collector == <<jobs, cron, pc, snap, todo, crashes>>
closing   == <<api, mine, mineAs, sale>>
stores    == <<book, archive, deleted>>
history   == <<created, removed, contested>>
overlap   == <<races, shared>>
vars      == <<stores, writer, collector, closing, removal, history, overlap>>

Status     == {"ABSENT", "WAIT_OPEN", "OPENED", "CLOSED", "CANCELLED"}
Pcs        == {"idle", "copy", "delete"}
ApiPcs     == {"idle", "volume", "profit", "count", "add"}
Kinds      == {"cancel", "delete", "deleteAll", "deleteVirtual"}
RemovalPcs == {"idle", "book", "archive"}

TypeOK ==
    /\ book \in [Ids -> Status]
    /\ archive \in [Ids -> Status]
    /\ deleted \subseteq Ids
    /\ held \in [Writers -> Ids \union {None}]
    /\ copy \in [Writers -> Status]
    /\ jobs \in Nat
    /\ cron \in BOOLEAN
    /\ pc \in [Collectors -> Pcs]
    /\ snap \in [Collectors -> [Ids -> Status]]
    /\ todo \in [Collectors -> SUBSET Ids]
    /\ api \in ApiPcs
    /\ mine \in Ids \union {None}
    /\ mineAs \in Status
    /\ sale \in BOOLEAN
    /\ removal \in [pc : RemovalPcs, kind : Kinds, ids : SUBSET Ids, todo : SUBSET Ids]
    /\ created \subseteq Ids
    /\ removed \subseteq Ids
    /\ contested \subseteq Ids
    /\ races \in Nat
    /\ shared \subseteq Ids
    /\ crashes \in Nat

----------------------------------------------------------------------------
Finished(status) == status \in {"CLOSED", "CANCELLED"}
Active(status)   == status \in {"WAIT_OPEN", "OPENED"}
Kept(o)          == book[o] # "ABSENT"

\* A collector has the order in its snapshot.
Holds(c, o) == pc[c] # "idle" /\ snap[c][o] # "ABSENT"

\* Somebody works with a copy of the order.
InHand(o) ==
    \/ \E w \in Writers : held[w] = o
    \/ mine = o
    \/ \E c \in Collectors : Holds(c, o)

\* A write from a copy: the order it was made of is still there, or was collected
\* as it is.
UpToDate(o, status) ==
    book[o] = status \/ (~Kept(o) /\ Finished(status))

Note(o, status) ==
    contested' = IF UpToDate(o, status) THEN contested ELSE contested \union {o}

NoRemoval == [pc |-> "idle", kind |-> "cancel", ids |-> {}, todo |-> {}]

Init ==
    /\ book = [o \in Ids |-> "ABSENT"]
    /\ archive = [o \in Ids |-> "ABSENT"]
    /\ deleted = {}
    /\ held = [w \in Writers |-> None]
    /\ copy = [w \in Writers |-> "ABSENT"]
    /\ jobs = 0
    /\ cron = FALSE
    /\ pc = [c \in Collectors |-> "idle"]
    /\ snap = [c \in Collectors |-> [o \in Ids |-> "ABSENT"]]
    /\ todo = [c \in Collectors |-> {}]
    /\ api = "idle"
    /\ mine = None
    /\ mineAs = "ABSENT"
    /\ sale = FALSE
    /\ removal = NoRemoval
    /\ created = {}
    /\ removed = {}
    /\ contested = {}
    /\ races = 0
    /\ shared = {}
    /\ crashes = 0

----------------------------------------------------------------------------
(* The trader *)

Put(o, status) == book' = [book EXCEPT ![o] = status]

Hold(w, o, status) ==
    /\ held' = [held EXCEPT ![w] = o]
    /\ copy' = [copy EXCEPT ![w] = status]

LetGo(w) == Hold(w, None, "ABSENT")

\* The signal check writes a new order, which goes on to the OPEN handler.
Create(w, o) ==
    /\ held[w] = None
    /\ o \notin created
    /\ Put(o, "WAIT_OPEN")
    /\ created' = created \union {o}
    /\ Hold(w, o, "WAIT_OPEN")
    /\ UNCHANGED <<archive, deleted, collector, closing, removal, removed, contested, overlap>>

\* getOrders(): handlers, checks and crons read active orders.
Read(w, o) ==
    /\ held[w] = None
    /\ Active(book[o])
    /\ Hold(w, o, book[o])
    /\ UNCHANGED <<stores, collector, closing, removal, history, overlap>>

\* Mutant: the second write of a closed order is made from what was read first.
SuccessorsAsRead(o, status) ==
    CASE status = "WAIT_OPEN" -> {"OPENED", "CANCELLED"}
      [] status = "OPENED"    -> {"OPENED", "CLOSED"}
      [] OTHER                -> {"OPENED"}

\* What the trader may make of the status it has read: open or cancel an order that
\* waits, refresh, close or (a virtual one) cancel an opened one.  A closed order is
\* written a second time with its price and profit.
Successors(o, status) ==
    CASE status = "WAIT_OPEN" -> {"OPENED", "CANCELLED"}
      [] status = "OPENED"    -> {"OPENED", "CLOSED"}
                                   \union (IF o \in Virtual THEN {"CANCELLED"} ELSE {})
      [] OTHER                -> {status}

Write(w, status) ==
    LET o == held[w] IN
    /\ o # None
    /\ status \in Successors(o, copy[w])
    /\ Put(o, status)
    /\ Note(o, copy[w])
    /\ IF status = "CANCELLED" \/ copy[w] = "CLOSED" THEN LetGo(w) ELSE Hold(w, o, status)
    /\ UNCHANGED <<archive, deleted, collector, closing, removal, created, removed, overlap>>

\* Nothing to do, a refusal, or (between the two writes of a close) a crash.
GiveUp(w) ==
    /\ held[w] # None
    /\ copy[w] = "CLOSED" => "crash" \in Hazards
    /\ LetGo(w)
    /\ UNCHANGED <<stores, collector, closing, removal, history, overlap>>

----------------------------------------------------------------------------
(* Sending collect jobs: getJobs_CountCollectOrders(), then addNewJob() *)

NoJobs == jobs = 0 /\ \A c \in Collectors : pc[c] = "idle"

MishapLeft == crashes + races < MaxMishaps

\* One sender counts while the other one has counted and not added yet.
Meets(other) ==
    /\ other => MishapLeft
    /\ races' = IF other THEN races + 1 ELSE races

\* Mutant: jobs that are already running are not counted.
CronCountWaiting ==
    /\ ~cron
    /\ jobs = 0
    /\ cron' = TRUE
    /\ Meets(api = "add")
    /\ UNCHANGED <<stores, writer, jobs, pc, snap, todo, crashes, closing,
                   removal, history, shared>>

CronCount ==
    /\ ~cron
    /\ NoJobs
    /\ cron' = TRUE
    /\ Meets(api = "add")
    /\ UNCHANGED <<stores, writer, jobs, pc, snap, todo, crashes, closing,
                   removal, history, shared>>

CronAdd ==
    /\ cron
    /\ cron' = FALSE
    /\ jobs' = jobs + 1
    /\ UNCHANGED <<stores, writer, pc, snap, todo, crashes, closing,
                   removal, history, overlap>>

----------------------------------------------------------------------------
(* The collector: collectOrders() *)

Return(c) ==
    /\ pc' = [pc EXCEPT ![c] = "idle"]
    /\ snap' = [snap EXCEPT ![c] = [o \in Ids |-> "ABSENT"]]
    /\ todo' = [todo EXCEPT ![c] = {}]

\* Mutant: a collector that looks at the book without a job.
CollectAnyway(c) ==
    /\ pc[c] = "idle"
    /\ jobs' = jobs - 1
    /\ pc' = [pc EXCEPT ![c] = "copy"]
    /\ snap' = [snap EXCEPT ![c] = book]
    /\ UNCHANGED <<stores, writer, cron, todo, crashes, closing, removal,
                   history, overlap>>

\* The job is over when there is nothing to copy.  An order that another collector has
\* in its snapshot will be written twice, the older copy perhaps last.
Collect(c) ==
    LET orders == {o \in Ids : Kept(o)} IN
    /\ pc[c] = "idle"
    /\ jobs > 0
    /\ jobs' = jobs - 1
    /\ IF orders = {}
         THEN UNCHANGED <<pc, snap, todo>>
         ELSE /\ pc' = [pc EXCEPT ![c] = "copy"]
              /\ snap' = [snap EXCEPT ![c] = book]
              /\ todo' = [todo EXCEPT ![c] = orders]
    /\ LET twice == {o \in orders : \E d \in Collectors : Holds(d, o)} IN
         /\ shared' = shared \union twice
         /\ contested' = contested \union twice
    /\ UNCHANGED <<stores, writer, cron, crashes, closing, removal, created, removed, races>>

\* One replaceOne of the bulk write: the whole document, isDeleted included.
Copy(c, o) ==
    /\ pc[c] = "copy"
    /\ o \in todo[c]
    /\ archive' = [archive EXCEPT ![o] = snap[c][o]]
    /\ deleted' = deleted \ {o}
    /\ todo' = [todo EXCEPT ![c] = @ \ {o}]
    /\ UNCHANGED <<book, writer, jobs, cron, pc, snap, crashes, closing,
                   removal, history, overlap>>

\* Mutants: what is finished by now is deleted; cancelled orders stay.
CopiedByNow(c) ==
    /\ pc[c] = "copy"
    /\ todo[c] = {}
    /\ pc' = [pc EXCEPT ![c] = "delete"]
    /\ todo' = [todo EXCEPT ![c] = {o \in Ids : Finished(book[o])}]
    /\ UNCHANGED <<stores, writer, jobs, cron, snap, crashes, closing,
                   removal, history, overlap>>

CopiedClosed(c) ==
    /\ pc[c] = "copy"
    /\ todo[c] = {}
    /\ pc' = [pc EXCEPT ![c] = "delete"]
    /\ todo' = [todo EXCEPT ![c] = {o \in Ids : snap[c][o] = "CLOSED"}]
    /\ UNCHANGED <<stores, writer, jobs, cron, snap, crashes, closing,
                   removal, history, overlap>>

\* The orders of the snapshot that were finished are deleted next.
Copied(c) ==
    /\ pc[c] = "copy"
    /\ todo[c] = {}
    /\ pc' = [pc EXCEPT ![c] = "delete"]
    /\ todo' = [todo EXCEPT ![c] = {o \in Ids : Finished(snap[c][o])}]
    /\ UNCHANGED <<stores, writer, jobs, cron, snap, crashes, closing,
                   removal, history, overlap>>

Delete(c, o) ==
    /\ pc[c] = "delete"
    /\ o \in todo[c]
    /\ Put(o, "ABSENT")
    /\ todo' = [todo EXCEPT ![c] = @ \ {o}]
    /\ UNCHANGED <<archive, deleted, writer, jobs, cron, pc, snap, crashes, closing,
                   removal, history, overlap>>

Collected(c) ==
    /\ pc[c] = "delete"
    /\ todo[c] = {}
    /\ Return(c)
    /\ UNCHANGED <<stores, writer, jobs, cron, crashes, closing, removal,
                   history, overlap>>

\* The process dies: Bull hands the job to another one, or gives it up.
Crash(c) ==
    /\ MishapLeft
    /\ crashes' = crashes + 1
    /\ pc[c] # "idle"
    /\ Return(c)
    /\ jobs' \in {jobs, jobs + 1}
    /\ UNCHANGED <<stores, writer, cron, closing, removal, history, overlap>>

----------------------------------------------------------------------------
(* The API: closeUserOrder() *)

\* The sale is started but not awaited; the request goes on with the same object.
ApiClose(o) ==
    /\ api = "idle"
    /\ ~sale
    /\ book[o] = "OPENED"
    /\ mine' = o
    /\ mineAs' = "OPENED"
    /\ sale' = TRUE
    /\ api' = "volume"
    /\ UNCHANGED <<stores, writer, collector, removal, history, overlap>>

\* The request and the sale are both over: nothing refers to the object.
ForgetMine == mine' = None /\ mineAs' = "ABSENT"

\* ExchangeLibService.closeUserOrder(): the status is set in the shared object, which
\* is written; or the exchange has refused, or its answer was lost.
ApiSale ==
    /\ sale
    /\ sale' = FALSE
    /\ \/ /\ Put(mine, "CLOSED")
          /\ Note(mine, mineAs)
          /\ IF api = "idle" THEN ForgetMine ELSE mine' = mine /\ mineAs' = "CLOSED"
       \/ /\ IF api = "idle" THEN ForgetMine ELSE UNCHANGED <<mine, mineAs>>
          /\ UNCHANGED <<book, contested>>
    /\ UNCHANGED <<archive, deleted, writer, collector, api, removal, created, removed, overlap>>

\* The request writes the object, as it is by now: with the reduced volume, if it was
\* reduced, and with price and profit.
ApiWrite ==
    /\ api \in {"volume", "profit"}
    /\ \/ /\ Put(mine, mineAs)
          /\ Note(mine, mineAs)
       \/ api = "volume" /\ UNCHANGED <<book, contested>>
    /\ api' = IF api = "volume" THEN "profit" ELSE "count"
    /\ UNCHANGED <<archive, deleted, writer, collector, mine, mineAs, sale, removal,
                   created, removed, overlap>>

ApiEnd ==
    /\ api' = "idle"
    /\ IF sale THEN UNCHANGED <<mine, mineAs>> ELSE ForgetMine

ApiCount ==
    /\ api = "count"
    /\ IF NoJobs THEN api' = "add" /\ UNCHANGED <<mine, mineAs>>
                 ELSE ApiEnd
    /\ Meets(NoJobs /\ cron)
    /\ UNCHANGED <<stores, writer, collector, sale, removal, history, shared>>

ApiAdd ==
    /\ api = "add"
    /\ ApiEnd
    /\ jobs' = jobs + 1
    /\ UNCHANGED <<stores, writer, cron, pc, snap, todo, crashes, sale, removal,
                   history, overlap>>

----------------------------------------------------------------------------
(* The API: cancelUserOrder(), deleteUserOrder(), deleteAllUserOrder(),   *)
(* deleteAllUserVirtualOrder(), one request at a time                     *)

RemoveStart(kind, ids) ==
    /\ removal.pc = "idle"
    /\ \/ kind \in {"cancel", "delete"} /\ \E o \in created : ids = {o}
       \/ kind = "deleteAll" /\ ids = Ids
       \/ kind = "deleteVirtual" /\ ids = {o \in Virtual : Kept(o)}
    /\ removal' = [pc |-> "book", kind |-> kind, ids |-> ids, todo |-> ids]
    /\ UNCHANGED <<stores, writer, collector, closing, history, overlap>>

\* The hash fields one by one, or the whole hash.
RemoveFromBook(ids) ==
    /\ removal.pc = "book"
    /\ IF removal.kind = "deleteAll" THEN removal.todo # {} /\ ids = removal.todo
                                     ELSE \E o \in removal.todo : ids = {o}
    /\ book' = [o \in Ids |-> IF o \in ids THEN "ABSENT" ELSE book[o]]
    /\ removal' = [removal EXCEPT !.todo = @ \ ids]
    /\ removed' = removed \union (ids \intersect created)
    /\ contested' = contested \union {o \in ids : InHand(o)}
    /\ UNCHANGED <<archive, deleted, writer, collector, closing, created, overlap>>

\* Then the archive: the order that was named, or all the archive has by now.  What is
\* left to do there is to cancel or to delete these.
RemoveRead ==
    LET archived == {o \in Ids : archive[o] # "ABSENT"}
        ids == CASE removal.kind = "deleteAll"     -> archived
                 [] removal.kind = "deleteVirtual" -> archived \intersect Virtual
                 [] OTHER                          -> removal.ids
    IN
    /\ removal.pc = "book"
    /\ removal.todo = {}
    /\ removal' = [pc |-> "archive", ids |-> {}, todo |-> ids,
                   kind |-> IF removal.kind = "cancel" THEN "cancel" ELSE "delete"]
    /\ UNCHANGED <<stores, writer, collector, closing, history, overlap>>

\* An update without upsert: an order that was not archived yet is not touched.
RemoveFromArchive(o) ==
    /\ removal.pc = "archive"
    /\ o \in removal.todo
    /\ removal' = [removal EXCEPT !.todo = @ \ {o}]
    /\ IF archive[o] = "ABSENT" THEN UNCHANGED <<archive, deleted>>
       ELSE IF removal.kind = "cancel"
         THEN archive' = [archive EXCEPT ![o] = "CANCELLED"] /\ UNCHANGED deleted
         ELSE deleted' = deleted \union {o} /\ UNCHANGED archive
    /\ contested' = IF Kept(o) \/ InHand(o) THEN contested \union {o} ELSE contested
    /\ UNCHANGED <<book, writer, collector, closing, created, removed, overlap>>

\* One of the stores fails, or the process dies: the rest is not removed.
RemoveFails ==
    /\ "crash" \in Hazards
    /\ removal.pc # "idle"
    /\ removal' = NoRemoval
    /\ UNCHANGED <<stores, writer, collector, closing, history, overlap>>

RemoveEnd ==
    /\ removal.pc = "archive"
    /\ removal.todo = {}
    /\ removal' = NoRemoval
    /\ UNCHANGED <<stores, writer, collector, closing, history, overlap>>

----------------------------------------------------------------------------
WriterStep(w) ==
    \/ GiveUp(w)
    \/ \E o \in Ids : Create(w, o) \/ Read(w, o)
    \/ \E status \in Status : Write(w, status)

CollectorStep(c) ==
    \/ Collect(c) \/ Copied(c) \/ Collected(c) \/ Crash(c)
    \/ \E o \in Ids : Copy(c, o) \/ Delete(c, o)

ApiStep == ApiSale \/ ApiWrite \/ ApiCount \/ ApiAdd \/ \E o \in Ids : ApiClose(o)

RemovalStep ==
    \/ RemoveRead \/ RemoveEnd \/ RemoveFails
    \/ \E kind \in Kinds, ids \in SUBSET Ids : RemoveStart(kind, ids)
    \/ \E ids \in SUBSET Ids : RemoveFromBook(ids)
    \/ \E o \in Ids : RemoveFromArchive(o)

Next ==
    \/ \E w \in Writers : WriterStep(w)
    \/ CronCount \/ CronAdd
    \/ \E c \in Collectors : CollectorStep(c)
    \/ ApiStep
    \/ RemovalStep

Spec == Init /\ [][Next]_vars

\* The cron runs for ever, Bull hands out every job, collectors go on.
Fairness ==
    /\ WF_vars(CronCount) /\ WF_vars(CronAdd) /\ WF_vars(ApiAdd)
    /\ \A c \in Collectors : WF_vars(CollectorStep(c))

FairSpec == Spec /\ Fairness

----------------------------------------------------------------------------
(* Properties *)

\* The jobs that wait, run or are about to be added.
Running  == {c \in Collectors : pc[c] # "idle"}
InFlight == jobs + Cardinality(Running)
              + (IF cron THEN 1 ELSE 0) + (IF api = "add" THEN 1 ELSE 0)

\* The orders of a user are collected by one job at a time, so that no order is in two
\* snapshots at once: every sender counts the waiting and the running jobs before it adds
\* one, and a job that is handed out again is still counted.  Only the two senders, which
\* count and add in two calls, can miss each other, and then there are two jobs and never
\* a third, however often they miss each other and collectors die.
OneCollection ==
    /\ InFlight <= 2
    /\ \/ races > 0
       \/ /\ jobs \in {0, 1}
          /\ jobs = 1 => \A c \in Collectors : pc[c] = "idle"
          /\ \A c, d \in Collectors : pc[c] # "idle" /\ pc[d] # "idle" => c = d
          /\ cron \/ api = "add" => NoJobs
          /\ shared = {}

\* An order leaves the book only as a finished one of the archive or at the user's wish:
\* deleting by the snapshot never deletes what the archive does not have as finished,
\* whatever is written, closed, removed or interrupted meanwhile, and however many collect
\* at a time, as long as no two of them had the order in their snapshots.
GoneIsFinal ==
    \A o \in (created \ shared) : ~Kept(o) => Finished(archive[o]) \/ o \in removed

\* What the archive has as finished or deleted stays so, and only the user makes a closed
\* order a cancelled one - unless the order was written, or removed, over the work of
\* somebody who still had a copy of it, or was in two snapshots at once.
ArchiveKeepsFinal ==
    [][\A o \in (Ids \ contested) :
         /\ o \in deleted => o \in deleted'
         /\ Finished(archive[o]) =>
              (archive'[o] = archive[o] \/ (o \in removed /\ Finished(archive'[o])))]_vars

\* A finished order gets to the archive and out of the book, whatever collection dies or
\* races with another.
FinishedIsCollected ==
    \A o \in Ids :
        Finished(book[o]) ~>
            \/ ~Kept(o) /\ Finished(archive[o])
            \/ o \in (contested \union removed)
=============================================================================
