------------------------- MODULE OrderArchiveProofs -------------------------
(***************************************************************************)
(* What the collector guarantees for any number of orders, feeders and     *)
(* writers of the trader, however many collections run at a time.          *)
(***************************************************************************)
EXTENDS OrderArchive, FiniteSetTheorems, TLAPS

\* Who holds a copy holds one of an order that was written.
CopiesExist ==
    /\ \A w \in Writers : held[w] # None => held[w] \in created /\ copy[w] # "ABSENT"
    /\ sale \/ api # "idle" => mine \in created /\ mineAs \in {"OPENED", "CLOSED"}
    /\ \A o \in Ids : Kept(o) => o \in created
    /\ \A c \in Collectors, o \in Ids : snap[c][o] # "ABSENT" => o \in created

Typed == TypeOK /\ CopiesExist

----------------------------------------------------------------------------
LEMMA InitTyped == Init => Typed
  <1>. SUFFICES ASSUME Init PROVE Typed
    OBVIOUS
  <1>1. removal \in [pc : RemovalPcs, kind : Kinds, ids : SUBSET Ids, todo : SUBSET Ids]
    BY DEF Init, NoRemoval, RemovalPcs, Kinds
  <1>2. TypeOK
    BY <1>1 DEF Init, TypeOK, Status, Pcs, ApiPcs
  <1>3. CopiesExist
    BY DEF Init, CopiesExist, Kept
  <1>. QED
    BY <1>2, <1>3 DEF Typed

LEMMA WriterTyped ==
    ASSUME Typed, NEW w \in Writers, WriterStep(w) PROVE Typed'
  <1>. USE OrderArchiveAssumption
  <1>. USE DEF Typed, TypeOK, Status, collector, closing, history, stores, overlap
  <1>1. CASE GiveUp(w)
    BY <1>1 DEF GiveUp, LetGo, Hold, CopiesExist, Kept
  <1>2. ASSUME NEW o \in Ids, Create(w, o) PROVE Typed'
    BY <1>2 DEF Create, Put, Hold, CopiesExist, Kept
  <1>3. ASSUME NEW o \in Ids, Read(w, o) PROVE Typed'
    BY <1>3 DEF Read, Hold, Active, CopiesExist, Kept
  <1>4. ASSUME NEW status \in Status, Write(w, status) PROVE Typed'
    <2>1. /\ held[w] \in created
          /\ status # "ABSENT"
      BY <1>4 DEF Write, Successors, CopiesExist
    <2>2. TypeOK'
      BY <1>4, <2>1 DEF Write, Put, Note, Hold, LetGo
    <2>3. CopiesExist'
      BY <1>4, <2>1 DEF Write, Put, Hold, LetGo, CopiesExist, Kept
    <2>. QED
      BY <2>2, <2>3
  <1>. QED
    BY <1>1, <1>2, <1>3, <1>4 DEF WriterStep

LEMMA CollectorTyped ==
    ASSUME Typed, NEW c \in Collectors, CollectorStep(c) PROVE Typed'
  <1>. USE OrderArchiveAssumption
  <1>. USE DEF Typed, TypeOK, Status, Pcs, writer, closing, history, stores, overlap
  <1>1. CASE Collect(c)
    <2>1. CASE \A o \in Ids : ~Kept(o)
      BY <1>1, <2>1 DEF Collect, CopiesExist, Kept
    <2>2. CASE \E o \in Ids : Kept(o)
      <3>1. /\ pc' = [pc EXCEPT ![c] = "copy"]
            /\ snap' = [snap EXCEPT ![c] = book]
            /\ todo' = [todo EXCEPT ![c] = {o \in Ids : Kept(o)}]
            /\ jobs' = jobs - 1 /\ jobs > 0
            /\ races' = races /\ shared' \subseteq Ids /\ contested' \subseteq Ids
        BY <1>1, <2>2 DEF Collect
      <3>2. TypeOK'
        BY <1>1, <3>1 DEF Collect
      <3>3. CopiesExist'
        BY <1>1, <3>1 DEF Collect, CopiesExist, Kept
      <3>. QED
        BY <3>2, <3>3
    <2>. QED
      BY <2>1, <2>2
  <1>2. CASE Copied(c)
    <2>1. pc' \in [Collectors -> Pcs] /\ todo' \in [Collectors -> SUBSET Ids]
      BY <1>2 DEF Copied
    <2>. QED
      BY <1>2, <2>1 DEF Copied, CopiesExist, Kept
  <1>3. CASE Collected(c)
    BY <1>3 DEF Collected, Return, CopiesExist, Kept
  <1>4. CASE Crash(c)
    BY <1>4 DEF Crash, Return, CopiesExist, Kept
  <1>5. ASSUME NEW o \in Ids, Copy(c, o) PROVE Typed'
    BY <1>5 DEF Copy, CopiesExist, Kept
  <1>6. ASSUME NEW o \in Ids, Delete(c, o) PROVE Typed'
    BY <1>6 DEF Delete, Put, CopiesExist, Kept
  <1>. QED
    BY <1>1, <1>2, <1>3, <1>4, <1>5, <1>6 DEF CollectorStep

LEMMA ApiTyped ==
    ASSUME Typed, ApiStep PROVE Typed'
  <1>. USE OrderArchiveAssumption
  <1>. USE DEF Typed, TypeOK, Status, ApiPcs, writer, collector, history, stores, overlap
  <1>1. CASE ApiSale
    <2>1. mine \in created
      BY <1>1 DEF ApiSale, CopiesExist
    <2>4. /\ book' \in [Ids -> Status] /\ contested' \subseteq Ids
          /\ mine' \in Ids \union {None} /\ mineAs' \in Status
      BY <1>1, <2>1 DEF ApiSale, Put, Note, ForgetMine
    <2>2. TypeOK'
      BY <1>1, <2>4 DEF ApiSale
    <2>3. CopiesExist'
      BY <1>1, <2>1 DEF ApiSale, Put, ForgetMine, CopiesExist, Kept
    <2>. QED
      BY <2>2, <2>3
  <1>2. CASE ApiWrite
    <2>1. mine \in created /\ mineAs \in {"OPENED", "CLOSED"}
      BY <1>2 DEF ApiWrite, CopiesExist
    <2>. QED
      BY <1>2, <2>1 DEF ApiWrite, Put, Note, CopiesExist, Kept
  <1>3. CASE ApiCount
    <2>1. races' \in Nat /\ shared' = shared
      BY <1>3 DEF ApiCount, Meets
    <2>. QED
      BY <1>3, <2>1 DEF ApiCount, ApiEnd, ForgetMine, CopiesExist, Kept
  <1>4. CASE ApiAdd
    BY <1>4 DEF ApiAdd, ApiEnd, ForgetMine, CopiesExist, Kept
  <1>5. ASSUME NEW o \in Ids, ApiClose(o) PROVE Typed'
    BY <1>5 DEF ApiClose, CopiesExist, Kept
  <1>. QED
    BY <1>1, <1>2, <1>3, <1>4, <1>5 DEF ApiStep

LEMMA RemovalTyped ==
    ASSUME Typed, RemovalStep PROVE Typed'
  <1>. USE OrderArchiveAssumption
  <1>. USE DEF Typed, TypeOK, Status, RemovalPcs, Kinds, writer, collector, closing,
               history, stores, overlap
  <1>1. CASE RemoveRead
    BY <1>1 DEF RemoveRead, CopiesExist, Kept
  <1>2. CASE RemoveEnd \/ RemoveFails
    BY <1>2 DEF RemoveEnd, RemoveFails, NoRemoval, CopiesExist, Kept
  <1>3. ASSUME NEW kind \in Kinds, NEW ids \in SUBSET Ids, RemoveStart(kind, ids)
        PROVE  Typed'
    BY <1>3 DEF RemoveStart, CopiesExist, Kept
  <1>4. ASSUME NEW ids \in SUBSET Ids, RemoveFromBook(ids) PROVE Typed'
    BY <1>4 DEF RemoveFromBook, CopiesExist, Kept
  <1>5. ASSUME NEW o \in Ids, RemoveFromArchive(o) PROVE Typed'
    <2>1. archive' \in [Ids -> Status] /\ deleted' \subseteq Ids /\ contested' \subseteq Ids
      BY <1>5 DEF RemoveFromArchive
    <2>2. removal' \in [pc : RemovalPcs, kind : Kinds, ids : SUBSET Ids, todo : SUBSET Ids]
      BY <1>5 DEF RemoveFromArchive
    <2>. QED
      BY <1>5, <2>1, <2>2 DEF RemoveFromArchive, CopiesExist, Kept
  <1>. QED
    BY <1>1, <1>2, <1>3, <1>4, <1>5 DEF RemovalStep

LEMMA NextTyped == Typed /\ [Next]_vars => Typed'
  <1>. SUFFICES ASSUME Typed, [Next]_vars PROVE Typed'
    OBVIOUS
  <1>1. CASE UNCHANGED vars
    BY <1>1 DEF vars, stores, writer, collector, closing, history, overlap, Typed, TypeOK,
                CopiesExist, Kept
  <1>2. CASE CronCount \/ CronAdd
    <2>1. jobs' \in Nat /\ cron' \in BOOLEAN /\ races' \in Nat /\ shared' = shared
      <3>1. CASE CronCount
        <4>1. jobs' = jobs /\ cron' = TRUE /\ shared' = shared
          BY <3>1 DEF CronCount
        <4>2. races' \in Nat
          BY <3>1 DEF CronCount, Meets, Typed, TypeOK
        <4>. QED
          BY <4>1, <4>2 DEF Typed, TypeOK
      <3>2. CASE CronAdd
        <4>1. jobs' = jobs + 1 /\ cron' = FALSE /\ races' = races /\ shared' = shared
          BY <3>2 DEF CronAdd, overlap
        <4>2. jobs' \in Nat /\ races' \in Nat
          BY <4>1 DEF Typed, TypeOK
        <4>. QED
          BY <4>1, <4>2
      <3>. QED
        BY <1>2, <3>1, <3>2
    <2>2. UNCHANGED <<stores, writer, pc, snap, todo, crashes, closing, removal, history>>
      BY <1>2 DEF CronCount, CronAdd
    <2>. QED
      BY <2>1, <2>2 DEF stores, writer, closing, history, Typed, TypeOK, CopiesExist, Kept
  <1>. QED
    BY <1>1, <1>2, WriterTyped, CollectorTyped, ApiTyped, RemovalTyped DEF Next

\* The state of both stores and of everything that works on them stays within its types.
THEOREM ArchiveTyping == Spec => []TypeOK
  <1>1. Typed => TypeOK
    BY DEF Typed
  <1>. QED
    BY <1>1, InitTyped, NextTyped, PTL DEF Spec

----------------------------------------------------------------------------
(***************************************************************************)
(* One collection at a time, until the two senders have met.               *)
(***************************************************************************)
SendersApart == ~(cron /\ api = "add")

Alone ==
    /\ jobs \in {0, 1}
    /\ jobs = 1 => \A c \in Collectors : pc[c] = "idle"
    /\ \A c, d \in Collectors : pc[c] # "idle" /\ pc[d] # "idle" => c = d
    /\ cron \/ api = "add" => NoJobs
    /\ shared = {}

OneInv == races > 0 \/ (Alone /\ SendersApart)

LEMMA InitOne == Init => OneInv
  BY DEF Init, OneInv, Alone, SendersApart, NoJobs

LEMMA NextOne == Typed /\ OneInv /\ [Next]_vars => OneInv'
  <1>. SUFFICES ASSUME Typed, OneInv, [Next]_vars PROVE OneInv'
    OBVIOUS
  <1>a. CASE races > 0
    <2>1. races' > 0
      <3>1. races \in Nat
        BY DEF Typed, TypeOK
      <3>2. races' = races \/ races' = races + 1
        BY DEF Next, vars, overlap, Meets, CronCount, CronAdd, WriterStep, GiveUp, Create, Read,
               Write, CollectorStep, Collect, Copied, Collected, Crash, Copy, Delete, ApiStep,
               ApiSale, ApiWrite, ApiCount, ApiAdd, ApiClose, RemovalStep, RemoveRead, RemoveEnd,
               RemoveFails, RemoveStart, RemoveFromBook, RemoveFromArchive
      <3>. QED
        BY <1>a, <3>1, <3>2
    <2>. QED
      BY <2>1 DEF OneInv
  <1>. SUFFICES ASSUME ~(races > 0) PROVE OneInv'
    BY <1>a
  <1>. USE DEF OneInv, Alone, SendersApart, NoJobs
  <1>1. ASSUME UNCHANGED <<jobs, cron, pc, api, races, shared>> PROVE OneInv'
    BY <1>1
  <1>2. ASSUME NEW c \in Collectors, CollectorStep(c) PROVE OneInv'
    <2>. USE <1>2 DEF closing, overlap, Typed, TypeOK, Pcs
    <2>1. CASE Collect(c)
      <3>1. /\ jobs = 1 /\ jobs' = 0
            /\ ~cron /\ api # "add"
            /\ \A d \in Collectors : pc[d] = "idle"
            /\ cron' = cron /\ api' = api
        BY <2>1 DEF Collect
      <3>3. shared' = {} /\ races' = races
        BY <2>1, <3>1 DEF Collect, Holds
      <3>2. \A d \in Collectors : d # c => pc'[d] = "idle"
        BY <2>1, <3>1 DEF Collect
      <3>. QED
        BY <3>1, <3>2, <3>3
    <2>2. CASE Copied(c)
      <3>1. /\ UNCHANGED <<jobs, cron, api, races, shared>>
            /\ pc[c] # "idle"
            /\ \A d \in Collectors : pc'[d] # "idle" => pc[d] # "idle"
        BY <2>2 DEF Copied
      <3>. QED
        BY <3>1
    <2>3. CASE Collected(c)
      <3>1. /\ UNCHANGED <<jobs, cron, api, races, shared>>
            /\ pc[c] # "idle"
            /\ \A d \in Collectors : pc'[d] # "idle" => pc[d] # "idle"
        BY <2>3 DEF Collected, Return
      <3>. QED
        BY <3>1
    <2>4. CASE Crash(c)
      <3>1. /\ UNCHANGED <<cron, api, races, shared>>
            /\ jobs = 0 /\ jobs' \in {0, 1}
            /\ ~cron /\ api # "add"
        BY <2>4 DEF Crash
      <3>2. \A d \in Collectors : pc'[d] = "idle"
        BY <2>4 DEF Crash, Return
      <3>. QED
        BY <3>1, <3>2
    <2>5. ASSUME NEW o \in Ids, Copy(c, o) \/ Delete(c, o) PROVE OneInv'
      BY <2>5, <1>1 DEF Copy, Delete
    <2>. QED
      BY <2>1, <2>2, <2>3, <2>4, <2>5 DEF CollectorStep
  <1>3. CASE CronCount
    BY <1>3 DEF CronCount, Meets, closing, Typed, TypeOK
  <1>4. CASE CronAdd
    BY <1>4 DEF CronAdd, closing, overlap, Typed, TypeOK
  <1>5. CASE ApiStep
    <2>1. CASE ApiCount
      BY <2>1 DEF ApiCount, ApiEnd, Meets, collector, Typed, TypeOK
    <2>2. CASE ApiAdd
      BY <2>2 DEF ApiAdd, ApiEnd, overlap, Typed, TypeOK
    <2>3. CASE ApiSale
      BY <2>3, <1>1 DEF ApiSale, collector, overlap
    <2>4. CASE ApiWrite
      BY <2>4 DEF ApiWrite, collector, overlap
    <2>5. ASSUME NEW o \in Ids, ApiClose(o) PROVE OneInv'
      BY <2>5 DEF ApiClose, collector, overlap
    <2>. QED
      BY <1>5, <2>1, <2>2, <2>3, <2>4, <2>5 DEF ApiStep
  <1>6. ASSUME NEW w \in Writers, WriterStep(w) PROVE OneInv'
    BY <1>6, <1>1 DEF WriterStep, GiveUp, Create, Read, Write, collector, closing, overlap
  <1>7. CASE RemovalStep
    BY <1>7, <1>1 DEF RemovalStep, RemoveRead, RemoveEnd, RemoveFails, RemoveStart,
                      RemoveFromBook, RemoveFromArchive, collector, closing, overlap
  <1>8. CASE UNCHANGED vars
    BY <1>8, <1>1 DEF vars, collector, closing, overlap
  <1>. QED
    BY <1>2, <1>3, <1>4, <1>5, <1>6, <1>7, <1>8 DEF Next

\* Never a third job: a sender adds one after it has seen none.
TwoInv == InFlight <= 2

LEMMA RunningIsFinite == IsFiniteSet(Running) /\ Cardinality(Running) \in Nat
  BY OrderArchiveAssumption, FS_Subset, FS_CardinalityType DEF Running

LEMMA InitTwo == Init => TwoInv
  <1>. SUFFICES ASSUME Init PROVE TwoInv
    OBVIOUS
  <1>1. Running = {}
    BY DEF Init, Running
  <1>. QED
    BY <1>1, FS_EmptySet DEF Init, TwoInv, InFlight

LEMMA NextTwo == Typed /\ TwoInv /\ [Next]_vars => TwoInv'
  <1>. SUFFICES ASSUME Typed, TwoInv, [Next]_vars PROVE TwoInv'
    OBVIOUS
  <1>0. /\ jobs \in Nat /\ Cardinality(Running) \in Nat
        /\ InFlight <= 2
    BY RunningIsFinite DEF Typed, TypeOK, TwoInv
  <1>1. ASSUME pc' = pc, jobs' = jobs, cron' => cron, api' = "add" => api = "add" PROVE TwoInv'
    <2>1. Running' = Running
      BY <1>1 DEF Running
    <2>. QED
      BY <1>0, <1>1, <2>1 DEF TwoInv, InFlight
  <1>2. ASSUME NEW c \in Collectors, CollectorStep(c) PROVE TwoInv'
    <2>. USE DEF Typed, TypeOK, Pcs
    <2>1. cron' = cron /\ api' = api
      BY <1>2 DEF CollectorStep, Collect, Copied, Collected, Crash, Copy, Delete, closing
    <2>2. CASE Collect(c)
      <3>1. pc[c] = "idle" /\ jobs' = jobs - 1 /\ jobs > 0
        BY <2>2 DEF Collect
      <3>2. Running' = Running \/ Running' = Running \union {c}
        BY <2>2 DEF Collect, Running
      <3>3. c \notin Running
        BY <3>1 DEF Running
      <3>4. Cardinality(Running') \in {Cardinality(Running), Cardinality(Running) + 1}
        BY <3>2, <3>3, RunningIsFinite, FS_AddElement
      <3>. QED
        BY <1>0, <2>1, <3>1, <3>4 DEF TwoInv, InFlight
    <2>3. CASE Collected(c) \/ Crash(c)
      <3>1. pc[c] # "idle" /\ pc' = [pc EXCEPT ![c] = "idle"] /\ jobs' \in {jobs, jobs + 1}
        BY <2>3 DEF Collected, Crash, Return
      <3>2. Running' = Running \ {c} /\ c \in Running
        BY <3>1 DEF Running
      <3>3. Cardinality(Running') = Cardinality(Running) - 1
        BY <3>2, RunningIsFinite, FS_RemoveElement
      <3>. QED
        BY <1>0, <2>1, <3>1, <3>3 DEF TwoInv, InFlight
    <2>4. CASE Copied(c)
      <3>1. jobs' = jobs /\ pc[c] # "idle" /\ pc' = [pc EXCEPT ![c] = "delete"]
        BY <2>4 DEF Copied
      <3>2. Running' = Running
        BY <3>1 DEF Running
      <3>. QED
        BY <1>0, <2>1, <3>1, <3>2 DEF TwoInv, InFlight
    <2>5. ASSUME NEW o \in Ids, Copy(c, o) \/ Delete(c, o) PROVE TwoInv'
      BY <1>1, <2>1, <2>5 DEF Copy, Delete
    <2>. QED
      BY <1>2, <2>2, <2>3, <2>4, <2>5 DEF CollectorStep
  <1>3. ASSUME NoJobs, pc' = pc, jobs' = jobs PROVE TwoInv'
    <2>1. Running' = {} /\ jobs = 0
      BY <1>3 DEF Running, NoJobs
    <2>. QED
      BY <1>3, <2>1, FS_EmptySet DEF TwoInv, InFlight
  <1>4. ASSUME pc' = pc, jobs' = jobs + 1,
               \/ cron /\ ~cron' /\ api' = api
               \/ cron' = cron /\ api = "add" /\ api' # "add"
        PROVE  TwoInv'
    <2>1. Running' = Running
      BY <1>4 DEF Running
    <2>. QED
      BY <1>0, <1>4, <2>1 DEF TwoInv, InFlight
  <1>5. CASE CronCount \/ CronAdd
    BY <1>3, <1>4, <1>5 DEF CronCount, CronAdd, closing
  <1>6. CASE ApiStep
    BY <1>1, <1>3, <1>4, <1>6
    DEF ApiStep, ApiSale, ApiWrite, ApiCount, ApiEnd, ApiAdd, ApiClose, collector
  <1>7. ASSUME NEW w \in Writers, WriterStep(w) PROVE TwoInv'
    BY <1>1, <1>7 DEF WriterStep, GiveUp, Create, Read, Write, collector, closing
  <1>8. CASE RemovalStep
    BY <1>1, <1>8 DEF RemovalStep, RemoveRead, RemoveEnd, RemoveFails, RemoveStart,
                      RemoveFromBook, RemoveFromArchive, collector, closing
  <1>9. CASE UNCHANGED vars
    BY <1>1, <1>9 DEF vars, collector, closing
  <1>. QED
    BY <1>2, <1>5, <1>6, <1>7, <1>8, <1>9 DEF Next

\* Counting the waiting and the running jobs before adding one keeps the collections of
\* a user one after the other, whatever collector dies and however often: two of them run
\* at a time, and an order is in two snapshots, only after the cron and the API have both
\* counted before either of them added, and a third one never does.
THEOREM CollectionsAreSerial == Spec => []OneCollection
  <1>1. OneInv /\ TwoInv => OneCollection
    BY DEF OneInv, TwoInv, OneCollection, Alone
  <1>. QED
    BY <1>1, InitTyped, NextTyped, InitOne, NextOne, InitTwo, NextTwo, PTL DEF Spec

----------------------------------------------------------------------------
(***************************************************************************)
(* GoneIsFinal: what the only collector of an order is about to delete is  *)
(* settled.                                                                *)
(***************************************************************************)
Settled(o) == Finished(archive[o]) \/ o \in removed

\* A cancel request reaches the archive after the book.
RemovalInOrder ==
    removal.kind = "cancel" =>
        /\ removal.ids \subseteq created
        /\ removal.pc = "book" =>
             removal.todo \subseteq removal.ids /\ removal.ids \ removal.todo \subseteq removed
        /\ removal.pc = "archive" => removal.todo \subseteq removed

\* An order that was never in two snapshots at once is in one at most.
Apart == \A o \in Ids \ shared, c, d \in Collectors : Holds(c, o) /\ Holds(d, o) => c = d

TodoHeld ==
    \A c \in Collectors, o \in Ids : pc[c] # "idle" /\ o \in todo[c] => snap[c][o] # "ABSENT"

\* What its only collector has copied is in the archive, what it copies without being
\* finished is still in the book, and what it deletes is settled.
CollectInOrder ==
    \A c \in Collectors, o \in Ids \ shared :
        /\ pc[c] = "copy" /\ snap[c][o] # "ABSENT" =>
             /\ o \in todo[c] \/ archive[o] = snap[c][o] \/ o \in removed
             /\ Finished(snap[c][o]) \/ Kept(o) \/ o \in removed
        /\ pc[c] = "delete" /\ o \in todo[c] => Settled(o)

GoneInv == RemovalInOrder /\ Apart /\ TodoHeld /\ CollectInOrder /\ GoneIsFinal

LEMMA InitGone == Init => GoneInv
  BY DEF Init, GoneInv, RemovalInOrder, Apart, Holds, TodoHeld, CollectInOrder, GoneIsFinal,
         NoRemoval

\* A step that leaves archive and collectors alone and puts orders into the book only.
LEMMA PutsGone ==
    ASSUME Apart, TodoHeld, CollectInOrder, GoneIsFinal, created \subseteq Ids,
           UNCHANGED <<archive, pc, snap, todo, shared>>,
           \A o \in Ids : Kept(o) => Kept(o)',
           removed \subseteq removed',
           \A o \in created' : o \in created \/ Kept(o)'
    PROVE  Apart' /\ TodoHeld' /\ CollectInOrder' /\ GoneIsFinal'
  <1>1. CollectInOrder'
    BY DEF CollectInOrder, Settled
  <1>2. GoneIsFinal'
    BY DEF GoneIsFinal
  <1>3. Apart' /\ TodoHeld'
    BY DEF Apart, TodoHeld, Holds
  <1>. QED
    BY <1>1, <1>2, <1>3

LEMMA WriterGone ==
    ASSUME Typed, GoneInv, NEW w \in Writers, WriterStep(w) PROVE GoneInv'
  <1>. USE DEF Typed, GoneInv
  <1>1. UNCHANGED <<archive, pc, snap, todo, removal, removed, shared>>
    BY DEF WriterStep, GiveUp, Create, Read, Write, collector, stores, history, overlap
  <1>2. created \subseteq created' /\ created \subseteq Ids
    BY DEF WriterStep, GiveUp, Create, Read, Write, stores, history, TypeOK
  <1>3. ASSUME NEW o \in Ids, Create(w, o)
        PROVE  Apart' /\ TodoHeld' /\ CollectInOrder' /\ GoneIsFinal'
    <2>1. /\ \A r \in Ids : Kept(r) => Kept(r)'
          /\ created' = created \union {o} /\ Kept(o)'
      BY <1>3 DEF Create, Put, Kept, TypeOK
    <2>. QED
      BY <1>1, <1>2, <2>1, PutsGone
  <1>4. ASSUME NEW status \in Status, Write(w, status)
        PROVE  Apart' /\ TodoHeld' /\ CollectInOrder' /\ GoneIsFinal'
    <2>1. status # "ABSENT" /\ held[w] \in Ids
      BY <1>4 DEF Write, Successors, CopiesExist, TypeOK
    <2>2. created' = created /\ \A o \in Ids : Kept(o) => Kept(o)'
      BY <1>4, <2>1 DEF Write, Put, Kept, TypeOK
    <2>. QED
      BY <1>1, <1>2, <2>2, PutsGone
  <1>5. ASSUME UNCHANGED <<book, created>>
        PROVE  Apart' /\ TodoHeld' /\ CollectInOrder' /\ GoneIsFinal'
    BY <1>1, <1>2, <1>5, PutsGone DEF Kept
  <1>. QED
    BY <1>1, <1>2, <1>3, <1>4, <1>5
    DEF WriterStep, GiveUp, Read, stores, history, RemovalInOrder

LEMMA ApiGone ==
    ASSUME Typed, GoneInv, ApiStep PROVE GoneInv'
  <1>. USE DEF Typed, GoneInv
  <1>1. UNCHANGED <<archive, pc, snap, todo, removal, removed, created, shared>>
    BY DEF ApiStep, ApiSale, ApiWrite, ApiCount, ApiAdd, ApiClose, collector, stores, history,
           overlap
  <1>2. \A o \in Ids : Kept(o) => Kept(o)'
    <2>1. CASE ApiSale
      BY <2>1 DEF ApiSale, Put, Kept, CopiesExist, TypeOK
    <2>2. CASE ApiWrite
      <3>1. mineAs # "ABSENT"
        BY <2>2 DEF ApiWrite, CopiesExist
      <3>. QED
        BY <2>2, <3>1 DEF ApiWrite, Put, Kept, TypeOK
    <2>3. ASSUME book' = book PROVE \A o \in Ids : Kept(o) => Kept(o)'
      BY <2>3 DEF Kept
    <2>. QED
      BY <2>1, <2>2, <2>3 DEF ApiStep, ApiCount, ApiAdd, ApiClose, stores
  <1>. QED
    BY <1>1, <1>2, PutsGone DEF RemovalInOrder, TypeOK

LEMMA RemovalGone ==
    ASSUME Typed, GoneInv, RemovalStep PROVE GoneInv'
  <1>. USE DEF Typed, GoneInv
  <1>1. UNCHANGED <<pc, snap, todo, created, shared>>
    BY DEF RemovalStep, RemoveRead, RemoveEnd, RemoveFails, RemoveStart, RemoveFromBook,
           RemoveFromArchive, collector, history, overlap
  <1>7. Apart' /\ TodoHeld'
    BY <1>1 DEF Apart, TodoHeld, Holds
  <1>2. CASE RemoveRead
    <2>1. RemovalInOrder'
      <3>1. /\ removal.pc = "book" /\ removal.todo = {} /\ removed' = removed
            /\ removal'.pc = "archive" /\ removal'.ids = {}
            /\ removal'.kind = "cancel" => removal.kind = "cancel"
            /\ removal.kind = "cancel" => removal'.todo = removal.ids
        BY <1>2 DEF RemoveRead, history
      <3>2. CASE removal'.kind = "cancel"
        <4>1. removal'.todo \subseteq removed
          BY <3>1, <3>2 DEF RemovalInOrder
        <4>. QED
          BY <1>1, <3>1, <4>1 DEF RemovalInOrder
      <3>. QED
        BY <3>2 DEF RemovalInOrder
    <2>. QED
      BY <1>1, <1>2, <2>1, PutsGone DEF RemoveRead, stores, history, Kept, TypeOK
  <1>3. CASE RemoveEnd \/ RemoveFails
    <2>1. RemovalInOrder'
      BY <1>3 DEF RemoveEnd, RemoveFails, NoRemoval, RemovalInOrder
    <2>. QED
      BY <1>1, <1>3, <2>1, PutsGone
      DEF RemoveEnd, RemoveFails, stores, history, Kept, TypeOK
  <1>4. ASSUME NEW kind \in Kinds, NEW ids \in SUBSET Ids, RemoveStart(kind, ids)
        PROVE  GoneInv'
    <2>1. RemovalInOrder'
      BY <1>4 DEF RemoveStart, RemovalInOrder, history
    <2>. QED
      BY <1>1, <1>4, <2>1, PutsGone DEF RemoveStart, stores, history, Kept, TypeOK
  <1>5. ASSUME NEW ids \in SUBSET Ids, RemoveFromBook(ids) PROVE GoneInv'
    <2>1. /\ archive' = archive /\ created' = created
          /\ removed' = removed \union (ids \intersect created)
          /\ \A o \in Ids : o \notin ids => book'[o] = book[o]
      BY <1>5 DEF RemoveFromBook
    <2>2. RemovalInOrder'
      BY <1>5, <2>1 DEF RemoveFromBook, RemovalInOrder, TypeOK
    <2>3. CollectInOrder'
      BY <1>1, <2>1 DEF CollectInOrder, CopiesExist, Settled, Kept
    <2>4. GoneIsFinal'
      BY <1>1, <2>1 DEF GoneIsFinal, Kept, TypeOK
    <2>. QED
      BY <1>7, <2>2, <2>3, <2>4
  <1>6. ASSUME NEW o \in Ids, RemoveFromArchive(o) PROVE GoneInv'
    <2>1. /\ UNCHANGED <<book, created, removed>>
          /\ \/ archive' = archive
             \/ o \in removed /\ archive' = [archive EXCEPT ![o] = "CANCELLED"]
      BY <1>6 DEF RemoveFromArchive, RemovalInOrder
    <2>2. RemovalInOrder'
      BY <1>6, <2>1 DEF RemoveFromArchive, RemovalInOrder, TypeOK
    <2>3. \A r \in Ids : r \in removed \/ archive'[r] = archive[r]
      BY <2>1 DEF TypeOK
    <2>4. CollectInOrder'
      BY <1>1, <2>1, <2>3 DEF CollectInOrder, Settled, Kept
    <2>5. GoneIsFinal'
      BY <1>1, <2>1, <2>3 DEF GoneIsFinal, Kept, TypeOK
    <2>. QED
      BY <1>7, <2>2, <2>4, <2>5
  <1>. QED
    BY <1>2, <1>3, <1>4, <1>5, <1>6 DEF RemovalStep

LEMMA CollectorGone ==
    ASSUME Typed, GoneInv, NEW c \in Collectors, CollectorStep(c) PROVE GoneInv'
  <1>. USE DEF Typed, GoneInv
  <1>1. /\ UNCHANGED <<removal, removed, created>>
        /\ RemovalInOrder'
    BY DEF CollectorStep, Collect, Copied, Collected, Crash, Copy, Delete, history,
           RemovalInOrder
  <1>2. CASE Collect(c)
    <2>1. /\ UNCHANGED <<archive, book>>
          /\ \A d \in Collectors : d # c => pc'[d] = pc[d] /\ snap'[d] = snap[d] /\ todo'[d] = todo[d]
          /\ \/ pc'[c] = "idle"
             \/ pc'[c] = "copy" /\ snap'[c] = book /\ todo'[c] = {o \in Ids : Kept(o)}
          /\ shared' = shared \union
                           {o \in {p \in Ids : Kept(p)} : \E d \in Collectors : Holds(d, o)}
          /\ pc[c] = "idle"
      BY <1>2 DEF Collect, stores, TypeOK
    <2>2. CollectInOrder'
      BY <1>1, <2>1 DEF CollectInOrder, Settled, Kept
    <2>3. Apart'
      BY <2>1 DEF Apart, Holds, Kept
    <2>4. TodoHeld'
      BY <2>1 DEF TodoHeld, Kept
    <2>. QED
      BY <1>1, <2>1, <2>2, <2>3, <2>4 DEF GoneIsFinal, Kept
  <1>3. CASE Copied(c)
    <2>1. /\ UNCHANGED <<archive, book, snap, shared>>
          /\ pc[c] = "copy" /\ todo[c] = {}
          /\ \A d \in Collectors : d # c => pc'[d] = pc[d] /\ todo'[d] = todo[d]
          /\ pc'[c] = "delete" /\ todo'[c] = {o \in Ids : Finished(snap[c][o])}
      BY <1>3 DEF Copied, stores, overlap, TypeOK
    <2>2. \A o \in todo'[c] \ shared : Settled(o)
      BY <2>1 DEF CollectInOrder, Settled, Finished
    <2>3. CollectInOrder'
      BY <1>1, <2>1, <2>2 DEF CollectInOrder, Settled, Kept
    <2>4. Apart' /\ TodoHeld'
      BY <2>1 DEF Apart, TodoHeld, Holds, Finished
    <2>. QED
      BY <1>1, <2>1, <2>3, <2>4 DEF GoneIsFinal, Kept
  <1>4. CASE Collected(c) \/ Crash(c)
    <2>1. /\ UNCHANGED <<archive, book>>
          /\ \A d \in Collectors : d # c => pc'[d] = pc[d] /\ snap'[d] = snap[d] /\ todo'[d] = todo[d]
          /\ pc'[c] = "idle" /\ shared' = shared
      BY <1>4 DEF Collected, Crash, Return, stores, overlap, TypeOK
    <2>2. CollectInOrder'
      BY <1>1, <2>1 DEF CollectInOrder, Settled, Kept
    <2>3. Apart' /\ TodoHeld'
      BY <2>1 DEF Apart, TodoHeld, Holds
    <2>. QED
      BY <1>1, <2>1, <2>2, <2>3 DEF GoneIsFinal, Kept
  <1>5. ASSUME NEW o \in Ids, Copy(c, o) PROVE GoneInv'
    <2>1. /\ UNCHANGED <<book, pc, snap, shared>>
          /\ pc[c] = "copy" /\ o \in todo[c]
          /\ archive'[o] = snap[c][o]
          /\ \A r \in Ids : r # o => archive'[r] = archive[r]
          /\ todo'[c] = todo[c] \ {o}
          /\ \A d \in Collectors : d # c => todo'[d] = todo[d]
      BY <1>5 DEF Copy, overlap, TypeOK
    <2>2. o \notin shared =>
              \A d \in Collectors : d # c => pc[d] = "idle" \/ snap[d][o] = "ABSENT"
      BY <2>1 DEF Apart, TodoHeld, Holds
    <2>3. o \notin shared => Finished(snap[c][o]) \/ Kept(o) \/ o \in removed
      BY <2>1 DEF CollectInOrder, TodoHeld
    <2>6. Apart' /\ TodoHeld'
      BY <2>1 DEF Apart, TodoHeld, Holds
    <2>4. CollectInOrder'
      BY <1>1, <2>1, <2>2 DEF CollectInOrder, TodoHeld, Settled, Kept
    <2>5. GoneIsFinal'
      BY <1>1, <2>1, <2>3 DEF GoneIsFinal, Kept, TypeOK
    <2>. QED
      BY <1>1, <2>4, <2>5, <2>6
  <1>6. ASSUME NEW o \in Ids, Delete(c, o) PROVE GoneInv'
    <2>1. /\ UNCHANGED <<archive, pc, snap, shared>>
          /\ pc[c] = "delete" /\ o \in todo[c]
          /\ \A r \in Ids : r # o => book'[r] = book[r]
          /\ todo'[c] = todo[c] \ {o}
          /\ \A d \in Collectors : d # c => todo'[d] = todo[d]
      BY <1>6 DEF Delete, Put, overlap, TypeOK
    <2>2. o \notin shared =>
              \A d \in Collectors : d # c => pc[d] = "idle" \/ snap[d][o] = "ABSENT"
      BY <2>1 DEF Apart, TodoHeld, Holds
    <2>3. o \notin shared => Settled(o)
      BY <2>1 DEF CollectInOrder
    <2>6. Apart' /\ TodoHeld'
      BY <2>1 DEF Apart, TodoHeld, Holds
    <2>4. CollectInOrder'
      BY <1>1, <2>1, <2>2 DEF CollectInOrder, TodoHeld, Settled, Kept
    <2>5. GoneIsFinal'
      BY <1>1, <2>1, <2>3 DEF GoneIsFinal, Settled, Kept, TypeOK
    <2>. QED
      BY <1>1, <2>4, <2>5, <2>6
  <1>. QED
    BY <1>2, <1>3, <1>4, <1>5, <1>6 DEF CollectorStep

LEMMA NextGone == Typed /\ GoneInv /\ [Next]_vars => GoneInv'
  <1>. SUFFICES ASSUME Typed, GoneInv, [Next]_vars PROVE GoneInv'
    OBVIOUS
  <1>1. ASSUME UNCHANGED <<stores, pc, snap, todo, removal, history, shared>> PROVE GoneInv'
    BY <1>1, PutsGone DEF stores, history, Kept, Typed, TypeOK, GoneInv, RemovalInOrder
  <1>2. CASE CronCount \/ CronAdd \/ UNCHANGED vars
    BY <1>1, <1>2 DEF CronCount, CronAdd, vars, collector, overlap
  <1>. QED
    BY <1>2, WriterGone, ApiGone, RemovalGone, CollectorGone DEF Next

\* Deleting by the snapshot is safe: an order that is in the book no more is finished in
\* the archive, or the user has removed it - for any number of orders, writers, feeders,
\* crashes of feeders and collections at a time - unless two of them had it in their
\* snapshots at once.
THEOREM NothingLeavesUnfinished == Spec => []GoneIsFinal
  <1>1. GoneInv => GoneIsFinal
    BY DEF GoneInv
  <1>. QED
    BY <1>1, InitTyped, NextTyped, InitGone, NextGone, PTL DEF Spec
----------------------------------------------------------------------------
(***************************************************************************)
(* ArchiveKeepsFinal: what is said of an order by the book, by the copies   *)
(* of it and by a running collector.  Of an order nobody has contested all  *)
(* of them that have it as finished have it finished in the same way, and   *)
(* once the archive has that, nobody has it active any more - or nobody     *)
(* has it at all, and the archive is what the user has made of it.          *)
(***************************************************************************)
Ends == {"CLOSED", "CANCELLED"}

Says(o, s) ==
    \/ book[o] = s
    \/ \E w \in Writers : held[w] = o /\ copy[w] = s
    \/ mine = o /\ mineAs = s
    \/ \E c \in Collectors : pc[c] # "idle" /\ snap[c][o] = s

\* Only the archive has it.
Gone(o) == o \in created /\ ~Kept(o) /\ ~InHand(o)

Agreed(o)   == \A s, t \in Ends : Says(o, s) /\ Says(o, t) => s = t
Unended(o)  == Active(book[o]) => \A s \in Ends : ~Says(o, s)
Archived(o) ==
    Finished(archive[o]) =>
        \/ Gone(o)
        \/ /\ ~Active(book[o])
           /\ \A s \in Ends : Says(o, s) => s = archive[o]
           /\ \A c \in Collectors : pc[c] # "idle" => ~Active(snap[c][o])

Final(o) == Agreed(o) /\ Unended(o) /\ (o \in deleted => Gone(o)) /\ Archived(o)

FinalInv ==
    /\ \A o \in Ids : archive[o] # "ABSENT" => o \in created
    /\ mine # None => mine \in created
    /\ shared \subseteq contested
    /\ \A o \in Ids \ contested : Final(o)

\* A step after which nothing more is said of the order.
LEMMA StillFinal ==
    ASSUME NEW o \in Ids, Final(o),
           archive'[o] = archive[o],
           o \in deleted' => o \in deleted,
           \A s \in Ends : Says(o, s)' => Says(o, s),
           Active(book[o])' => Active(book[o]),
           \A c \in Collectors :
               pc'[c] # "idle" /\ Active(snap'[c][o]) =>
                   Active(book[o]) \/ (pc[c] # "idle" /\ Active(snap[c][o])),
           Gone(o) => Gone(o)'
    PROVE  Final(o)'
  <1>1. Agreed(o)' /\ Unended(o)'
    BY DEF Final, Agreed, Unended
  <1>2. Archived(o)'
    BY DEF Final, Archived
  <1>. QED
    BY <1>1, <1>2 DEF Final

\* An active order of the book becomes what is written, and nobody else has ended it.
LEMMA EndedHere ==
    ASSUME NEW o \in Ids, Final(o), Active(book[o]), NEW status,
           archive'[o] = archive[o],
           o \in deleted' => o \in deleted,
           book'[o] = status,
           \A s \in Ends : Says(o, s)' => Says(o, s) \/ s = status
    PROVE  Final(o)'
  <1>1. /\ \A s \in Ends : ~Says(o, s)
        /\ ~Gone(o)
        /\ o \notin deleted
        /\ ~Finished(archive[o])
    BY DEF Final, Unended, Archived, Gone, Kept, Active
  <1>2. Agreed(o)' /\ Unended(o)'
    BY <1>1 DEF Agreed, Unended, Ends, Active
  <1>3. Archived(o)'
    BY <1>1 DEF Archived, Finished
  <1>. QED
    BY <1>1, <1>2, <1>3 DEF Final

\* Of what only the archive has, or nobody, nothing is said.
LEMMA NothingSaid ==
    ASSUME NEW o \in Ids, ~Kept(o), ~InHand(o)
    PROVE  ~Active(book[o]) /\ \A s \in Ends : ~Says(o, s)
  BY DEF Kept, InHand, Holds, Says, Ends, Active

LEMMA InitFinal == Init => FinalInv
  BY DEF Init, FinalInv, Final, Agreed, Unended, Archived, Says, Ends, Finished

\* What a step that is not the collector's copy or the user's removal keeps.
LEMMA StoredGoes ==
    ASSUME FinalInv, Typed,
           archive' = archive, created \subseteq created', contested \subseteq contested',
           mine' # None => mine' \in created',
           shared' \subseteq contested',
           \A o \in Ids \ contested' : Final(o) => Final(o)'
    PROVE  FinalInv'
  BY DEF FinalInv

LEMMA WriterFinal ==
    ASSUME Typed, FinalInv, NEW w \in Writers, WriterStep(w) PROVE FinalInv'
  <1>. USE OrderArchiveAssumption DEF Typed, TypeOK
  <1>1. /\ UNCHANGED <<archive, deleted, pc, snap, mine, mineAs, shared>>
        /\ \A v \in Writers : v # w => held'[v] = held[v] /\ copy'[v] = copy[v]
    BY DEF WriterStep, GiveUp, Create, Read, Write, LetGo, Hold, collector, closing, stores,
           overlap
  <1>2. CASE GiveUp(w)
    <2>1. book' = book /\ held'[w] = None /\ UNCHANGED history
      BY <1>2 DEF GiveUp, LetGo, Hold, stores
    <2>2. ASSUME NEW o \in Ids, Final(o) PROVE Final(o)'
      BY <1>1, <2>1, <2>2, StillFinal DEF Says, Gone, Kept, InHand, Holds, history
    <2>. QED
      BY <1>1, <2>1, <2>2, StoredGoes DEF history, FinalInv
  <1>3. ASSUME NEW p \in Ids, Create(w, p) PROVE FinalInv'
    <2>1. /\ p \notin created /\ created' = created \union {p} /\ contested' = contested
          /\ held[w] = None
          /\ book' = [book EXCEPT ![p] = "WAIT_OPEN"]
          /\ held'[w] = p /\ copy'[w] = "WAIT_OPEN"
      BY <1>3 DEF Create, Put, Hold
    <2>2. ASSUME p \notin contested PROVE Final(p)'
      <3>1. ~Kept(p) /\ ~InHand(p) /\ archive[p] = "ABSENT"
        BY <2>1 DEF FinalInv, CopiesExist, InHand, Holds
      <3>2. \A s \in Ends : ~Says(p, s)'
        BY <1>1, <2>1, <3>1 DEF Says, Ends, InHand, Holds, Kept
      <3>3. p \notin deleted
        BY <2>1, <2>2 DEF FinalInv, Final, Gone
      <3>. QED
        BY <1>1, <2>1, <2>2, <3>1, <3>2, <3>3 DEF Final, Agreed, Unended, Archived, Finished
    <2>3. ASSUME NEW o \in Ids, Final(o), o # p PROVE Final(o)'
      BY <1>1, <2>1, <2>3, StillFinal DEF Says, Gone, Kept, InHand, Holds
    <2>. QED
      BY <1>1, <2>1, <2>2, <2>3, StoredGoes DEF FinalInv
  <1>4. ASSUME NEW p \in Ids, Read(w, p) PROVE FinalInv'
    <2>1. /\ Active(book[p]) /\ UNCHANGED history /\ book' = book
          /\ held[w] = None /\ held'[w] = p /\ copy'[w] = book[p]
      BY <1>4 DEF Read, Hold, stores
    <2>2. ASSUME NEW o \in Ids, Final(o) PROVE Final(o)'
      <3>1. Gone(o) => Gone(o)'
        BY <1>1, <2>1 DEF Gone, Kept, InHand, Holds, Active, history
      <3>2. \A s \in Ends : Says(o, s)' => Says(o, s)
        BY <1>1, <2>1 DEF Says
      <3>. QED
        BY <1>1, <2>1, <2>2, <3>1, <3>2, StillFinal
    <2>. QED
      BY <1>1, <2>1, <2>2, StoredGoes DEF history, FinalInv
  <1>5. ASSUME NEW p \in Ids, held[w] = p, NEW status \in Status, Write(w, status)
        PROVE  FinalInv'
    <2>1. /\ status \in Successors(p, copy[w])
          /\ book' = [book EXCEPT ![p] = status]
          /\ contested' = IF UpToDate(p, copy[w]) THEN contested ELSE contested \union {p}
          /\ created' = created
          /\ held'[w] = None \/ (held'[w] = p /\ copy'[w] = status)
          /\ copy[w] # "ABSENT" /\ copy[w] \in Status
      BY <1>5 DEF Write, Put, Note, LetGo, Hold, CopiesExist
    <2>2. ASSUME NEW o \in Ids, Final(o), o # p PROVE Final(o)'
      BY <1>1, <1>5, <2>1, <2>2, StillFinal DEF Says, Gone, Kept, InHand, Holds
    <2>3. ASSUME Final(p), UpToDate(p, copy[w]) PROVE Final(p)'
      <3>1. book'[p] = status /\ ~Gone(p)
        BY <1>5, <2>1 DEF Gone, InHand, Holds
      <3>2. CASE Active(copy[w])
        <4>1. Active(book[p])
          BY <2>3, <3>2 DEF UpToDate, Active, Finished
        <4>2. \A s \in Ends : Says(p, s)' => Says(p, s) \/ s = status
          BY <1>1, <1>5, <2>1 DEF Says
        <4>. QED
          BY <1>1, <2>1, <2>3, <3>1, <4>1, <4>2, EndedHere
      <3>3. CASE ~Active(copy[w])
        <4>1. status = copy[w] /\ Finished(status)
          BY <2>1, <3>3 DEF Successors, Active, Finished, Status
        <4>2. \A s \in Ends : Says(p, s)' => Says(p, s)
          BY <1>1, <1>5, <2>1, <4>1 DEF Says
        <4>3. ~Active(book[p])'
          BY <3>1, <4>1 DEF Active, Finished
        <4>. QED
          BY <1>1, <2>1, <2>3, <3>1, <4>2, <4>3, StillFinal
      <3>. QED
        BY <3>2, <3>3
    <2>4. ASSUME NEW o \in Ids \ contested', Final(o) PROVE Final(o)'
      BY <2>1, <2>2, <2>3, <2>4
    <2>. QED
      BY <1>1, <2>1, <2>4, StoredGoes DEF FinalInv
  <1>. QED
    BY <1>2, <1>3, <1>4, <1>5 DEF WriterStep, Write

LEMMA ApiFinal ==
    ASSUME Typed, FinalInv, ApiStep PROVE FinalInv'
  <1>. USE OrderArchiveAssumption DEF Typed, TypeOK
  <1>1. UNCHANGED <<archive, deleted, pc, snap, held, copy, created, shared>>
    BY DEF ApiStep, ApiSale, ApiWrite, ApiCount, ApiAdd, ApiClose, collector, writer, stores,
           history, overlap
  \* Nothing is written and the object stays as it is or is forgotten.
  <1>2. ASSUME book' = book, contested' = contested,
               mine' = None \/ (mine' = mine /\ mineAs' = mineAs)
        PROVE  FinalInv'
    <2>1. ASSUME NEW o \in Ids, Final(o) PROVE Final(o)'
      BY <1>1, <1>2, <2>1, StillFinal DEF Says, Gone, Kept, InHand, Holds
    <2>. QED
      BY <1>1, <1>2, <2>1, StoredGoes DEF FinalInv
  \* The object is written.
  <1>3. ASSUME NEW status, NEW p \in created, mine = p,
               book' = [book EXCEPT ![p] = status], Note(p, mineAs),
               mine' = None \/ (mine' = p /\ mineAs' = status),
               \/ mineAs = "OPENED"
               \/ status = mineAs /\ Finished(status)
        PROVE  FinalInv'
    <2>1. ASSUME NEW o \in Ids, Final(o), o # p PROVE Final(o)'
      BY <1>1, <1>3, <2>1, StillFinal DEF Says, Gone, Kept, InHand, Holds
    <2>2. ASSUME Final(p), UpToDate(p, mineAs) PROVE Final(p)'
      <3>1. book'[p] = status /\ ~Gone(p)
        BY <1>3 DEF Gone, InHand, Holds
      <3>2. CASE mineAs = "OPENED"
        <4>1. Active(book[p])
          BY <2>2, <3>2 DEF UpToDate, Active, Finished
        <4>2. \A s \in Ends : Says(p, s)' => Says(p, s) \/ s = status
          BY <1>1, <1>3 DEF Says
        <4>. QED
          BY <1>1, <1>3, <2>2, <3>1, <4>1, <4>2, EndedHere
      <3>3. CASE status = mineAs /\ Finished(status)
        <4>. QED
          BY <1>1, <1>3, <2>2, <3>1, <3>3, StillFinal DEF Says, Active, Finished
      <3>. QED
        BY <1>3, <3>2, <3>3
    <2>. QED
      BY <1>1, <1>3, <2>1, <2>2, StoredGoes DEF FinalInv, Note
  <1>4. CASE ApiSale
    <2>1. mine \in created /\ mineAs \in {"OPENED", "CLOSED"}
      BY <1>4 DEF ApiSale, CopiesExist
    <2>2. \/ /\ book' = [book EXCEPT ![mine] = "CLOSED"] /\ Note(mine, mineAs)
             /\ mine' = None \/ (mine' = mine /\ mineAs' = "CLOSED")
          \/ /\ book' = book /\ contested' = contested
             /\ mine' = None \/ (mine' = mine /\ mineAs' = mineAs)
      BY <1>4 DEF ApiSale, Put, ForgetMine
    <2>. QED
      BY <1>2, <1>3, <2>1, <2>2 DEF Finished
  <1>5. CASE ApiWrite
    <2>1. mine \in created /\ mineAs \in {"OPENED", "CLOSED"}
      BY <1>5 DEF ApiWrite, CopiesExist
    <2>2. /\ mine' = mine /\ mineAs' = mineAs
          /\ \/ book' = [book EXCEPT ![mine] = mineAs] /\ Note(mine, mineAs)
             \/ book' = book /\ contested' = contested
      BY <1>5 DEF ApiWrite, Put
    <2>. QED
      BY <1>2, <1>3, <2>1, <2>2 DEF Finished
  <1>6. CASE ApiCount
    BY <1>2, <1>6 DEF ApiCount, ApiEnd, ForgetMine, stores, history
  <1>7. CASE ApiAdd
    BY <1>2, <1>7 DEF ApiAdd, ApiEnd, ForgetMine, stores, history
  <1>8. ASSUME NEW p \in Ids, ApiClose(p) PROVE FinalInv'
    <2>1. /\ book' = book /\ contested' = contested
          /\ book[p] = "OPENED" /\ mine' = p /\ mineAs' = "OPENED"
      BY <1>8 DEF ApiClose, stores, history
    <2>2. ASSUME NEW o \in Ids, Final(o) PROVE Final(o)'
      <3>1. Gone(o) => Gone(o)'
        BY <1>1, <2>1 DEF Gone, Kept, InHand, Holds
      <3>2. \A s \in Ends : Says(o, s)' => Says(o, s)
        BY <1>1, <2>1 DEF Says, Ends
      <3>. QED
        BY <1>1, <2>1, <2>2, <3>1, <3>2, StillFinal
    <2>. QED
      BY <1>1, <2>1, <2>2, StoredGoes DEF FinalInv, CopiesExist, Kept
  <1>. QED
    BY <1>4, <1>5, <1>6, <1>7, <1>8 DEF ApiStep

LEMMA RemovalFinal ==
    ASSUME Typed, GoneInv, FinalInv, RemovalStep PROVE FinalInv'
  <1>. USE OrderArchiveAssumption DEF Typed, TypeOK
  <1>1. UNCHANGED <<pc, snap, held, copy, mine, mineAs, created, shared>>
    BY DEF RemovalStep, RemoveRead, RemoveEnd, RemoveFails, RemoveStart, RemoveFromBook,
           RemoveFromArchive, collector, writer, closing, history, overlap
  <1>2. ASSUME UNCHANGED <<stores, history>> PROVE FinalInv'
    BY <1>1, <1>2 DEF FinalInv, Final, Agreed, Unended, Archived, Says, Gone, Kept, InHand, Holds,
                      stores, history
  <1>3. ASSUME NEW ids \in SUBSET Ids, RemoveFromBook(ids) PROVE FinalInv'
    <2>1. /\ archive' = archive /\ deleted' = deleted
          /\ \A o \in Ids : book'[o] = IF o \in ids THEN "ABSENT" ELSE book[o]
          /\ contested' = contested \union {o \in ids : InHand(o)}
      BY <1>3 DEF RemoveFromBook
    <2>2. ASSUME NEW o \in Ids, Final(o) PROVE Final(o)'
      <3>1. \A s \in Ends : Says(o, s)' => Says(o, s)
        BY <1>1, <2>1 DEF Says, Ends
      <3>2. Gone(o) => Gone(o)'
        BY <1>1, <2>1 DEF Gone, Kept, InHand, Holds
      <3>3. Active(book[o])' => Active(book[o])
        BY <2>1 DEF Active
      <3>. QED
        BY <1>1, <2>1, <2>2, <3>1, <3>2, <3>3, StillFinal
    <2>. QED
      BY <1>1, <2>1, <2>2, StoredGoes DEF FinalInv
  <1>4. ASSUME NEW p \in Ids, RemoveFromArchive(p) PROVE FinalInv'
    <2>1. /\ UNCHANGED <<book, created>>
          /\ archive[p] = "ABSENT" => archive' = archive /\ deleted' = deleted
          /\ \A o \in Ids : o # p => archive'[o] = archive[o]
          /\ deleted' \subseteq deleted \union {p}
          /\ contested' = IF Kept(p) \/ InHand(p) THEN contested \union {p} ELSE contested
      BY <1>4 DEF RemoveFromArchive
    <2>2. ASSUME NEW o \in Ids, Final(o), o # p \/ archive[p] = "ABSENT" PROVE Final(o)'
      BY <1>1, <2>1, <2>2, StillFinal DEF Says, Gone, Kept, InHand, Holds
    <2>3. ASSUME archive[p] # "ABSENT", p \notin contested' PROVE Final(p)'
      <3>1. ~Kept(p) /\ ~InHand(p) /\ p \in created
        BY <2>1, <2>3 DEF FinalInv
      <3>2. /\ Gone(p)' /\ ~Active(book[p])'
            /\ \A s \in Ends : ~Says(p, s)'
        BY <1>1, <2>1, <3>1, NothingSaid DEF Gone, Kept, InHand, Holds, Says
      <3>. QED
        BY <3>2 DEF Final, Agreed, Unended, Archived
    <2>4. \A o \in Ids \ contested' : Final(o)'
      BY <2>1, <2>2, <2>3 DEF FinalInv
    <2>. QED
      BY <1>1, <2>1, <2>4 DEF FinalInv
  <1>. QED
    BY <1>2, <1>3, <1>4 DEF RemovalStep, RemoveRead, RemoveEnd, RemoveFails, RemoveStart

\* What the collector copies is not gone, and what was finished in the archive it copies as
\* it is there.
LEMMA CopiesTheSame ==
    ASSUME Typed, GoneInv, NEW c \in Collectors, NEW o \in Ids \ shared, Copy(c, o), Final(o)
    PROVE  /\ o \notin deleted
           /\ Finished(archive[o]) => snap[c][o] = archive[o]
           /\ Finished(snap[c][o]) => Final(o)'
           /\ ~Finished(snap[c][o]) => Final(o)'
  <1>. USE OrderArchiveAssumption DEF Typed, TypeOK
  <1>1. /\ pc[c] = "copy" /\ snap[c][o] # "ABSENT" /\ snap[c][o] \in Status
        /\ archive'[o] = snap[c][o]
        /\ deleted' = deleted \ {o}
        /\ UNCHANGED <<book, held, copy, mine, mineAs, pc, snap, created>>
    BY DEF Copy, GoneInv, TodoHeld, writer, closing, history
  <1>2. ~Gone(o)
    BY <1>1 DEF Gone, InHand, Holds
  <1>3. Finished(snap[c][o]) =>
            /\ snap[c][o] \in Ends /\ Says(o, snap[c][o])
            /\ \A s \in Ends : Says(o, s) => s = snap[c][o]
    BY <1>1 DEF Says, Finished, Ends, Final, Agreed
  <1>4. \A s : Says(o, s)' <=> Says(o, s)
    BY <1>1 DEF Says
  <1>5. Agreed(o)' /\ Unended(o)' /\ o \notin deleted'
    BY <1>1, <1>4 DEF Final, Agreed, Unended
  <1>6. Finished(snap[c][o]) => Archived(o)'
    <2>. SUFFICES ASSUME Finished(snap[c][o]) PROVE Archived(o)'
      OBVIOUS
    <2>1. ~Active(book[o])'
      BY <1>1, <1>3 DEF Final, Unended
    <2>2. \A d \in Collectors : Holds(d, o) => d = c
      BY <1>1 DEF GoneInv, Apart, Holds
    <2>3. \A d \in Collectors : pc'[d] # "idle" => ~Active(snap'[d][o])
      BY <1>1, <2>2 DEF Active, Finished, Holds
    <2>. QED
      BY <1>1, <1>3, <1>4, <2>1, <2>3 DEF Archived
  <1>7. ~Finished(snap[c][o]) => Archived(o)'
    BY <1>1 DEF Archived
  <1>8. Finished(archive[o]) => snap[c][o] = archive[o]
    BY <1>1, <1>2, <1>3 DEF Final, Archived, Active, Finished, Status
  <1>. QED
    BY <1>2, <1>5, <1>6, <1>7, <1>8 DEF Final

LEMMA CollectorFinal ==
    ASSUME Typed, GoneInv, FinalInv, NEW c \in Collectors, CollectorStep(c)
    PROVE  FinalInv'
  <1>. USE OrderArchiveAssumption DEF Typed, TypeOK
  <1>1. /\ UNCHANGED <<held, copy, mine, mineAs, created>>
        /\ contested \subseteq contested' /\ shared' \subseteq contested'
    BY DEF CollectorStep, Collect, Copied, Collected, Crash, Copy, Delete, writer, closing,
           history, overlap, FinalInv
  <1>2. ASSUME archive' = archive, deleted' = deleted,
               NEW p \in Ids, book' = book \/ book' = [book EXCEPT ![p] = "ABSENT"],
               \A d \in Collectors : d # c => pc'[d] = pc[d] /\ snap'[d] = snap[d],
               \/ pc'[c] = "idle"
               \/ snap'[c] = book
               \/ pc[c] # "idle" /\ snap'[c] = snap[c]
        PROVE  FinalInv'
    <2>1. \A o \in Ids : book'[o] \in {book[o], "ABSENT"}
      BY <1>2
    <2>2. ASSUME NEW o \in Ids, Final(o) PROVE Final(o)'
      <3>1. \A s \in Ends : Says(o, s)' => Says(o, s)
        BY <1>1, <1>2, <2>1 DEF Says, Ends
      <3>2. Gone(o) => Gone(o)'
        BY <1>1, <1>2, <2>1 DEF Gone, Kept, InHand, Holds
      <3>3. Active(book[o])' => Active(book[o])
        BY <2>1 DEF Active
      <3>4. \A d \in Collectors :
               pc'[d] # "idle" /\ Active(snap'[d][o]) =>
                   Active(book[o]) \/ (pc[d] # "idle" /\ Active(snap[d][o]))
        BY <1>2
      <3>. QED
        BY <1>2, <2>2, <3>1, <3>2, <3>3, <3>4, StillFinal
    <2>. QED
      BY <1>1, <1>2, <2>2, StoredGoes DEF FinalInv
  <1>3. CASE Ids = {}
    BY <1>1, <1>3 DEF FinalInv
  <1>4. CASE Collect(c)
    BY <1>2, <1>3, <1>4 DEF Collect, stores
  <1>5. CASE Copied(c)
    BY <1>2, <1>3, <1>5 DEF Copied, stores
  <1>6. CASE Collected(c) \/ Crash(c)
    BY <1>2, <1>3, <1>6 DEF Collected, Crash, Return, stores
  <1>7. ASSUME NEW p \in Ids, Delete(c, p) PROVE FinalInv'
    BY <1>2, <1>7 DEF Delete, Put
  <1>8. ASSUME NEW p \in Ids, Copy(c, p) PROVE FinalInv'
    <2>1. /\ \A o \in Ids : o # p => archive'[o] = archive[o]
          /\ archive'[p] = snap[c][p]
          /\ deleted' \subseteq deleted
          /\ UNCHANGED <<book, pc, snap>>
          /\ snap[c][p] # "ABSENT"
      BY <1>8 DEF Copy, GoneInv, TodoHeld
    <2>2. ASSUME NEW o \in Ids, Final(o), o # p PROVE Final(o)'
      BY <1>1, <2>1, <2>2, StillFinal DEF Says, Gone, Kept, InHand, Holds
    <2>3. p \notin contested /\ Final(p) => Final(p)'
      BY <1>8, CopiesTheSame DEF FinalInv
    <2>4. p \in created
      BY <2>1 DEF CopiesExist
    <2>. QED
      BY <1>1, <2>1, <2>2, <2>3, <2>4 DEF FinalInv
  <1>. QED
    BY <1>4, <1>5, <1>6, <1>7, <1>8 DEF CollectorStep

LEMMA NextFinal == Typed /\ GoneInv /\ FinalInv /\ [Next]_vars => FinalInv'
  <1>. SUFFICES ASSUME Typed, GoneInv, FinalInv, [Next]_vars PROVE FinalInv'
    OBVIOUS
  <1>1. CASE CronCount \/ CronAdd \/ UNCHANGED vars
    <2>1. UNCHANGED <<stores, held, copy, pc, snap, mine, mineAs, history, shared>>
      BY <1>1 DEF CronCount, CronAdd, vars, writer, collector, closing, overlap
    <2>. QED
      BY <2>1 DEF FinalInv, Final, Agreed, Unended, Archived, Says, Gone, Kept, InHand, Holds, stores,
                  history
  <1>. QED
    BY <1>1, WriterFinal, ApiFinal, RemovalFinal, CollectorFinal DEF Next

\* What a step may do to the archive of an order nobody has contested.
KeepsFinal ==
    \A o \in (Ids \ contested) :
        /\ o \in deleted => o \in deleted'
        /\ Finished(archive[o]) =>
             (archive'[o] = archive[o] \/ (o \in removed /\ Finished(archive'[o])))

LEMMA StepKeepsFinal ==
    Typed /\ GoneInv /\ FinalInv /\ [Next]_vars => KeepsFinal
  <1>. SUFFICES ASSUME Typed, GoneInv, FinalInv, [Next]_vars PROVE KeepsFinal
    OBVIOUS
  <1>1. ASSUME archive' = archive, deleted' = deleted PROVE KeepsFinal
    BY <1>1 DEF KeepsFinal
  <1>2. ASSUME NEW c \in Collectors, NEW p \in Ids, Copy(c, p) PROVE KeepsFinal
    <2>1. /\ \A o \in Ids : o # p => archive'[o] = archive[o]
          /\ archive'[p] = snap[c][p]
          /\ deleted' = deleted \ {p}
      BY <1>2 DEF Copy, Typed, TypeOK
    <2>2. p \notin contested =>
              p \notin deleted /\ (Finished(archive[p]) => snap[c][p] = archive[p])
      BY <1>2, CopiesTheSame DEF FinalInv
    <2>. QED
      BY <2>1, <2>2 DEF KeepsFinal
  <1>3. ASSUME NEW p \in Ids, RemoveFromArchive(p) PROVE KeepsFinal
    <2>1. /\ deleted \subseteq deleted'
          /\ \/ archive' = archive
             \/ p \in removed /\ archive' = [archive EXCEPT ![p] = "CANCELLED"]
      BY <1>3 DEF RemoveFromArchive, GoneInv, RemovalInOrder
    <2>. QED
      BY <2>1 DEF KeepsFinal, Finished, Typed, TypeOK
  <1>4. ASSUME NEW w \in Writers, WriterStep(w) PROVE KeepsFinal
    BY <1>1, <1>4 DEF WriterStep, GiveUp, Create, Read, Write, stores
  <1>5. ASSUME NEW c \in Collectors, CollectorStep(c) PROVE KeepsFinal
    BY <1>1, <1>2, <1>5 DEF CollectorStep, Collect, Copied, Collected, Crash, Delete, stores
  <1>6. CASE ApiStep
    BY <1>1, <1>6 DEF ApiStep, ApiSale, ApiWrite, ApiCount, ApiAdd, ApiClose, stores
  <1>7. CASE RemovalStep
    BY <1>1, <1>3, <1>7
    DEF RemovalStep, RemoveRead, RemoveEnd, RemoveFails, RemoveStart, RemoveFromBook, stores
  <1>8. CASE CronCount \/ CronAdd \/ UNCHANGED vars
    BY <1>1, <1>8 DEF CronCount, CronAdd, vars, stores
  <1>. QED
    BY <1>4, <1>5, <1>6, <1>7, <1>8 DEF Next

\* What the archive has as finished or deleted stays so, and only the user makes a closed
\* order a cancelled one, unless somebody's work was overwritten: the snapshot a collector
\* copies, however old, has finished orders as everybody has them, and no order that only
\* the archive still has, as long as no other collector has the order.
THEOREM WhatIsFinalStays == Spec => ArchiveKeepsFinal
  <1>1. Typed /\ GoneInv /\ FinalInv /\ [Next]_vars => [KeepsFinal]_vars
    BY StepKeepsFinal
  <1>2. ArchiveKeepsFinal <=> [][KeepsFinal]_vars
    BY DEF ArchiveKeepsFinal, KeepsFinal
  <1>. QED
    BY <1>1, <1>2, InitTyped, NextTyped, InitGone, NextGone, InitFinal, NextFinal, PTL DEF Spec
=============================================================================
