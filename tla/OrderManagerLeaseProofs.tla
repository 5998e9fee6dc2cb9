---------------------- MODULE OrderManagerLeaseProofs ----------------------
(***************************************************************************)
(* What the loop of setMainOrderManager() guarantees for any number of     *)
(* traders and any times, as long as a GET and the write that follows it   *)
(* are closer together than two calls of the loop.                         *)
(***************************************************************************)
EXTENDS OrderManagerLease, TLAPS

\* A call between its GET and its write is as fresh as Delay.
Fresh ==
    \A p \in Traders : pc[p] \in {"claim", "refresh", "reset"} => wait[p] <= Delay

\* steady is the time since the key was last missing or old.
Rested == key = None \/ Old => steady = 0

\* Whoever claims or deletes the key has seen it missing or old.
ClaimSeen == \A p \in Traders : pc[p] \in {"claim", "reset"} => steady <= wait[p]

\* Whoever refreshes a key that it lost meanwhile lost it shortly after the key was
\* missing or old, and the new holder will not call before the refresh is over.
RefreshLost ==
    \A q \in Traders : pc[q] = "refresh" /\ key # q =>
        /\ steady <= Delay + wait[q]
        /\ key # None => pc[key] \in {"idle", "dead"} /\ wait[key] <= wait[q]

\* A cron run that lost the key during the run lost it in the same way.
CronLost ==
    \A p \in cron : /\ ran[p] <= CronTime
                    /\ key # p => steady <= Unrest + ran[p]

LoopInv  == TypeOK /\ Fresh /\ Rested /\ ClaimSeen /\ RefreshLost
LeaseInv == LoopInv /\ CronLost

----------------------------------------------------------------------------
\* The key and every loop of setMainOrderManager() stay within their types.
THEOREM LeaseTyping == Spec => []TypeOK
  <1>. USE LeaseAssumption
  <1>1. Init => TypeOK
    BY DEF Init, TypeOK, Pcs
  <1>2. TypeOK /\ [Next]_vars => TypeOK'
    <2>. SUFFICES ASSUME TypeOK, [Next]_vars PROVE TypeOK'
      OBVIOUS
    <2>. USE DEF TypeOK, Pcs
    <2>1. CASE Tick
      <3>1. age' \in 0 .. Lease + 1
        BY <2>1 DEF Tick, Least
      <3>2. /\ wait' \in [Traders -> Nat]
            /\ ran' \in [Traders -> Nat]
        BY <2>1 DEF Tick
      <3>3. steady' \in Nat /\ unserved' \in Nat
        BY <2>1 DEF Tick, Least, Unrest, Failover
      <3>. QED
        BY <2>1, <3>1, <3>2, <3>3 DEF Tick
    <2>2. ASSUME NEW p \in Traders, Read(p) PROVE TypeOK'
      BY <2>2 DEF Read, Goto, runs, hist
    <2>3. ASSUME NEW p \in Traders, Write(p) PROVE TypeOK'
      BY <2>3 DEF Write, Goto, Least, runs
    <2>4. ASSUME NEW p \in Traders, Reset(p) PROVE TypeOK'
      BY <2>4 DEF Reset, Goto, runs
    <2>5. ASSUME NEW p \in Traders, Start(p) \/ Crash(p) PROVE TypeOK'
      BY <2>5 DEF Start, Crash, Goto, runs, hist
    <2>6. ASSUME NEW p \in Traders, CronStep(p) PROVE TypeOK'
      BY <2>6 DEF CronStep, CronStart, CronEnd, loop, hist
    <2>7. CASE UNCHANGED vars
      BY <2>7 DEF vars, loop, runs, hist
    <2>. QED
      BY <2>1, <2>2, <2>3, <2>4, <2>5, <2>6, <2>7 DEF Next, LoopStep
  <1>. QED
    BY <1>1, <1>2, PTL DEF Spec

----------------------------------------------------------------------------
(* The loop *)

\* Time passes: a process with a call under way has less than Delay behind it.
LEMMA TickLoop ==
    ASSUME LoopInv, Tick PROVE (Fresh /\ Rested /\ ClaimSeen /\ RefreshLost)'
  <1>. USE LeaseAssumption DEF LoopInv, TypeOK, Pcs
  <1>1. /\ \A p \in Traders : Prompt(p)
        /\ key' = key /\ pc' = pc
        /\ \A p \in Traders : wait'[p] = IF pc[p] # "dead" THEN wait[p] + 1 ELSE 0
    BY DEF Tick, Alive
  <1>2. Rested'
    BY DEF Tick, Rested, Old
  <1>3. steady' \in Nat /\ steady' <= steady + 1
    BY DEF Tick, Least, Unrest
  <1>4. Fresh'
    BY <1>1 DEF Fresh, Prompt
  <1>5. ClaimSeen'
    BY <1>1, <1>3 DEF ClaimSeen
  <1>6. RefreshLost'
    BY <1>1, <1>3 DEF RefreshLost
  <1>. QED
    BY <1>2, <1>4, <1>5, <1>6

\* A GET: the holder of a key that somebody refreshes is not due for its next call.
LEMMA ReadLoop ==
    ASSUME LoopInv, NEW r \in Traders, Read(r)
    PROVE  (Fresh /\ Rested /\ ClaimSeen /\ RefreshLost)'
  <1>. USE LeaseAssumption DEF LoopInv, TypeOK, Pcs
  <1>1. /\ pc[r] = "idle" /\ wait[r] >= MinPause
        /\ wait' = [wait EXCEPT ![r] = 0]
        /\ key' = key /\ age' = age /\ steady' = steady
    BY DEF Read, Goto, hist
  <1>2. \/ key = None /\ pc' = [pc EXCEPT ![r] = "claim"]
        \/ key # None /\ Old /\ pc' = [pc EXCEPT ![r] = "reset"]
        \/ key = r /\ pc' = [pc EXCEPT ![r] = "refresh"]
        \/ pc' = [pc EXCEPT ![r] = "idle"]
    BY DEF Read, Goto, Main
  <1>3. Fresh'
    BY <1>1, <1>2 DEF Fresh
  <1>4. Rested'
    BY <1>1 DEF Rested, Old
  <1>5. ClaimSeen'
    BY <1>1, <1>2 DEF ClaimSeen, Rested
  <1>6. RefreshLost'
    <2>. SUFFICES ASSUME NEW q \in Traders, pc'[q] = "refresh", key' # q
                  PROVE  /\ steady' <= Delay + wait'[q]
                         /\ key' # None => pc'[key'] \in {"idle", "dead"}
                                           /\ wait'[key'] <= wait'[q]
      BY DEF RefreshLost
    <2>1. q # r /\ pc[q] = "refresh" /\ wait'[q] = wait[q]
      BY <1>1, <1>2
    <2>2. r # key
      BY <1>1, <2>1 DEF RefreshLost, Fresh
    <2>. QED
      BY <1>1, <1>2, <2>1, <2>2 DEF RefreshLost
  <1>. QED
    BY <1>3, <1>4, <1>5, <1>6

\* A SET that changes the holder of the key belongs to a call that is nearly over,
\* and so does a DEL.
LEMMA HandoverIsRestless ==
    ASSUME LoopInv, NEW p \in Traders, Write(p) \/ Reset(p), key # None, key' # key
    PROVE  steady <= Unrest
  <1>. USE LeaseAssumption DEF LoopInv, TypeOK, Pcs, Unrest
  <1>1. CASE Write(p) /\ pc[p] = "claim"
    BY <1>1 DEF Fresh, ClaimSeen
  <1>2. CASE Write(p) /\ pc[p] = "refresh"
    BY <1>2 DEF Write, Fresh, RefreshLost
  <1>3. CASE Reset(p)
    BY <1>3 DEF Reset, Fresh, ClaimSeen
  <1>. QED
    BY <1>1, <1>2, <1>3 DEF Write

LEMMA WriteLoop ==
    ASSUME LoopInv, NEW w \in Traders, Write(w)
    PROVE  (Fresh /\ Rested /\ ClaimSeen /\ RefreshLost)'
  <1>. USE LeaseAssumption DEF LoopInv, TypeOK, Pcs
  <1>1. /\ pc[w] \in {"claim", "refresh"}
        /\ key' = w
        /\ age' = Least(wait[w], Lease + 1)
        /\ pc' = [pc EXCEPT ![w] = "idle"]
        /\ wait' = [wait EXCEPT ![w] = 0]
        /\ steady' = IF age' > Lease THEN 0 ELSE steady
    BY DEF Write, Goto
  <1>2. Fresh'
    BY <1>1 DEF Fresh
  <1>3. Rested'
    BY <1>1 DEF Rested, Old
  <1>4. ClaimSeen'
    BY <1>1 DEF ClaimSeen
  <1>5. RefreshLost'
    <2>. SUFFICES ASSUME NEW q \in Traders, pc'[q] = "refresh", key' # q
                  PROVE  /\ steady' <= Delay + wait'[q]
                         /\ pc'[w] \in {"idle", "dead"} /\ wait'[w] <= wait'[q]
      BY <1>1 DEF RefreshLost
    <2>1. q # w /\ pc[q] = "refresh" /\ wait'[q] = wait[q]
      BY <1>1
    <2>2. pc'[w] = "idle" /\ wait'[w] = 0
      BY <1>1
    <2>3. steady <= Delay + wait[q]
      <3>1. CASE pc[w] = "claim"
        BY <3>1 DEF ClaimSeen, Fresh
      <3>2. CASE pc[w] = "refresh"
        \* Of two refreshes at least one has lost the key, and not to the other.
        BY <3>2, <2>1 DEF RefreshLost
      <3>. QED
        BY <1>1, <3>1, <3>2
    <2>. QED
      BY <1>1, <2>1, <2>2, <2>3
  <1>. QED
    BY <1>2, <1>3, <1>4, <1>5

LEMMA ResetLoop ==
    ASSUME LoopInv, NEW r \in Traders, Reset(r)
    PROVE  (Fresh /\ Rested /\ ClaimSeen /\ RefreshLost)'
  <1>. USE LeaseAssumption DEF LoopInv, TypeOK, Pcs
  <1>1. /\ key' = None /\ age' = 0 /\ steady' = 0
        /\ pc' = [pc EXCEPT ![r] = "idle"]
        /\ wait' = [wait EXCEPT ![r] = 0]
    BY DEF Reset, Goto
  <1>. QED
    BY <1>1 DEF Fresh, Rested, Old, ClaimSeen, RefreshLost

\* A process that dies or starts has no call under way.
LEMMA LifeLoop ==
    ASSUME LoopInv, NEW r \in Traders, Start(r) \/ Crash(r)
    PROVE  (Fresh /\ Rested /\ ClaimSeen /\ RefreshLost)'
  <1>. USE LeaseAssumption DEF LoopInv, TypeOK, Pcs
  <1>1. /\ key' = key /\ age' = age /\ steady' = steady
        /\ wait' = [wait EXCEPT ![r] = 0]
        /\ \/ pc' = [pc EXCEPT ![r] = "idle"]
           \/ pc' = [pc EXCEPT ![r] = "dead"]
    BY DEF Start, Crash, Goto, hist
  <1>2. Fresh' /\ Rested' /\ ClaimSeen'
    BY <1>1 DEF Fresh, Rested, Old, ClaimSeen
  <1>3. RefreshLost'
    BY <1>1 DEF RefreshLost
  <1>. QED
    BY <1>2, <1>3

LEMMA LoopInvariant == Spec => []LoopInv
  <1>1. Init => LoopInv
    <2>. SUFFICES ASSUME Init PROVE LoopInv
      OBVIOUS
    <2>1. TypeOK
      BY LeaseAssumption DEF Init, TypeOK, Pcs
    <2>. QED
      BY <2>1 DEF Init, LoopInv, Fresh, Rested, ClaimSeen, RefreshLost
  <1>2. LoopInv /\ TypeOK' /\ [Next]_vars => LoopInv'
    <2>. SUFFICES ASSUME LoopInv, TypeOK', [Next]_vars
                  PROVE  (Fresh /\ Rested /\ ClaimSeen /\ RefreshLost)'
      BY DEF LoopInv
    <2>1. ASSUME NEW p \in Traders, LoopStep(p)
          PROVE  (Fresh /\ Rested /\ ClaimSeen /\ RefreshLost)'
      BY <2>1, ReadLoop, WriteLoop, ResetLoop, LifeLoop DEF LoopStep
    <2>2. ASSUME NEW p \in Traders, CronStep(p)
          PROVE  (Fresh /\ Rested /\ ClaimSeen /\ RefreshLost)'
      BY <2>2 DEF CronStep, CronStart, CronEnd, loop, hist,
                  LoopInv, Fresh, Rested, Old, ClaimSeen, RefreshLost
    <2>3. CASE UNCHANGED vars
      BY <2>3 DEF vars, loop, hist, LoopInv, Fresh, Rested, Old, ClaimSeen, RefreshLost
    <2>. QED
      BY <2>1, <2>2, <2>3, TickLoop DEF Next
  <1>. QED
    BY <1>1, <1>2, LeaseTyping, PTL DEF Spec

----------------------------------------------------------------------------
(* What the loop is for *)

\* The loop of setMainOrderManager(): whoever holds the key and refreshes it in time
\* keeps it, although every SET and DEL is blind; the key moves only within two
\* delays of a moment at which it was missing or old.
THEOREM MainKeepsTheKey == Spec => HolderKept
  <1>1. LoopInv /\ [Next]_vars => [key # None /\ key' # key => steady <= Unrest]_vars
    <2>. SUFFICES ASSUME LoopInv, [Next]_vars, key # None, key' # key
                  PROVE  steady <= Unrest
      OBVIOUS
    <2>1. PICK p \in Traders : Write(p) \/ Reset(p)
      BY DEF Next, LoopStep, CronStep, Tick, Read, Start, Crash, CronStart, CronEnd, vars
    <2>. QED
      BY <2>1, HandoverIsRestless
  <1>. QED
    BY <1>1, LoopInvariant, PTL DEF Spec, HolderKept

LEMMA CronInvariant == Spec => []LeaseInv
  <1>. USE LeaseAssumption
  <1>1. Init => CronLost
    BY DEF Init, CronLost
  <1>2. LeaseInv /\ LoopInv' /\ [Next]_vars => LeaseInv'
    <2>. SUFFICES ASSUME LeaseInv, LoopInv', [Next]_vars PROVE CronLost'
      BY DEF LeaseInv
    <2>. USE DEF LeaseInv, LoopInv, TypeOK, CronLost
    <2>1. CASE Tick
      <3>1. steady' \in Nat /\ steady' <= steady + 1
        BY <2>1 DEF Tick, Least, Unrest
      <3>2. \A p \in cron : ran[p] < CronTime
        BY <2>1 DEF Tick, Prompt
      <3>3. /\ key' = key /\ cron' = cron
            /\ \A p \in cron : ran'[p] = ran[p] + 1
        BY <2>1 DEF Tick
      <3>. QED
        BY <3>1, <3>2, <3>3 DEF Unrest
    <2>2. ASSUME NEW p \in Traders, Write(p) \/ Reset(p) PROVE CronLost'
      <3>1. cron' = cron /\ ran' = ran /\ steady' <= steady
        BY <2>2 DEF Write, Reset, runs
      <3>2. ASSUME NEW q \in cron, key' # q PROVE steady' <= Unrest + ran[q]
        <4>1. CASE key = q
          <5>1. key # None /\ key' # key
            BY <4>1, <3>2
          <5>2. steady <= Unrest
            BY <2>2, <5>1, HandoverIsRestless
          <5>. QED
            BY <5>2, <3>1 DEF Unrest
        <4>2. CASE key # q
          BY <4>2, <3>1 DEF Unrest
        <4>. QED
          BY <4>1, <4>2
      <3>. QED
        BY <3>1, <3>2
    <2>3. ASSUME NEW p \in Traders, Read(p) \/ Start(p) PROVE CronLost'
      BY <2>3 DEF Read, Start, runs, hist
    <2>4. ASSUME NEW p \in Traders, Crash(p) PROVE CronLost'
      BY <2>4 DEF Crash
    <2>5. ASSUME NEW p \in Traders, CronStart(p) PROVE CronLost'
      BY <2>5 DEF CronStart, Main, hist
    <2>6. ASSUME NEW p \in Traders, CronEnd(p) PROVE CronLost'
      BY <2>6 DEF CronEnd, hist
    <2>7. CASE UNCHANGED vars
      BY <2>7 DEF vars, runs, hist
    <2>. QED
      BY <2>1, <2>2, <2>3, <2>4, <2>5, <2>6, <2>7 DEF Next, LoopStep, CronStep
  <1>. QED
    BY <1>1, <1>2, LoopInvariant, PTL DEF Spec, LeaseInv

\* checkStalledPendingOrders() and collectAllUsersOrders(): the crons of two
\* processes overlap only within the length of a run after such a moment.
THEOREM OneCronProcess == Spec => []CronAlone
  <1>1. LeaseInv => CronAlone
    <2>. SUFFICES ASSUME LeaseInv, NEW p \in cron, NEW q \in cron, p # q
                  PROVE  steady <= Unrest + CronTime
      BY DEF CronAlone
    <2>1. key # p \/ key # q
      OBVIOUS
    <2>. QED
      BY <2>1, LeaseAssumption DEF LeaseInv, LoopInv, CronLost, TypeOK, Unrest
  <1>. QED
    BY <1>1, CronInvariant, PTL

----------------------------------------------------------------------------
(* Failover.  Of the live processes one is always close enough to its next *)
(* call that the time without a main stays within bounds:                  *)
(*   - the timestamp of a dead main gets old before anybody does anything; *)
(*   - the first call after that deletes the key (since Lease);            *)
(*   - the next call of the process that deleted it claims it.  All other  *)
(*     deletes that were decided on the old key are over by then, because  *)
(*     a delete takes less than the pause of the loop.                     *)

\* The loop never waits longer than its pause.
InTime == \A p \in Traders : pc[p] = "idle" => wait[p] <= MaxPause

\* Whoever was without a call under way had none for wait[p]; since is the time
\* without a main after which its pause began at the latest.
Turn(p, since) ==
    /\ p \in Traders /\ Alive(p)
    /\ unserved <= since + wait[p] + (IF pc[p] = "idle" THEN 0 ELSE MaxPause)

\* A delete under way was decided before p fell idle, or when there was a main.
LastReset(p) ==
    \A r \in Traders : pc[r] = "reset" =>
        unserved <= wait[r] \/ (pc[p] = "idle" /\ wait[p] <= wait[r])

Claiming == Lease + MaxPause + Delay
Due == \E p \in Traders : Turn(p, Claiming) /\ LastReset(p)

\* A main that is there since less than a tick, with no delete under way.
Settled ==
    /\ unserved <= Failover
    /\ \A r \in Traders : pc[r] = "reset" => unserved <= wait[r]

Waited ==
    /\ \E p \in Traders : Alive(p)
    /\ key # None /\ ~Old /\ ~Alive(key) => unserved <= age
    /\ key # None /\ Old => \E p \in Traders : Turn(p, Lease)
    /\ key = None => Due
    /\ key # None /\ ~Old /\ Alive(key) => Due \/ Settled

FailInv == LoopInv /\ InTime /\ Waited

\* Served, in the terms of the invariant.
LEMMA ServedIs ==
    ASSUME TypeOK PROVE Served <=> key # None /\ ~Old /\ Alive(key)
  BY LeaseAssumption DEF Served, Main, TypeOK

\* A process idle since now takes the next turn.
LEMMA FreshTurn ==
    ASSUME TypeOK, NEW p \in Traders, pc[p] = "idle", wait[p] = 0, unserved <= Claiming
    PROVE  Due
  BY LeaseAssumption DEF Due, Turn, LastReset, Alive, TypeOK, Claiming

LEMMA WaitedBounds ==
    ASSUME FailInv PROVE unserved <= Failover
  <1>. USE LeaseAssumption DEF FailInv, LoopInv, TypeOK, Pcs, Failover, Claiming
  <1>1. ASSUME NEW p \in Traders, Alive(p)
        PROVE  wait[p] + (IF pc[p] = "idle" THEN 0 ELSE MaxPause) <= MaxPause + Delay
    BY <1>1 DEF InTime, Fresh, Alive
  <1>2. ASSUME NEW p \in Traders, Turn(p, Lease) PROVE unserved <= Failover
    BY <1>1, <1>2 DEF Turn
  <1>3. ASSUME NEW p \in Traders, Turn(p, Claiming) PROVE unserved <= Failover
    BY <1>1, <1>3 DEF Turn
  <1>. QED
    BY <1>2, <1>3 DEF Waited, Due, Settled, Old

\* Until the key is claimed or deleted less than a pause has gone by.
LEMMA OldBounds ==
    ASSUME FailInv, key # None, Old \/ ~Alive(key) PROVE unserved <= Claiming
  <1>. USE LeaseAssumption DEF FailInv, LoopInv, TypeOK, Pcs, Claiming
  <1>1. ASSUME NEW p \in Traders, Turn(p, Lease) PROVE unserved <= Claiming
    BY <1>1 DEF Turn, InTime, Fresh, Alive
  <1>. QED
    BY <1>1 DEF Waited, Old

\* Time passes only while nobody is late, so whoever has the turn comes closer to it.
LEMMA TickFail ==
    ASSUME FailInv, TypeOK', Tick PROVE InTime' /\ Waited'
  <1>. USE LeaseAssumption DEF FailInv, LoopInv, TypeOK, Pcs
  <1>1. /\ \A p \in Traders : Prompt(p)
        /\ key' = key /\ pc' = pc
        /\ age' = IF key = None THEN 0 ELSE Least(age + 1, Lease + 1)
        /\ \A p \in Traders : wait'[p] = IF pc[p] # "dead" THEN wait[p] + 1 ELSE 0
    BY DEF Tick, Alive
  <1>2. InTime'
    BY <1>1 DEF InTime, Prompt
  <1>3. \A p \in Traders : Alive(p)' <=> Alive(p)
    BY <1>1 DEF Alive
  <1>4. PICK q \in Traders : Alive(q)
    BY DEF Waited
  <1>5. CASE Served
    <2>1. unserved' = 0
      BY <1>5 DEF Tick
    <2>2. Turn(q, Lease)' /\ Turn(q, Claiming)'
      BY <2>1, <1>3, <1>4 DEF Turn, Claiming
    <2>3. LastReset(q)'
      BY <2>1 DEF LastReset
    <2>4. Due'
      BY <2>2, <2>3 DEF Due
    <2>5. key' # None /\ ~Old' /\ ~Alive(key)' => unserved' <= age'
      BY <2>1
    <2>. QED
      BY <1>2, <1>3, <1>4, <2>2, <2>4, <2>5 DEF Waited
  <1>6. CASE ~Served
    <2>1. /\ unserved' \in Nat /\ unserved' <= unserved + 1
          /\ key = None \/ Old \/ ~Alive(key)
      BY <1>6, ServedIs DEF Tick, Least, Failover
    <2>2. ASSUME NEW p, NEW since \in Nat, Turn(p, since) PROVE Turn(p, since)'
      BY <2>1, <2>2, <1>1 DEF Turn, Alive
    <2>3. ASSUME NEW p \in Traders, Turn(p, Claiming), LastReset(p) PROVE LastReset(p)'
      BY <2>1, <2>3, <1>1 DEF Turn, Alive, LastReset
    <2>4. CASE key = None
      <3>1. PICK p \in Traders : Turn(p, Claiming) /\ LastReset(p)
        BY <2>4 DEF Waited, Due
      <3>2. Turn(p, Claiming)' /\ LastReset(p)'
        BY <3>1, <2>2, <2>3 DEF Claiming
      <3>. QED
        BY <3>2, <2>4, <1>1, <1>2, <1>3, <1>4 DEF Waited, Due
    <2>5. CASE key # None /\ Old
      <3>1. PICK p \in Traders : Turn(p, Lease)
        BY <2>5 DEF Waited
      <3>2. Turn(p, Lease)'
        BY <3>1, <2>2
      <3>3. Old'
        BY <2>5, <1>1 DEF Old, Least
      <3>. QED
        BY <3>2, <3>3, <2>5, <1>1, <1>2, <1>3, <1>4 DEF Waited
    <2>6. CASE key # None /\ ~Old /\ ~Alive(key)
      <3>1. unserved' <= age'
        BY <2>1, <2>6, <1>1 DEF Waited, Old, Least
      <3>2. wait'[q] >= 1
        BY <1>1, <1>4 DEF Alive
      <3>3. Turn(q, Lease)'
        BY <3>1, <3>2, <1>3, <1>4 DEF Turn
      <3>4. ~Alive(key)'
        BY <2>6, <1>1 DEF Alive
      <3>. QED
        BY <3>1, <3>3, <3>4, <2>6, <1>1, <1>2, <1>3, <1>4 DEF Waited
    <2>. QED
      BY <2>1, <2>4, <2>5, <2>6
  <1>. QED
    BY <1>5, <1>6

\* A GET that finds the key missing or old makes its process the one that claims or
\* deletes it; any other GET leaves the turn with whoever has it.
LEMMA ReadFail ==
    ASSUME FailInv, TypeOK', NEW r \in Traders, Read(r) PROVE InTime' /\ Waited'
  <1>. USE LeaseAssumption DEF FailInv, LoopInv, TypeOK, Pcs
  <1>1. /\ pc[r] = "idle" /\ wait[r] >= MinPause
        /\ wait' = [wait EXCEPT ![r] = 0]
        /\ key' = key /\ age' = age /\ unserved' = unserved
    BY DEF Read, Goto, hist
  <1>2. \/ key = None /\ pc' = [pc EXCEPT ![r] = "claim"]
        \/ key # None /\ Old /\ pc' = [pc EXCEPT ![r] = "reset"]
        \/ key = r /\ ~Old /\ pc' = [pc EXCEPT ![r] = "refresh"]
        \/ key \notin {None, r} /\ ~Old /\ pc' = [pc EXCEPT ![r] = "idle"]
    BY DEF Read, Goto, Main
  <1>3. InTime'
    BY <1>1, <1>2 DEF InTime
  <1>4. Old' = Old /\ \A p \in Traders : Alive(p)' <=> Alive(p)
    BY <1>1, <1>2 DEF Alive, Old
  <1>5. ASSUME NEW since \in Nat, NEW p, Turn(p, since), p # r PROVE Turn(p, since)'
    BY <1>1, <1>2, <1>5 DEF Turn, Alive
  <1>6. ASSUME NEW since \in Nat, Turn(r, since), pc'[r] # "idle" PROVE Turn(r, since)'
    BY <1>1, <1>2, <1>6 DEF Turn, Alive, InTime
  <1>7. CASE key # None /\ Old
    <2>1. PICK p \in Traders : Turn(p, Lease)
      BY <1>7 DEF Waited
    <2>2. Turn(p, Lease)'
      BY <2>1, <1>2, <1>5, <1>6, <1>7
    <2>. QED
      BY <2>2, <1>1, <1>3, <1>4, <1>7 DEF Waited
  <1>8. CASE key # None /\ ~Old /\ ~Alive(key)
    <2>1. ~Alive(key)'
      BY <1>1, <1>2, <1>8 DEF Alive
    <2>. QED
      BY <2>1, <1>1, <1>3, <1>4, <1>8 DEF Waited
  <1>9. CASE key = None \/ (~Old /\ Alive(key))
    <2>1. \A p \in Traders : pc'[p] = "reset" => p # r /\ pc[p] = "reset" /\ wait'[p] = wait[p]
      BY <1>1, <1>2, <1>9
    <2>2. ASSUME Settled PROVE Settled'
      BY <2>2, <2>1, <1>1 DEF Settled
    <2>3. ASSUME NEW p \in Traders, Turn(p, Claiming), LastReset(p)
          PROVE  Due' \/ (key # None /\ Settled')
      <3>1. CASE p # r
        <4>1. pc'[p] = pc[p] /\ wait'[p] = wait[p]
          BY <3>1, <1>1, <1>2
        <4>2. LastReset(p)'
          BY <4>1, <2>1, <2>3, <1>1 DEF LastReset
        <4>3. Turn(p, Claiming)'
          BY <3>1, <2>3, <1>5 DEF Claiming
        <4>. QED
          BY <4>2, <4>3 DEF Due
      <3>2. CASE p = r
        \* A process idle for a pause: no delete is as old as that.
        <4>1. \A x \in Traders : pc'[x] = "reset" => unserved' <= wait'[x]
          BY <3>2, <2>1, <2>3, <1>1 DEF LastReset, Fresh
        <4>2. CASE pc'[r] # "idle"
          BY <4>1, <4>2, <3>2, <2>3, <1>6 DEF Due, LastReset, Claiming
        <4>3. CASE pc'[r] = "idle"
          <5>1. key # None
            BY <4>3, <1>2, <1>1
          <5>2. unserved <= Failover
            BY WaitedBounds
          <5>. QED
            BY <4>1, <5>1, <5>2, <1>1 DEF Settled
        <4>. QED
          BY <4>2, <4>3
      <3>. QED
        BY <3>1, <3>2
    <2>4. key = None => Due'
      BY <2>3 DEF Waited, Due
    <2>5. key # None => Due' \/ Settled'
      BY <2>2, <2>3, <1>9 DEF Waited, Due
    <2>. QED
      BY <2>4, <2>5, <1>1, <1>3, <1>4, <1>9 DEF Waited
  <1>. QED
    BY <1>7, <1>8, <1>9

\* A SET: the writer is idle since now, and main at once, since the time of its
\* decision is not old.
LEMMA WriteFail ==
    ASSUME FailInv, TypeOK', NEW w \in Traders, Write(w) PROVE InTime' /\ Waited'
  <1>. USE LeaseAssumption DEF FailInv, LoopInv, TypeOK, Pcs
  <1>1. /\ pc[w] \in {"claim", "refresh"}
        /\ key' = w
        /\ age' = Least(wait[w], Lease + 1)
        /\ pc' = [pc EXCEPT ![w] = "idle"]
        /\ wait' = [wait EXCEPT ![w] = 0]
        /\ unserved' = unserved
    BY DEF Write, Goto
  <1>2. InTime'
    BY <1>1 DEF InTime
  <1>3. key' # None /\ ~Old' /\ Alive(key)'
    BY <1>1, FailoverAssumption DEF Old, Least, Fresh, Alive
  <1>4. Due' \/ Settled'
    <2>1. CASE unserved <= Claiming
      BY <2>1, <1>1, FreshTurn DEF Due, Turn, LastReset, Alive, Claiming
    <2>2. CASE unserved > Claiming
      <3>1. Due \/ Settled
        BY <2>2, OldBounds DEF Waited, Claiming
      <3>2. ASSUME Settled PROVE Settled'
        BY <3>2, <1>1 DEF Settled
      <3>3. ASSUME NEW p \in Traders, Turn(p, Claiming), LastReset(p) PROVE Due' \/ Settled'
        <4>1. CASE p # w
          <5>1. Turn(p, Claiming)' /\ LastReset(p)'
            BY <4>1, <3>3, <1>1 DEF Turn, Alive, LastReset
          <5>. QED
            BY <5>1 DEF Due
        <4>2. CASE p = w
          BY <4>2, <3>3, <1>1, WaitedBounds DEF Settled, LastReset
        <4>. QED
          BY <4>1, <4>2
      <3>. QED
        BY <3>1, <3>2, <3>3 DEF Due
    <2>. QED
      BY <2>1, <2>2 DEF Claiming
  <1>5. \E p \in Traders : Alive(p)'
    BY <1>1 DEF Alive
  <1>. QED
    BY <1>2, <1>3, <1>4, <1>5 DEF Waited

\* A DEL: the deleter is idle since now.  If the key was none it might delete, a
\* main was there less than a delay ago, or somebody fell idle since its GET.
LEMMA ResetFail ==
    ASSUME FailInv, TypeOK', NEW d \in Traders, Reset(d) PROVE InTime' /\ Waited'
  <1>. USE LeaseAssumption DEF FailInv, LoopInv, TypeOK, Pcs
  <1>1. /\ pc[d] = "reset"
        /\ key' = None
        /\ pc' = [pc EXCEPT ![d] = "idle"]
        /\ wait' = [wait EXCEPT ![d] = 0]
        /\ unserved' = unserved
    BY DEF Reset, Goto
  <1>2. InTime'
    BY <1>1 DEF InTime
  <1>3. Due'
    <2>1. CASE unserved <= Claiming
      BY <2>1, <1>1, FreshTurn DEF Due, Turn, LastReset, Alive, Claiming
    <2>2. CASE unserved > Claiming
      <3>1. wait[d] <= Delay
        BY <1>1 DEF Fresh
      <3>2. ~Settled
        BY <1>1, <2>2, <3>1 DEF Settled, Claiming
      <3>3. PICK p \in Traders : Turn(p, Claiming) /\ LastReset(p)
        BY <3>2, <2>2, OldBounds DEF Waited, Due, Claiming
      <3>4. p # d
        BY <3>1, <3>3, <2>2, <1>1 DEF LastReset, Claiming
      <3>5. Turn(p, Claiming)' /\ LastReset(p)'
        BY <3>3, <3>4, <1>1 DEF Turn, Alive, LastReset
      <3>. QED
        BY <3>5 DEF Due
    <2>. QED
      BY <2>1, <2>2 DEF Claiming
  <1>4. \E p \in Traders : Alive(p)'
    BY <1>1 DEF Alive
  <1>. QED
    BY <1>1, <1>2, <1>3, <1>4 DEF Waited

\* A process that dies leaves another one, and the time counts from then; one that
\* starts may find the key still its own.
LEMMA CrashFail ==
    ASSUME FailInv, TypeOK', NEW c \in Traders, Crash(c) PROVE InTime' /\ Waited'
  <1>. USE LeaseAssumption DEF FailInv, LoopInv, TypeOK, Pcs
  <1>1. /\ pc' = [pc EXCEPT ![c] = "dead"]
        /\ wait' = [wait EXCEPT ![c] = 0]
        /\ unserved' = 0
    BY DEF Crash, Goto
  <1>2. InTime'
    BY <1>1 DEF InTime
  <1>3. PICK q \in Traders : q # c /\ Alive(q)
    BY DEF Crash
  <1>4. Turn(q, Lease)' /\ Turn(q, Claiming)' /\ LastReset(q)'
    BY <1>1, <1>3 DEF Turn, Alive, LastReset, Claiming
  <1>5. Due'
    BY <1>4 DEF Due
  <1>6. Alive(q)'
    BY <1>1, <1>3 DEF Alive
  <1>. QED
    BY <1>1, <1>2, <1>4, <1>5, <1>6 DEF Waited

LEMMA StartFail ==
    ASSUME FailInv, TypeOK', NEW n \in Traders, Start(n) PROVE InTime' /\ Waited'
  <1>. USE LeaseAssumption DEF FailInv, LoopInv, TypeOK, Pcs
  <1>1. /\ pc[n] = "dead"
        /\ key' = key /\ age' = age /\ unserved' = unserved
        /\ pc' = [pc EXCEPT ![n] = "idle"]
        /\ wait' = [wait EXCEPT ![n] = 0]
    BY DEF Start, Goto, hist
  <1>2. InTime'
    BY <1>1 DEF InTime
  <1>3. Alive(n)' /\ Old' = Old
    BY <1>1 DEF Alive, Old
  <1>4. ASSUME NEW since \in Nat, NEW p, Turn(p, since) PROVE Turn(p, since)' /\ p # n
    BY <1>1, <1>4 DEF Turn, Alive
  <1>5. ASSUME NEW p \in Traders, p # n, LastReset(p) PROVE LastReset(p)'
    BY <1>1, <1>5 DEF LastReset
  <1>6. Due => Due'
    BY <1>4, <1>5 DEF Due, Claiming
  <1>7. Settled => Settled'
    BY <1>1 DEF Settled
  <1>8. CASE key # n \/ Old \/ key = None
    <2>1. key # None /\ ~Old => (Alive(key)' <=> Alive(key))
      BY <1>1, <1>8 DEF Alive
    <2>. QED
      BY <2>1, <1>1, <1>2, <1>3, <1>4, <1>6, <1>7 DEF Waited
  <1>9. CASE key = n /\ ~Old
    <2>1. unserved <= Lease
      BY <1>1, <1>9 DEF Waited, Old, Alive
    <2>2. Due'
      BY <2>1, <1>1 DEF Due, Turn, LastReset, Alive, Claiming
    <2>. QED
      BY <2>2, <1>1, <1>2, <1>3, <1>9 DEF Waited
  <1>. QED
    BY <1>8, <1>9

LEMMA FailInvariant == Spec => []FailInv
  <1>1. Init => InTime /\ Waited
    <2>. SUFFICES ASSUME Init PROVE InTime /\ Waited
      OBVIOUS
    <2>. USE LeaseAssumption DEF Init
    <2>1. InTime
      BY DEF InTime
    <2>2. PICK p \in Traders : TRUE
      BY FailoverAssumption
    <2>3. Alive(p) /\ Turn(p, Claiming) /\ LastReset(p)
      BY <2>2 DEF Alive, Turn, LastReset, Claiming
    <2>. QED
      BY <2>1, <2>3 DEF Waited, Due
  <1>2. FailInv /\ LoopInv' /\ [Next]_vars => FailInv'
    <2>. SUFFICES ASSUME FailInv, LoopInv', [Next]_vars PROVE InTime' /\ Waited'
      BY DEF FailInv
    <2>1. TypeOK'
      BY DEF LoopInv
    <2>2. ASSUME NEW p \in Traders, LoopStep(p) PROVE InTime' /\ Waited'
      BY <2>1, <2>2, ReadFail, WriteFail, ResetFail, StartFail, CrashFail DEF LoopStep
    <2>3. ASSUME UNCHANGED <<key, age, loop, unserved>> PROVE InTime' /\ Waited'
      BY <2>3 DEF loop, FailInv, InTime, Waited, Due, Settled, Turn, LastReset, Old, Alive
    <2>4. ASSUME NEW p \in Traders, CronStep(p) PROVE InTime' /\ Waited'
      BY <2>3, <2>4 DEF CronStep, CronStart, CronEnd, hist
    <2>5. CASE UNCHANGED vars
      BY <2>3, <2>5 DEF vars, hist
    <2>. QED
      BY <2>1, <2>2, <2>4, <2>5, TickFail DEF Next
  <1>. QED
    BY <1>1, <1>2, LoopInvariant, PTL DEF Spec, FailInv

\* The loop of setMainOrderManager(): whatever the key holds, whoever dies or starts
\* and however the blind SETs and DELs of the others fall, a live process is main
\* again within the age of the lease and two turns of the loop.
THEOREM MainIsReplaced == Spec => []FailoverBound
  <1>1. FailInv => FailoverBound
    BY WaitedBounds DEF FailoverBound
  <1>. QED
    BY <1>1, FailInvariant, PTL
=============================================================================
