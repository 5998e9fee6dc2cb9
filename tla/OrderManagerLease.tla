------------------------- MODULE OrderManagerLease -------------------------
(***************************************************************************)
(* The main order manager: one of the trader processes holds the Redis key *)
(* ORDER_MANAGER = {id, timestamp} and only it runs the crons that cancel  *)
(* stale orders and collect closed ones.  Every process calls              *)
(* setMainOrderManager() in an endless loop: a GET, then, depending on the *)
(* answer, a SET or a DEL.  Nothing ties the two together (no NX, no       *)
(* transaction), so another process may write in between.                  *)
(*                                                                         *)
(* Time passes in ticks.  Only differences of Date.now() matter, so the    *)
(* variables hold ages, cut off where the code no longer tells them apart. *)
(***************************************************************************)
EXTENDS Naturals, FiniteSets

CONSTANTS
    Traders,   \* trader processes, named by getIPAddress()
    None,      \* the key does not exist
    Lease,     \* the 60 seconds after which a timestamp is old
    MinPause,  \* between two calls a process waits at least one second,
    MaxPause,  \* and at most two
    Delay,     \* a GET and the write that follows it are at most this far apart
    CronTime,  \* a cron run takes at most this long
    MaxCrashes \* bound on the number of crashes

\* Redis answers faster than the loop turns.
ASSUME LeaseAssumption ==
    /\ None \notin Traders
    /\ {Lease, MinPause, MaxPause, Delay, CronTime, MaxCrashes} \subseteq Nat
    /\ Delay < MinPause
    /\ MinPause <= MaxPause

\* There is a trader, and a timestamp is not old before it is written.
ASSUME FailoverAssumption ==
    /\ Traders # {}
    /\ Delay <= Lease

VARIABLES
    key,      \* the id in ORDER_MANAGER, or None
    age,      \* how old its timestamp is, at most Lease + 1
    pc,       \* where the loop of each process is
    wait,     \* time since the process left its last step of the loop
    cron,     \* the processes in a cron run
    ran,      \* how long their runs have lasted
    steady,   \* history: time since the key was last missing or old
    unserved, \* history: time since a live process was main, or since the last crash
    crashes   \* number of crashes so far

loop == <<pc, wait>>
runs == <<cron, ran>>
hist == <<steady, unserved>>
vars == <<key, age, loop, runs, hist, crashes>>

Pcs == {"idle", "claim", "refresh", "reset", "dead"}

TypeOK ==
    /\ key \in Traders \union {None}
    /\ age \in 0 .. Lease + 1
    /\ pc \in [Traders -> Pcs]
    /\ wait \in [Traders -> Nat]
    /\ cron \subseteq Traders
    /\ ran \in [Traders -> Nat]
    /\ steady \in Nat
    /\ unserved \in Nat
    /\ crashes \in Nat

----------------------------------------------------------------------------
Old == age > Lease

\* isMainOrderManager(): a key, not old, with the id of the caller.
Main(p) == key = p /\ ~Old

Alive(p) == pc[p] # "dead"
Served   == \E p \in Traders : Main(p) /\ Alive(p)

Least(a, b) == IF a < b THEN a ELSE b

\* Two GETs based on a state that is gone may follow each other: that of a
\* process that claims the key, and that of the one it takes the key from.
Unrest == 2 * Delay

\* The timestamp of a dead main gets old; one call deletes the key, a second one
\* claims it.
Failover == Lease + 2 * (MaxPause + Delay)

Init ==
    /\ key = None
    /\ age = 0
    /\ pc = [p \in Traders |-> "idle"]
    /\ wait = [p \in Traders |-> 0]
    /\ cron = {}
    /\ ran = [p \in Traders |-> 0]
    /\ steady = 0
    /\ unserved = 0
    /\ crashes = 0

----------------------------------------------------------------------------
Goto(p, where) ==
    /\ pc' = [pc EXCEPT ![p] = where]
    /\ wait' = [wait EXCEPT ![p] = 0]

\* Mutants: the next call follows at once; the age of another main's timestamp is
\* not looked at.
ReadAtOnce(p) ==
    /\ pc[p] = "idle"
    /\ \/ key = None /\ Goto(p, "claim")
       \/ key # None /\ Old /\ Goto(p, "reset")
       \/ Main(p) /\ Goto(p, "refresh")
       \/ key \notin {None, p} /\ ~Old /\ Goto(p, "idle")
    /\ UNCHANGED <<key, age, runs, hist, crashes>>

ReadTrusting(p) ==
    /\ pc[p] = "idle"
    /\ wait[p] >= MinPause
    /\ \/ key = None /\ Goto(p, "claim")
       \/ key = p /\ Goto(p, "refresh")
       \/ key \notin {None, p} /\ Goto(p, "idle")
    /\ UNCHANGED <<key, age, runs, hist, crashes>>

\* The GET of setMainOrderManager() and the decision taken on its answer.
Read(p) ==
    /\ pc[p] = "idle"
    /\ wait[p] >= MinPause
    /\ \/ key = None /\ Goto(p, "claim")
       \/ key # None /\ Old /\ Goto(p, "reset")
       \/ Main(p) /\ Goto(p, "refresh")
       \/ key \notin {None, p} /\ ~Old /\ Goto(p, "idle")
    /\ UNCHANGED <<key, age, runs, hist, crashes>>

\* SET with the id of the process and the time of its decision.
Write(p) ==
    /\ pc[p] \in {"claim", "refresh"}
    /\ key' = p
    /\ age' = Least(wait[p], Lease + 1)
    /\ Goto(p, "idle")
    /\ steady' = IF age' > Lease THEN 0 ELSE steady
    /\ UNCHANGED <<runs, unserved, crashes>>

\* Mutant: an empty record in place of the key.
ResetEmpty(p) ==
    /\ pc[p] = "reset"
    /\ key' = "{}"
    /\ age' = 0
    /\ Goto(p, "idle")
    /\ steady' = 0
    /\ UNCHANGED <<runs, unserved, crashes>>

\* resetMainOrderManager(): DEL, whoever is main by now.
Reset(p) ==
    /\ pc[p] = "reset"
    /\ key' = None
    /\ age' = 0
    /\ Goto(p, "idle")
    /\ steady' = 0
    /\ UNCHANGED <<runs, unserved, crashes>>

\* Mutant: a cron asks whether there is a main, not whether its process is.
CronStartAnyone(p) ==
    /\ Alive(p)
    /\ key # None
    /\ p \notin cron
    /\ cron' = cron \union {p}
    /\ ran' = [ran EXCEPT ![p] = 0]
    /\ UNCHANGED <<key, age, loop, hist, crashes>>

\* checkStalledPendingOrders(), collectAllUsersOrders(): main at the start.
CronStart(p) ==
    /\ Alive(p)
    /\ Main(p)
    /\ p \notin cron
    /\ cron' = cron \union {p}
    /\ ran' = [ran EXCEPT ![p] = 0]
    /\ UNCHANGED <<key, age, loop, hist, crashes>>

CronEnd(p) ==
    /\ p \in cron
    /\ cron' = cron \ {p}
    /\ UNCHANGED <<key, age, loop, ran, hist, crashes>>

\* A process dies; another one goes on.
Crash(p) ==
    /\ Alive(p)
    /\ crashes < MaxCrashes
    /\ \E q \in Traders \ {p} : Alive(q)
    /\ crashes' = crashes + 1
    /\ Goto(p, "dead")
    /\ cron' = cron \ {p}
    /\ unserved' = 0
    /\ UNCHANGED <<key, age, ran, steady>>

\* onApplicationBootstrap(): the loop starts.
Start(p) ==
    /\ pc[p] = "dead"
    /\ Goto(p, "idle")
    /\ UNCHANGED <<key, age, runs, hist, crashes>>

\* What bounds the time a process may take.
Prompt(p) ==
    /\ pc[p] = "idle" => wait[p] < MaxPause
    /\ pc[p] \in {"claim", "refresh", "reset"} => wait[p] < Delay
    /\ p \in cron => ran[p] < CronTime

Tick ==
    /\ \A p \in Traders : Prompt(p)
    /\ age' = IF key = None THEN 0 ELSE Least(age + 1, Lease + 1)
    /\ wait' = [p \in Traders |-> IF Alive(p) THEN wait[p] + 1 ELSE 0]
    /\ ran' = [p \in Traders |-> IF p \in cron THEN ran[p] + 1 ELSE 0]
    /\ steady' = IF key = None \/ age' > Lease
                   THEN 0 ELSE Least(steady + 1, Unrest + CronTime + 1)
    /\ unserved' = IF Served THEN 0 ELSE Least(unserved + 1, Failover + 1)
    /\ UNCHANGED <<key, pc, cron, crashes>>

LoopStep(p) == Read(p) \/ Write(p) \/ Reset(p) \/ Start(p) \/ Crash(p)
CronStep(p) == CronStart(p) \/ CronEnd(p)

Next == Tick \/ \E p \in Traders : LoopStep(p) \/ CronStep(p)

Spec == Init /\ [][Next]_vars

----------------------------------------------------------------------------
(* Properties *)

\* A main that refreshes its key in time keeps it: the key changes hands, or
\* disappears, only shortly after it was missing or old.  The SET of a refresh
\* overwrites whatever main there is, so this rests on the pause of the loop: two
\* processes that called again at once could take the key from each other for ever.
HolderKept ==
    [][key # None /\ key' # key => steady <= Unrest]_vars

\* Two processes run the crons of the main at the same time only shortly after
\* the key was missing or old: each run asks isMainOrderManager() at its start only.
CronAlone ==
    \A p, q \in cron : p # q => steady <= Unrest + CronTime

\* Whatever the key holds when the processes start or one of them crashes, a live
\* process is main again within Failover.
FailoverBound ==
    unserved <= Failover
=============================================================================
