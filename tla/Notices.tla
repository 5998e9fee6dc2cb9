------------------------------ MODULE Notices ------------------------------
(***************************************************************************)
(* The mails about subscriptions that end.  Two crons look for the users    *)
(* who are due and queue a mail for each of them; a mark, set when the job  *)
(* has sent it, keeps the next runs from repeating it.  A job that throws   *)
(* pauses the queue.  The balance belongs to Account; here it has 4 states. *)
(***************************************************************************)
EXTENDS Users

CONSTANTS
    Workers,         \* the processes that work on the mail queue, one job at a time each
    MaxMails         \* bound: mails of a kind that wait for a user

ASSUME MailsAssumption == MaxMails \in Nat

USER_NOTIFICATION == {"ending", "ended"}

Balances ==
    {"none",         \* no subscription ever
     "long",         \* more than three days, or money for the next period
     "ending",       \* at most three days and no money
     "ended"}        \* no days left

VARIABLES
    balance,         \* of each user
    marks,           \* who was told what, until it expires
    queue,           \* SEND_EMAIL jobs: how many of each kind for each user
    worker,          \* the job of each worker, or None
    paused           \* the queue gives out no jobs

mailVars == <<queue, worker, paused>>

noticeVars == <<balance, marks, mailVars>>

Job == [user : Ids, kind : USER_NOTIFICATION, next : {"check", "send"}]

ASSUME JobAssumption == None \notin Job

NoticesInit ==
    /\ balance = [u \in Ids |-> "none"]
    /\ marks = {}
    /\ queue = [u \in Ids |-> [k \in USER_NOTIFICATION |-> 0]]
    /\ worker = [w \in Workers |-> None]
    /\ paused = FALSE

\* External (module Account): the subscription is bought, its days pass.
BalanceMoves(u) ==
    /\ Comes
    /\ u \in Live
    /\ \/ /\ balance' = [balance EXCEPT ![u] = "long"]
          /\ docs' = [docs EXCEPT ![u].bought = TRUE]
       \/ /\ balance[u] = "long"
          /\ balance' = [balance EXCEPT ![u] = "ending"]
          /\ UNCHANGED docs
       \/ /\ balance[u] \in {"long", "ending"}
          /\ balance' = [balance EXCEPT ![u] = "ended"]
          /\ UNCHANGED docs
    /\ UNCHANGED <<counter, codes, sessions, signed, req, raced, chosen, marks, mailVars>>

EndingDue(u) == balance[u] = "ending"

\* Mutant: a subscription is over when its last day has begun.
EndedTooEarly(u) == docs[u].bought /\ balance[u] = "ending"

EndedDue(u) == docs[u].bought /\ balance[u] = "ended"

Due(u, kind) ==
    /\ u \in Live
    /\ <<u, kind>> \notin marks
    /\ IF kind = "ending" THEN EndingDue(u) ELSE EndedDue(u)

\* A run of the cron: one job for each user who is due, all of them at once.
Queued(kind) ==
    /\ \E u \in Ids : Due(u, kind)
    /\ \A u \in Ids : Due(u, kind) => queue[u][kind] < MaxMails
    /\ queue' = [u \in Ids |-> IF Due(u, kind) THEN [queue[u] EXCEPT ![kind] = @ + 1] ELSE queue[u]]
    /\ UNCHANGED <<docs, counter, codes, sessions, signed, req, raced, chosen, left, balance, marks,
                   worker, paused>>

CheckUserSubscriptionEnding == Queued("ending")

CheckUserSubscriptionEnded == Queued("ended")

\* setLastUserNotification()
Marked(u, kind) == marks \union {<<u, kind>>}

\* A paused queue keeps what waits; who takes a job has not looked yet whether it is paused now.
JobTaken(w, u, kind) ==
    /\ ~paused
    /\ worker[w] = None
    /\ queue[u][kind] > 0
    /\ queue' = [queue EXCEPT ![u][kind] = @ - 1]
    /\ worker' = [worker EXCEPT ![w] = [user |-> u, kind |-> kind, next |-> "check"]]
    /\ UNCHANGED <<docs, counter, codes, sessions, signed, req, raced, chosen, left, balance, marks, paused>>

At(w, next) == worker[w] # None /\ worker[w].next = next

\* The queue is resumed only here, by a job that was taken before another one paused it.
JobChecked(w) ==
    /\ At(w, "check")
    /\ paused' = FALSE
    /\ worker' = [worker EXCEPT ![w].next = "send"]
    /\ UNCHANGED <<docs, counter, codes, sessions, signed, req, raced, chosen, left, balance, marks, queue>>

Done(w) == worker' = [worker EXCEPT ![w] = None]

Addressed(u) == u \in There /\ docs[u].email \in Emails

\* The job does not look at the mark: what waits is sent.
MailSent(w) ==
    /\ At(w, "send") /\ Addressed(worker[w].user)
    /\ Done(w)
    /\ marks' = Marked(worker[w].user, worker[w].kind)
    /\ UNCHANGED <<docs, counter, codes, sessions, signed, req, raced, chosen, left, balance, queue, paused>>

\* A user without an address, or with that of an erased one: no mail, and no mark.
MailUnaddressed(w) ==
    /\ At(w, "send") /\ ~Addressed(worker[w].user)
    /\ Done(w)
    /\ UNCHANGED <<docs, counter, codes, sessions, signed, req, raced, chosen, left, balance, marks, queue, paused>>

\* A failure of the provider is logged or returned, not thrown: the job is over without a mark,
\* and the next run of the cron queues another.  So it is when the mark cannot be set.
MailFails(w) ==
    /\ Comes
    /\ At(w, "send")
    /\ Done(w)
    /\ UNCHANGED <<docs, counter, codes, sessions, signed, req, raced, chosen, balance, marks, queue, paused>>

\* A call of Redis before the mail fails: the queue is paused for all workers, if that call of
\* Redis does not fail, too.
JobThrows(w) ==
    /\ Comes
    /\ worker[w] # None
    /\ Done(w)
    /\ paused' \in {paused, TRUE}
    /\ UNCHANGED <<docs, counter, codes, sessions, signed, req, raced, chosen, balance, marks, queue>>

\* A worker dies: its job waits again, or is given up when it was found stalled before.
WorkerDies(w) ==
    /\ Comes
    /\ worker[w] # None
    /\ Done(w)
    /\ \/ UNCHANGED queue
       \/ LET u == worker[w].user  k == worker[w].kind IN
          /\ queue[u][k] < MaxMails
          /\ queue' = [queue EXCEPT ![u][k] = @ + 1]
    /\ UNCHANGED <<docs, counter, codes, sessions, signed, req, raced, chosen, balance, marks, paused>>

\* The API on demand: without a job, with the same mark, also when the provider failed, since its
\* failure is logged and taken for a success here.
Told(u, kind) ==
    /\ Comes
    /\ u \in There
    /\ marks' = Marked(u, kind)
    /\ UNCHANGED <<docs, counter, codes, sessions, signed, req, raced, chosen, balance, mailVars>>

\* After a day, or a week.
MarkExpires ==
    /\ Comes
    /\ \E m \in marks : marks' = marks \ {m}
    /\ UNCHANGED <<docs, counter, codes, sessions, signed, req, raced, chosen, balance, mailVars>>

OnDemand == \E u \in Ids, k \in USER_NOTIFICATION : Told(u, k)

NoticeStep ==
    \/ CheckUserSubscriptionEnding
    \/ CheckUserSubscriptionEnded
    \/ \E u \in Ids : BalanceMoves(u)
    \/ \E w \in Workers :
        \/ \E u \in Ids, k \in USER_NOTIFICATION : JobTaken(w, u, k)
        \/ JobChecked(w) \/ MailSent(w) \/ MailUnaddressed(w)
        \/ MailFails(w) \/ JobThrows(w) \/ WorkerDies(w)
    \/ OnDemand
    \/ MarkExpires
=============================================================================
