------------------------------- MODULE Users -------------------------------
(***************************************************************************)
(* The users of the platform as the sign-in, the mails and the back office  *)
(* see them: one document per user in a hash of Redis, read and written as  *)
(* a whole, the counter the platform numbers come from, the one-time codes  *)
(* that were mailed, and the sessions that were signed.                     *)
(***************************************************************************)
EXTENDS Naturals, FiniteSets, Sequences, FiniteSetsExt

CONSTANTS
    None,            \* a field a document lacks, or no document
    Ids,             \* of users
    Emails,
    Passwords,
    Devices,
    UserBodies,      \* what callers of PUT and POST /user send, any bodies
    Requests,        \* requests the API works on at once
    MaxInputs        \* bound: requests and other inputs

ASSUME UsersAssumption ==
    /\ None \notin Emails \union Passwords \union BOOLEAN
    /\ Emails # {} /\ Passwords # {}        \* of an administrator who is there from the start
    /\ IsFiniteSet(Requests)
    /\ MaxInputs \in Nat

USER_ROLES == {"customer", "admin"}

\* The codes differ by what they are for; two kinds are kept by address, one by id.
OTP_PREFIX == {"email", "password", "delete"}

VARIABLES
    docs,            \* the documents, by id
    counter,         \* how many platform numbers were given
    codes,           \* the codes that stand: kind and key
    sessions,        \* [n, user, role, device]
    signed,          \* how many sessions were signed
    req,             \* what a request works on, or None
    raced,           \* two requests once held the same platform number (history)
    chosen,          \* platform numbers that a body brought to another user (history)
    left             \* inputs still to come (bound)

Comes == left > 0 /\ left' = left - 1

-----------------------------------------------------------------------------
(* Documents *)

Erased == "Deleted"

User ==
    [email : Emails \union {Erased, None}, password : Passwords \union {Erased, None}, verified : BOOLEAN,
     approved : BOOLEAN, roles : SUBSET USER_ROLES, manage : BOOLEAN, bought : BOOLEAN,
     deleted : BOOLEAN, number : Nat]

ASSUME UserAssumption == None \notin User

\* A body may lack what a document has; without a number (0) it is given one.  Nothing is taken
\* out of a body: what the type of it does not name is stored, too.
Body ==
    [email : Emails \union {Erased, None}, password : Passwords \union {Erased, None},
     verified : BOOLEAN \union {None}, approved : BOOLEAN \union {None},
     roles : SUBSET USER_ROLES, manage : BOOLEAN, bought : BOOLEAN, deleted : BOOLEAN, number : Nat]

ASSUME BodyAssumption == UserBodies \subseteq Body

EmptyBody ==
    [email |-> None, password |-> None, verified |-> None, approved |-> None, roles |-> {},
     manage |-> FALSE, bought |-> FALSE, deleted |-> FALSE, number |-> 0]

Kept(new, old) == IF new = None THEN old ELSE new

\* Mutant: what the body does not say of the address counts as not verified.
StoredUnverified(old, b) ==
    [b EXCEPT !.email = Kept(@, old.email), !.password = Kept(@, old.password),
              !.verified = Kept(@, FALSE), !.approved = Kept(@, old.approved),
              !.bought = @ \/ old.bought]

\* setUser(): some fields are taken from the stored document when the new one lacks them;
\* the roles, the order permission, the number and the mark of deletion are not.
Stored(old, b) ==
    [b EXCEPT !.email = Kept(@, old.email), !.password = Kept(@, old.password),
              !.verified = Kept(@, old.verified), !.approved = Kept(@, old.approved),
              !.bought = @ \/ old.bought]

\* Nothing is stored yet: without adminApproved the handler fails on the missing document.
Fails(old, b) == old = None /\ b.approved = None

\* Mutant: nobody sees to the fields a new document lacks.
Incomplete(old, b) == IF old = None THEN b ELSE Stored(old, b)

Complete(old, b) ==
    IF old = None THEN [b EXCEPT !.verified = Kept(@, FALSE)] ELSE Stored(old, b)

There == {u \in Ids : docs[u] # None}

\* getUsers() leaves out the deleted.
Live == {u \in There : ~docs[u].deleted}

\* getUser() by address finds only those.
Holders(e) == {u \in Live : docs[u].email = e}

-----------------------------------------------------------------------------
(* Sessions and who may ask for what *)

JwtToken == [n : 1..MaxInputs, user : Ids, role : USER_ROLES, device : Devices]

\* validateJwtStrategyUser(): the session is there, and the document still has its role.
Passes(s) ==
    /\ s.user \in There
    /\ docs[s.user].email # None /\ docs[s.user].verified
    /\ s.role \in docs[s.user].roles

\* RolesGuard: of the document, not of the session.
Admitted(roles) ==
    \E s \in sessions : Passes(s) /\ docs[s.user].roles \intersect roles # {}

-----------------------------------------------------------------------------
(* Requests: what is read and decided comes first, then the writes in their order. *)

Idle(r) == req[r] = None

\* A platform number that comes with a body and is not the user's own.
Foreign(u, b) == {b.number} \ (IF docs[u] = None THEN {0} ELSE {0, docs[u].number})

\* A request on user u will store body b and take the further steps.
Takes(r, op, u, b, steps, more) ==
    /\ Comes
    /\ Idle(r)
    /\ req' = [req EXCEPT ![r] = [op |-> op, id |-> u, body |-> b, base |-> docs[u],
                                  steps |-> steps, key |-> more.key, role |-> more.role,
                                  device |-> more.device, drop |-> {}]]
    /\ chosen' = chosen \union Foreign(u, b)
    /\ UNCHANGED <<docs, counter, codes, sessions, signed, raced>>

NoMore == [key |-> None, role |-> None, device |-> None]

Asked(r, step) == ~Idle(r) /\ req[r].steps # <<>> /\ Head(req[r].steps) = step

\* A request without further steps has answered.
Onward(q) == IF Len(q.steps) = 1 THEN None ELSE [q EXCEPT !.steps = Tail(@), !.base = None]

Goes(r) == req' = [req EXCEPT ![r] = Onward(@)]

\* Mutant: the counter is read once and never written.
NumberedOnce(q) == [q EXCEPT !.body.number = 1]

\* getNewPlatformId(): the counter is read ...
Numbered(q) == [q EXCEPT !.body.number = counter + 1]

ToWriteNumber(q) == [Numbered(q) EXCEPT !.steps = <<"numbered">> \o @]

TakeNumber(r) ==
    /\ Asked(r, "save")
    /\ req[r].body.number = 0
    /\ req' = [req EXCEPT ![r] = ToWriteNumber(@)]
    /\ raced' = (raced \/ \E q \in Requests : Asked(q, "numbered"))
    /\ UNCHANGED <<docs, counter, codes, sessions, signed, chosen, left>>

\* ... and written, and after it the document.
NumberWritten(q) == [q EXCEPT !.steps = Tail(@)]

\* The rest of setUser(): the document is stored and the request goes on, or it has failed.
StoreDoc(r, q) ==
    LET u == req[r].id  b == req[r].body IN
    IF Fails(docs[u], b)
    THEN /\ req' = [req EXCEPT ![r] = None]
         /\ UNCHANGED docs
    ELSE /\ docs' = [docs EXCEPT ![u] = Complete(@, b)]
         /\ req' = [req EXCEPT ![r] = Onward(q)]

SaveNumbered(r) ==
    /\ Asked(r, "numbered")
    /\ counter' = req[r].body.number
    /\ StoreDoc(r, NumberWritten(req[r]))
    /\ UNCHANGED <<codes, sessions, signed, raced, chosen, left>>

Save(r) ==
    /\ Asked(r, "save")
    /\ req[r].body.number # 0
    /\ StoreDoc(r, req[r])
    /\ UNCHANGED <<counter, codes, sessions, signed, raced, chosen, left>>

WithoutCode(k) == codes \ {k}

\* The code is deleted after the document was written.
Spend(r) ==
    /\ Asked(r, "spend")
    /\ codes' = WithoutCode(req[r].key)
    /\ Goes(r)
    /\ UNCHANGED <<docs, counter, sessions, signed, raced, chosen, left>>

\* signToken()
Sign(r) ==
    /\ Asked(r, "sign")
    /\ signed' = signed + 1
    /\ sessions' = sessions \union {[n |-> signed', user |-> req[r].id, role |-> req[r].role,
                                     device |-> req[r].device]}
    /\ Goes(r)
    /\ UNCHANGED <<docs, counter, codes, raced, chosen, left>>

\* removeUserSession(): the sessions that were read are deleted one after the other.
Dropped(q, s) == IF q.drop = {s} THEN None ELSE [q EXCEPT !.drop = @ \ {s}]

Drop(r) ==
    /\ Asked(r, "drop")
    /\ \E s \in req[r].drop :
        /\ sessions' = sessions \ {s}
        /\ req' = [req EXCEPT ![r] = Dropped(@, s)]
    /\ UNCHANGED <<docs, counter, codes, signed, raced, chosen, left>>

\* The API restarts: what it was working on stays as far as it got.
Restart ==
    /\ Comes
    /\ \E r \in Requests : ~Idle(r)
    /\ req' = [r \in Requests |-> None]
    /\ UNCHANGED <<docs, counter, codes, sessions, signed, raced, chosen>>

HandlerStep ==
    \/ \E r \in Requests :
        TakeNumber(r) \/ SaveNumbered(r) \/ Save(r) \/ Spend(r) \/ Sign(r) \/ Drop(r)
    \/ Restart
=============================================================================
