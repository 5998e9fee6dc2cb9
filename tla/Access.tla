------------------------------- MODULE Access -------------------------------
(***************************************************************************)
(* The handlers of the API that sign users in and out, register them, check *)
(* mailed codes, approve administrators, edit and erase documents.  Each of *)
(* them reads the document first and stores its whole copy later; nothing   *)
(* keeps two of them apart.                                                 *)
(***************************************************************************)
EXTENDS Notices

-----------------------------------------------------------------------------
(* Signing in and out *)

With(d, role) == [d EXCEPT !.roles = @ \union {role}]

\* The copy the local strategy hands out has no password.
Anonymous(d) == [d EXCEPT !.password = None]

RightPassword(d, p) == d.password = p

MaySignIn(d, role) == d.verified /\ (role = "admin" => d.approved)

Login(r) ==
    \E e \in Emails, p \in Passwords, role \in USER_ROLES, device \in Devices : \E u \in Holders(e) :
        LET d == docs[u] IN
        /\ RightPassword(d, p)
        /\ MaySignIn(d, role)
        /\ Takes(r, "login", u, With(Anonymous(d), role),
                 (IF role \in d.roles THEN <<>> ELSE <<"save">>) \o <<"sign">>,
                 [NoMore EXCEPT !.role = role, !.device = device])

\* The sessions of the user on this device, as they are read at the start.
Logout(r) ==
    \E s \in sessions, device \in Devices :
        LET drop == {t \in sessions : t.user = s.user /\ t.device = device} IN
        /\ Passes(s)
        /\ drop # {}
        /\ Comes
        /\ Idle(r)
        /\ req' = [req EXCEPT ![r] = [op |-> "logout", id |-> s.user, body |-> EmptyBody,
                                      base |-> None, steps |-> <<"drop">>, key |-> None,
                                      role |-> None, device |-> device, drop |-> drop]]
        /\ UNCHANGED <<docs, counter, codes, sessions, signed, raced, chosen>>

-----------------------------------------------------------------------------
(* Registration *)

\* An id nobody has: randomUUID().
Fresh(u) == docs[u] = None /\ \A r \in Requests : ~Idle(r) => req[r].id # u

NewUser(e, p, role) ==
    [EmptyBody EXCEPT !.email = e, !.password = p, !.roles = {role}, !.approved = FALSE,
                      !.verified = FALSE]

\* Nobody holds the address: a new user, who has to verify it.
Register(r) ==
    \E e \in Emails, p \in Passwords, role \in USER_ROLES, u \in Ids :
        /\ Holders(e) = {}
        /\ Fresh(u)
        /\ Takes(r, "register", u, NewUser(e, p, role), <<"save">>, NoMore)

\* Somebody does: the password has to be the right one, and the role is added.
RegisterAgain(r) ==
    \E e \in Emails, p \in Passwords, role \in USER_ROLES, device \in Devices : \E u \in Holders(e) :
        LET d == docs[u]
            steps == (IF role \in d.roles THEN <<>> ELSE <<"save">>)
                        \o (IF MaySignIn(d, role) THEN <<"sign">> ELSE <<>>)
        IN  /\ RightPassword(d, p)
            /\ steps # <<>>
            /\ Takes(r, "register", u, With(d, role), steps,
                     [NoMore EXCEPT !.role = role, !.device = device])

-----------------------------------------------------------------------------
(* Passwords and mailed codes *)

\* Only a user without a password needs no old one.
ChangePassword(r) ==
    \E u \in There, old \in Passwords, new \in Passwords :
        /\ docs[u].password \in {None, old}
        /\ Takes(r, "password", u, [docs[u] EXCEPT !.password = new], <<"save">>, NoMore)

RestorePassword(r) ==
    \E e \in Emails, new \in Passwords : \E u \in Holders(e) :
        /\ docs[u].password = None \/ <<"password", e>> \in codes
        /\ Takes(r, "password", u, [docs[u] EXCEPT !.password = new], <<"save", "spend">>,
                 [NoMore EXCEPT !.key = <<"password", e>>])

EmailVerified(r) ==
    \E e \in Emails, role \in USER_ROLES, device \in Devices : \E u \in Holders(e) :
        /\ <<"email", e>> \in codes
        /\ Takes(r, "verify", u, [docs[u] EXCEPT !.verified = TRUE], <<"save", "spend", "sign">>,
                 [key |-> <<"email", e>>, role |-> role, device |-> device])

RemoveEmailVerification(r) ==
    \E u \in There :
        Takes(r, "verify", u, [docs[u] EXCEPT !.verified = FALSE], <<"save">>, NoMore)

-----------------------------------------------------------------------------
(* The back office *)

AdminApproved(r) ==
    \E e \in Emails, device \in Devices : \E u \in Holders(e) :
        /\ Admitted({"admin"})
        /\ Takes(r, "approve", u, [With(docs[u], "admin") EXCEPT !.approved = TRUE],
                 <<"save", "sign">>, [NoMore EXCEPT !.role = "admin", !.device = device])

ManageOrdersApproved(r) ==
    \E e \in Emails : \E u \in Holders(e) :
        /\ Admitted({"admin"})
        /\ Takes(r, "manage", u, [docs[u] EXCEPT !.manage = ~@], <<"save">>, NoMore)

Allowed(d) == [d EXCEPT !.manage = TRUE]

AllowUserManageOrders(r) ==
    \E e \in Emails : \E u \in Holders(e) :
        /\ Admitted(USER_ROLES)
        /\ Takes(r, "manage", u, Allowed(docs[u]), <<"save">>, NoMore)

\* A body made of the document that is there, with another address.
Edited(u) == IF docs[u] = None THEN {} ELSE {[docs[u] EXCEPT !.email = e] : e \in Emails}

\* The body of the request is stored as it comes, whatever it says and of whomever: nobody asks
\* who sends it, and an id that nobody has makes a new user.
UpdateUser(r) ==
    \E u \in Ids : \E b \in UserBodies \union Edited(u) :
        /\ docs[u] # None \/ Fresh(u)
        /\ Takes(r, "update", u, b, <<"save">>, NoMore)

\* No look at the address or the number; without adminApproved the handler fails, and a number
\* that was drawn is gone.
AddNewUser(r) ==
    \E u \in Ids, b \in UserBodies :
        /\ Admitted(USER_ROLES)
        /\ Fresh(u)
        /\ Takes(r, "add", u, b, <<"save">>, NoMore)

\* The document stays, without what could identify the user.
Anonymized(d) == [d EXCEPT !.deleted = TRUE, !.email = Erased, !.password = Erased]

DeleteUser(r) ==
    \E u \in There :
        /\ Admitted(USER_ROLES)
        /\ <<"delete", u>> \in codes
        /\ Takes(r, "delete", u, Anonymized(docs[u]), <<"save", "spend">>,
                 [NoMore EXCEPT !.key = <<"delete", u>>])

-----------------------------------------------------------------------------
(* Mailed codes *)

\* sendEmailNotification(): the code is stored before the mail is sent, and over an older one.
CodeMailed(k) ==
    /\ Comes
    /\ codes' = codes \union {k}
    /\ UNCHANGED <<docs, counter, sessions, signed, req, raced, chosen>>

SendAddressCode ==
    \E e \in Emails, kind \in {"email", "password"} : Holders(e) # {} /\ CodeMailed(<<kind, e>>)

SendDeleteCode == \E u \in There : CodeMailed(<<"delete", u>>)

SendCode == SendAddressCode \/ SendDeleteCode

\* After half an hour.
CodeExpires ==
    /\ Comes
    /\ \E k \in codes : codes' = WithoutCode(k)
    /\ UNCHANGED <<docs, counter, sessions, signed, req, raced, chosen>>

-----------------------------------------------------------------------------

\* An administrator who has verified his address, so that somebody can approve the next.
FirstUser(e, p) ==
    [email |-> e, password |-> p, verified |-> TRUE, approved |-> TRUE, roles |-> {"admin"},
     manage |-> FALSE, bought |-> FALSE, deleted |-> FALSE, number |-> 1]

Init ==
    /\ docs = [u \in Ids |-> IF u = CHOOSE v \in Ids : TRUE
                            THEN FirstUser(CHOOSE e \in Emails : TRUE, CHOOSE p \in Passwords : TRUE)
                            ELSE None]
    /\ counter = 1
    /\ codes = {}
    /\ sessions = {}
    /\ signed = 0
    /\ req = [r \in Requests |-> None]
    /\ raced = FALSE
    /\ chosen = {}
    /\ left = MaxInputs
    /\ NoticesInit

SignIn(r) == Login(r) \/ Logout(r) \/ Register(r) \/ RegisterAgain(r)

Verification(r) == RemoveEmailVerification(r) \/ EmailVerified(r)

Approval(r) == AdminApproved(r) \/ ManageOrdersApproved(r)

PasswordRequest(r) == RestorePassword(r) \/ ChangePassword(r)

UserRequest(r) == DeleteUser(r) \/ AddNewUser(r) \/ UpdateUser(r)

UserStep ==
    \/ \E r \in Requests :
        \/ SignIn(r) \/ Verification(r) \/ Approval(r) \/ PasswordRequest(r)
        \/ UserRequest(r) \/ AllowUserManageOrders(r)
    \/ SendCode
    \/ CodeExpires
    \/ HandlerStep

Next == (UserStep /\ UNCHANGED noticeVars) \/ NoticeStep

userVars == <<docs, counter, codes, sessions, signed, req, raced, chosen, left>>
vars == <<userVars, noticeVars>>

\* The crons and the mail queue go on.
Fairness ==
    /\ WF_vars(CheckUserSubscriptionEnding)
    /\ WF_vars(CheckUserSubscriptionEnded)
    /\ \A u \in Ids, k \in USER_NOTIFICATION : WF_vars(\E w \in Workers : JobTaken(w, u, k))
    /\ \A w \in Workers : WF_vars(JobChecked(w)) /\ WF_vars(MailSent(w) \/ MailUnaddressed(w))

Spec == Init /\ [][Next]_vars /\ Fairness

-----------------------------------------------------------------------------
(* Properties *)

Keys == ({"email", "password"} \X Emails) \union ({"delete"} \X Ids)

Ops == {"login", "register", "password", "verify", "approve", "manage", "update", "add", "delete",
        "logout"}

Steps == {"numbered", "save", "spend", "sign", "drop"}

Work ==
    [op : Ops, id : Ids, body : Body, base : User \union {None}, steps : UNION {[1..n -> Steps] : n \in 1..4},
     key : Keys \union {None}, role : USER_ROLES \union {None}, device : Devices \union {None},
     drop : SUBSET JwtToken]

\* Everything has its type: among others, documents are complete, whatever a body lacked.
TypeOK ==
    /\ docs \in [Ids -> User \union {None}]
    /\ counter \in Nat
    /\ codes \subseteq Keys
    /\ sessions \subseteq JwtToken
    /\ signed \in 0..MaxInputs
    /\ \A r \in Requests : Idle(r) \/ req[r] \in Work
    /\ raced \in BOOLEAN
    /\ chosen \subseteq Nat
    /\ left \in 0..MaxInputs
    /\ balance \in [Ids -> Balances]
    /\ marks \subseteq Ids \X USER_NOTIFICATION
    /\ queue \in [Ids -> [USER_NOTIFICATION -> 0..MaxMails]]
    /\ worker \in [Workers -> Job \union {None}]
    /\ paused \in BOOLEAN

\* Two users have the same platform number only after two requests have read the counter before
\* either of them wrote it (getNewPlatformId: GET, then SET), or because the body of a request
\* once brought this very number to a user who did not have it (PUT and POST /user).
NumbersDiffer ==
    raced \/ \A u, v \in There :
        u # v => docs[u].number # docs[v].number \/ docs[u].number \in chosen

Fields == {"email", "password", "verified", "approved", "roles", "manage", "bought", "deleted", "number"}

\* What a body says.
Carried(b) ==
    {f \in {"email", "password", "verified", "approved"} : b[f] # None}
        \union {f \in {"bought"} : b.bought}

\* What a handler is there to change.  A body of PUT /user changes what it says, and replaces what
\* setUser() does not merge.
Own(op, b) ==
    CASE op \in {"login", "register"} -> {"roles"}
      [] op = "password" -> {"password"}
      [] op = "verify" -> {"verified"}
      [] op = "approve" -> {"approved", "roles"}
      [] op = "manage" -> {"manage"}
      [] op = "delete" -> {"deleted", "email", "password"}
      [] OTHER -> Carried(b) \union {"roles", "manage", "deleted", "number"}

Writes(r, u) == ~Idle(r) /\ req[r].id = u /\ req'[r] # req[r] /\ docs'[u] # docs[u]

\* A handler that nobody overtook - the document is still the one it has read - changes no field
\* but its own: not the verification, the approval, the password or the roles set by others; and
\* PUT /user leaves the fields that setUser() merges alone unless its body names them.
ChangesOnlyItsOwn ==
    [][\A r \in Requests, u \in There :
        Writes(r, u) /\ req[r].base = docs[u] =>
            \A f \in Fields \ Own(req[r].op, req[r].body) : docs'[u][f] = docs[u][f]]_vars

\* A user whose subscription has ended, and who once bought one, is told so - a mail went out, or
\* a request for one claimed it did - whatever mails fail, whether or not he was told of an earlier
\* end, and also when the queue was paused after a job had been taken that resumes it.  Not when it
\* stays paused for ever, and not without an address.
EndedIsTold ==
    <>[]paused \/ \A u \in Ids :
        (/\ u \in Live /\ balance[u] = "ended" /\ docs[u].bought
         /\ Addressed(u) /\ <<u, "ended">> \notin marks)
        ~> (u \notin Live \/ ~Addressed(u) \/ balance[u] # "ended" \/ <<u, "ended">> \in marks)
=============================================================================
