--------------------------- MODULE ExchangeGateway ---------------------------
(***************************************************************************)
(* The gateway to the exchanges (user-exchange).  It keeps in memory a      *)
(* connection for each proxy of each user, made of the keys it has read in  *)
(* the user document; one cron lets the connections follow the document,    *)
(* another asks the exchange for balances, and what the exchange answers    *)
(* decides on the status of the keys.  Orders go the same way.              *)
(*                                                                          *)
(* One user and one exchange: users and exchanges do not meet in the code.  *)
(***************************************************************************)
EXTENDS ExchangeSettings

CONSTANTS Calls      \* requests to the exchange under way at once

Checker == "checker"
Refresher == "refresher"

ASSUME GatewayAssumption ==
    /\ Others = Calls \union {Checker, Refresher}
    /\ Checker \notin Calls /\ Refresher \notin Calls
    /\ None \notin {"checked", "asked", "order"}
    /\ None \notin {"limit", "switch", "fetch", "judge", "judged", "wallet"}

VARIABLES
    conns,           \* connections: the keys and the proxy of each
    servers,         \* proxyServers: the proxies as the gateway knows them
    overLimit,       \* the exchange asked to be left alone
    balanceUpdates,  \* the flag of the checker
    check,           \* the checker: where it is, and the user it has read
    refresh,         \* the cron that lets connections follow: the same
    call,            \* of each call: its kind, the status given, keys, answer
    wallet,          \* the balance in Redis: of which keys, or None
    aged,            \* it is older than five to ten seconds
    accepts,         \* of the exchange: keys it accepts
    confirmed,       \* history: keys the exchange confirmed
    refused,         \* history: keys it refused, or whose proxy is unknown
    misjudged,       \* history: keys that got the answer to others
    dictated         \* history: keys that came with a verdict in the body of a request

gatewayVars == <<conns, servers, overLimit, balanceUpdates, check, refresh, call, wallet, aged>>

vars == <<settingsVars, left, gatewayVars, accepts, confirmed, refused, misjudged, dictated>>

history == <<accepts, confirmed, refused, misjudged, dictated>>

NoCall == [kind |-> None, given |-> None, next |-> None, keys |-> None, answer |-> None]

Idle == [next |-> "idle", user |-> None]

Balances == {"checked", "asked"}     \* by the checker, or by a request of another service

\* The keys of a body that says what the exchange thinks of them.
Dictated(body) == IF body.status \in {"active", "broken"} THEN {body.keys} ELSE {}

Connection == [keys : Keys \union {None}, proxy : Proxies \union {None}]

Init ==
    /\ SettingsInit
    /\ conns = {} /\ servers = listed
    /\ overLimit = FALSE /\ balanceUpdates = FALSE
    /\ check = Idle /\ refresh = Idle
    /\ call = [c \in Calls |-> NoCall]
    /\ wallet = None /\ aged = TRUE
    /\ accepts = Keys
    /\ confirmed = {} /\ refused = {} /\ misjudged = {}
    /\ dictated = Dictated(doc)

-----------------------------------------------------------------------------
(* Connections follow the document *)

\* isUserExchangeSettingsWrong(): a status that is given is not read.
SettingsRight(given) == IF given # None THEN Works(given) ELSE doc.exchanges = "there" /\ Works(doc.status)

\* Mutant: connections are kept, whatever became of the status.
KeptAlways(d) == conns

\* updateUserExchanges() removes those the user does not need any more ...
Kept(d) == IF d.exchanges = "there" /\ Works(d.status) THEN conns ELSE {}

\* ... gives the others the present keys, and the proxy if there is one ...
Changed(d) ==
    IF d.exchanges # "there" THEN Kept(d)
    ELSE {[keys |-> d.keys, proxy |-> IF d.proxy # None THEN d.proxy ELSE c.proxy] : c \in Kept(d)}

\* ... and adds connections when there were none at first.
Missing(d) ==
    /\ conns = {}
    /\ d.exchanges = "there" /\ SettingsRight(d.status)

\* addUserExchange(): one connection through the user's proxy, or one through each, or one without.
Added(d) ==
    LET through == IF d.proxy # None THEN {d.proxy} ELSE IF servers = {} THEN {None} ELSE servers
    IN  {[keys |-> d.keys, proxy |-> p] : p \in through}

UnknownProxy(d) == d.proxy # None /\ d.proxy \notin servers

\* updateUsersInfo(): the connections of the deleted users go, the other users are read ...
RefreshRead ==
    /\ refresh.next = "idle"
    /\ conns' = IF doc.deleted THEN {} ELSE conns
    /\ refresh' = IF doc.deleted THEN Idle ELSE [next |-> "apply", user |-> doc]
    /\ UNCHANGED <<settingsVars, left, servers, overLimit, balanceUpdates, check, call, wallet,
                   aged, history>>

\* ... and applied.  A proxy the gateway does not know breaks the keys.
RefreshApply ==
    LET d == refresh.user IN
    /\ refresh.next = "apply"
    /\ IF Missing(d) /\ UnknownProxy(d)
       THEN /\ conns' = Changed(d)
            /\ refresh' = [next |-> "break", user |-> d]
       ELSE /\ conns' = IF Missing(d) THEN Added(d) ELSE Changed(d)
            /\ refresh' = Idle
    /\ UNCHANGED <<settingsVars, left, servers, overLimit, balanceUpdates, check, call, wallet,
                   aged, history>>

UpdateProxyServers ==
    /\ servers # listed
    /\ servers' = listed
    /\ UNCHANGED <<settingsVars, left, conns, overLimit, balanceUpdates, check, refresh, call,
                   wallet, aged, history>>

-----------------------------------------------------------------------------
(* changeExchangeStatus(): read the document, change its status, write it.  *)
(* A status that is there already is not written.                           *)

Judged(d, status) == [d EXCEPT !.status = status]

\* The document is there, with an entry of the exchange that has another status.
Judges(status) == doc.exchanges = "there" /\ doc.status # status

\* With broken keys the connections go.
Cut(status) == IF status = "broken" THEN {} ELSE conns

JudgeRead(a, status) ==
    /\ copy' = IF Judges(status) THEN [copy EXCEPT ![a] = doc] ELSE copy
    /\ conns' = IF Judges(status) THEN conns ELSE Cut(status)

\* Whose answer it is does not matter to the write: the keys may have changed since.
JudgeWrite(a, status, keys) ==
    /\ SaveDoc(Judged(copy[a], status))
    /\ copy' = [copy EXCEPT ![a] = None]
    /\ conns' = Cut(status)
    /\ misjudged' = IF keys = copy[a].keys THEN misjudged ELSE misjudged \union {copy[a].keys}

\* The refresher found an unknown proxy.
RefreshBreak ==
    /\ refresh.next = "break"
    /\ JudgeRead(Refresher, "broken")
    /\ refresh' = IF Judges("broken") THEN [refresh EXCEPT !.next = "broken"] ELSE Idle
    /\ refused' = refused \union {refresh.user.keys}
    /\ UNCHANGED <<doc, listed, known, assigned, job, left, servers, overLimit, balanceUpdates,
                   check, call, wallet, aged, accepts, confirmed, misjudged, dictated>>

RefreshBroken ==
    /\ refresh.next = "broken"
    /\ JudgeWrite(Refresher, "broken", refresh.user.keys)
    /\ refresh' = Idle
    /\ UNCHANGED <<listed, known, assigned, job, left, servers, overLimit, balanceUpdates,
                   check, call, wallet, aged, accepts, confirmed, refused, dictated>>

-----------------------------------------------------------------------------
(* updatePendingExchangeSettings() *)

CheckStart ==
    /\ ~balanceUpdates /\ check.next = "idle"
    /\ balanceUpdates' = TRUE
    /\ check' = [next |-> "user", user |-> IF doc.deleted THEN None ELSE doc]
    /\ UNCHANGED <<settingsVars, left, conns, servers, overLimit, refresh, call, wallet, aged,
                   history>>

\* Mutant: active keys are not asked about any more.
AsksPending(d) == d.exchanges = "there" /\ d.status = "pending"

\* updateWalletBalances() is called for pending keys, and for active ones whose balance is old.
Asks(d) == d.exchanges = "there" /\ (d.status = "pending" \/ (d.status = "active" /\ aged))

Unjudged(d) == d.exchanges = "there" /\ d.status = None

\* After the last call of Redis the round comes to its end at once.
RoundEnds == check' = Idle /\ balanceUpdates' = FALSE

CheckAsks == \E c \in Calls :
    /\ check.next = "user" /\ check.user # None /\ Asks(check.user)
    /\ call[c] = NoCall
    /\ call' = [call EXCEPT ![c] = [NoCall EXCEPT !.kind = "checked", !.given = check.user.status,
                                                  !.next = "limit"]]
    /\ RoundEnds
    /\ UNCHANGED <<settingsVars, left, conns, servers, overLimit, refresh, wallet, aged, history>>

CheckPasses ==
    LET d == check.user IN
    /\ check.next = "user" /\ (d # None => ~Asks(d))
    /\ IF d # None /\ Unjudged(d)
       THEN /\ copy' = [copy EXCEPT ![Checker] = d]
            /\ check' = [check EXCEPT !.next = "write"]
            /\ UNCHANGED balanceUpdates
       ELSE RoundEnds /\ UNCHANGED copy
    /\ UNCHANGED <<doc, listed, known, assigned, job, left, conns, servers, overLimit, refresh,
                   call, wallet, aged, history>>

\* An entry without a status gets one, written with the document read for the whole round.
CheckWrite ==
    LET d == copy[Checker] IN
    /\ check.next = "write"
    /\ SaveDoc(Judged(d, NewStatus(d.keys, None)))
    /\ copy' = [copy EXCEPT ![Checker] = None]
    /\ RoundEnds
    /\ UNCHANGED <<listed, known, assigned, job, left, conns, servers, overLimit, refresh, call,
                   wallet, aged, history>>

\* A call of Redis fails on the way: nobody resets the flag.
CheckThrows ==
    /\ check.next \in {"user", "write"} /\ Comes
    /\ check' = Idle
    /\ copy' = [copy EXCEPT ![Checker] = None]
    /\ UNCHANGED <<doc, listed, known, assigned, job, conns, servers, overLimit,
                   balanceUpdates, refresh, call, wallet, aged,
                   history>>

Stuck == balanceUpdates /\ check.next = "idle"

-----------------------------------------------------------------------------
(* Calls of the exchange *)

To(c, next) == call' = [call EXCEPT ![c] = [@ EXCEPT !.next = next]]

Ends(c) == call' = [call EXCEPT ![c] = NoCall]

\* A service asks for a balance or for an order, and gives no status.
Ask(c, kind) ==
    /\ call[c] = NoCall /\ Comes
    /\ SettingsRight(None)
    /\ call' = [call EXCEPT ![c] = [NoCall EXCEPT !.kind = kind,
                                       !.next = IF kind = "order" THEN "switch" ELSE "limit"]]
    /\ UNCHANGED <<settingsVars, conns, servers, overLimit, balanceUpdates, check, refresh,
                   wallet, aged, history>>

GetWalletBalances(c) == Ask(c, "asked")

OpenBuy(c) == Ask(c, "order")

OpenSell(c) == Ask(c, "order")

OrderClosed(c) == Ask(c, "order")

\* The checker notes what came of its call, even that nothing did.
Answered(c, answer) ==
    IF call[c].kind = "checked"
    THEN call' = [call EXCEPT ![c] = [@ EXCEPT !.next = "wallet", !.answer = answer]]
    ELSE Ends(c)

\* Nobody is asked for a balance for a while after a refusal for too many requests.
LimitCheck(c) ==
    /\ call[c].next = "limit"
    /\ IF overLimit THEN Answered(c, None) ELSE To(c, "switch")
    /\ UNCHANGED <<settingsVars, left, conns, servers, overLimit, balanceUpdates, check, refresh,
                   wallet, aged, history>>

\* switchExchange(): the connection used least, which may be any of them.
SwitchExchange(c) ==
    /\ call[c].next = "switch"
    /\ IF SettingsRight(None) /\ conns # {}
       THEN \E con \in conns :
                call' = [call EXCEPT ![c] = [@ EXCEPT !.next = "fetch", !.keys = con.keys]]
       ELSE Answered(c, None)
    /\ UNCHANGED <<settingsVars, left, conns, servers, overLimit, balanceUpdates, check, refresh,
                   wallet, aged, history>>

\* The exchange accepts the keys or refuses them, and that is the verdict on them.
FetchBalance(c) ==
    LET yes == call[c].keys \in accepts IN
    /\ call[c].next = "fetch" /\ call[c].kind \in Balances
    /\ call' = [call EXCEPT ![c] = [@ EXCEPT !.next = "judge", !.answer = IF yes THEN "active" ELSE "broken"]]
    /\ confirmed' = IF yes THEN confirmed \union {call[c].keys} ELSE confirmed
    /\ refused' = IF yes THEN refused ELSE refused \union {call[c].keys}
    /\ UNCHANGED <<settingsVars, left, conns, servers, overLimit, balanceUpdates, check, refresh,
                   wallet, aged, accepts, misjudged, dictated>>

\* Too many requests, or another error, which says nothing of the keys.
FetchFails(c) == \E limit \in BOOLEAN :
    /\ call[c].next = "fetch" /\ call[c].kind \in Balances /\ Comes
    /\ overLimit' = (overLimit \/ limit)
    /\ Answered(c, None)
    /\ UNCHANGED <<settingsVars, conns, servers, balanceUpdates, check, refresh, wallet, aged, history>>

\* The answer to an order goes back to the trader; a refusal changes nothing here, because
\* openBuy() and openSell() return the promise out of the try block that would look at it.
OrderAnswered(c) ==
    /\ call[c].next = "fetch" /\ call[c].kind = "order"
    /\ Ends(c)
    /\ UNCHANGED <<settingsVars, left, conns, servers, overLimit, balanceUpdates, check, refresh,
                   wallet, aged, history>>

Judge(c) ==
    LET status == call[c].answer IN
    /\ call[c].next = "judge"
    /\ JudgeRead(c, status)
    /\ IF Judges(status) THEN To(c, "judged") ELSE Answered(c, status)
    /\ UNCHANGED <<doc, listed, known, assigned, job, left, servers, overLimit, balanceUpdates,
                   check, refresh, wallet, aged, history>>

JudgedWrite(c) ==
    /\ call[c].next = "judged"
    /\ JudgeWrite(c, call[c].answer, call[c].keys)
    /\ Answered(c, call[c].answer)
    /\ UNCHANGED <<listed, known, assigned, job, left, servers, overLimit, balanceUpdates,
                   check, refresh, wallet, aged, accepts, confirmed, refused, dictated>>

\* setWalletBalance(): the balance, or none; in both cases it is new.
SetWalletBalance(c) ==
    /\ call[c].next = "wallet"
    /\ wallet' = IF call[c].answer = "active" THEN call[c].keys ELSE None
    /\ aged' = FALSE
    /\ Ends(c)
    /\ UNCHANGED <<settingsVars, left, conns, servers, overLimit, balanceUpdates, check, refresh, history>>

\* Candles are fetched over anybody's connection, and may be one request too many.
FetchCandles ==
    /\ conns # {} /\ ~overLimit /\ Comes
    /\ overLimit' = TRUE
    /\ UNCHANGED <<settingsVars, conns, servers, balanceUpdates, check, refresh, call, wallet,
                   aged, history>>

-----------------------------------------------------------------------------
(* Time, the exchange, and restarts *)

LimitExpires ==
    /\ overLimit /\ overLimit' = FALSE
    /\ UNCHANGED <<settingsVars, left, conns, servers, balanceUpdates, check, refresh, call,
                   wallet, aged, history>>

Ages ==
    /\ ~aged /\ aged' = TRUE
    /\ UNCHANGED <<settingsVars, left, conns, servers, overLimit, balanceUpdates, check, refresh,
                   call, wallet, history>>

\* The user withdraws keys at the exchange.
Revoke == \E k \in accepts :
    /\ Comes
    /\ accepts' = accepts \ {k}
    /\ UNCHANGED <<settingsVars, gatewayVars, confirmed, refused, misjudged, dictated>>

\* All that was in memory is gone, the flag too; the proxies are read before anything else.
Restart ==
    /\ Comes
    /\ conns' = {} /\ servers' = listed
    /\ overLimit' = FALSE /\ balanceUpdates' = FALSE
    /\ check' = Idle /\ refresh' = Idle
    /\ call' = [c \in Calls |-> NoCall]
    /\ copy' = [a \in Writers |-> IF a \in Others THEN None ELSE copy[a]]
    /\ UNCHANGED <<doc, listed, known, assigned, job, wallet, aged, history>>

\* PUT /user does not look at what a status in its body says, and asks no exchange.
UserUpdated == \E body \in UserBodies :
    /\ UpdateUser(body)
    /\ dictated' = dictated \union Dictated(body)
    /\ UNCHANGED <<gatewayVars, accepts, confirmed, refused, misjudged>>

Settings(r) == (SettingsRequest(r) \/ SettingsStep(r)) /\ UNCHANGED <<gatewayVars, history>>

RefresherStep ==
    RefreshRead \/ RefreshApply \/ RefreshBreak \/ RefreshBroken

CheckerStep == CheckStart \/ CheckAsks \/ CheckPasses \/ CheckWrite

CallStep(c) ==
    \/ LimitCheck(c) \/ SwitchExchange(c) \/ FetchBalance(c) \/ OrderAnswered(c)
    \/ Judge(c) \/ JudgedWrite(c) \/ SetWalletBalance(c)

Asked(c) == GetWalletBalances(c) \/ OpenBuy(c) \/ OpenSell(c) \/ OrderClosed(c)

Next ==
    \/ \E r \in Requests : Settings(r)
    \/ UserUpdated
    \/ AddProxyServer /\ UNCHANGED <<gatewayVars, history>>
    \/ RefresherStep \/ UpdateProxyServers
    \/ CheckerStep \/ CheckThrows
    \/ \E c \in Calls : CallStep(c) \/ FetchFails(c) \/ Asked(c)
    \/ FetchCandles
    \/ LimitExpires \/ Ages \/ Revoke \/ Restart

Spec == Init /\ [][Next]_vars

\* Node.js goes on with what it has begun, the crons run for ever, and time passes.
FairSpec ==
    /\ Spec
    /\ \A r \in Requests : WF_vars(Settings(r) /\ UNCHANGED left)
    /\ WF_vars(RefresherStep) /\ WF_vars(UpdateProxyServers) /\ WF_vars(CheckerStep)
    /\ \A c \in Calls : WF_vars(CallStep(c))
    /\ WF_vars(LimitExpires) /\ WF_vars(Ages)

-----------------------------------------------------------------------------
(* Properties *)

\* Everything has its type.
TypeOK ==
    /\ SettingsTypeOK
    /\ conns \subseteq Connection /\ servers \subseteq known
    /\ overLimit \in BOOLEAN /\ balanceUpdates \in BOOLEAN /\ aged \in BOOLEAN
    /\ check.user \in Documents \union {None} /\ refresh.user \in Documents \union {None}
    /\ \A c \in Calls :
           /\ call[c].kind \in Balances \union {"order", None}
           /\ call[c].given \in {None, "active", "pending"}
           /\ call[c].keys \in Keys \union {None}
    /\ wallet \in Keys \union {None}
    /\ accepts \subseteq Keys
    /\ (confirmed \union refused \union misjudged \union dictated) \subseteq Keys \union {None}

\* Whoever writes a document over whose change: keys that are there are active only if the
\* exchange accepted them, and broken only if it refused them or their proxy is unknown, except
\* that the answer to old keys may come when new ones are there, and that PUT and POST /user
\* store keys with any status that comes with them.
VerdictIsEarned ==
    (doc.exchanges = "there" /\ doc.keys # None /\ doc.keys \notin misjudged \union dictated) =>
        /\ doc.status = "active" => doc.keys \in confirmed
        /\ doc.status = "broken" => doc.keys \in refused

InUse == doc.exchanges = "there" /\ ~doc.deleted /\ Works(doc.status)

\* In the end the gateway has connections exactly for keys in use, and all with these keys: no
\* balance is asked for and no order sent with keys that were replaced, broken or erased.
ConnectionsFollow ==
    <>[](IF InUse THEN conns # {} /\ \A c \in conns : c.keys = doc.keys ELSE conns = {})

\* In the end the status of keys in use is what the exchange says, and the wallet shows their
\* balance, unless a failed call of Redis has left the flag of the cron set.
VerdictSettles ==
    <>[]Stuck \/ <>[](InUse => doc.status = "active" /\ doc.keys \in accepts /\ wallet = doc.keys)
=============================================================================
