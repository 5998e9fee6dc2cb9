------------------------ MODULE ExchangeGatewayProofs ------------------------
(***************************************************************************)
(* What the applications that hold connections to the exchanges believe.   *)
(*                                                                         *)
(* The verdicts on keys are earned, for any number of requests, calls of   *)
(* the exchange, keys and faults.  Every copy of the document that somebody *)
(* holds and may write back is as sound as the document itself, and what    *)
(* was confirmed, refused, misjudged or dictated stays so; so it does not   *)
(* matter whose copy is written over whose change.                          *)
(***************************************************************************)
EXTENDS ExchangeGateway, TickerLinks, TLAPS

Editing == {"keys", "proxy", "erase", "list", "addSymbols", "deleteSymbols", "clearSymbols",
            "addFavorites", "deleteFavorites", "clearFavorites"}

Edit ==
    [op : Editing \union {"unlist"}, keys : Keys \union {None}, proxy : Proxies \union {None},
     status : {None, "inactive"}, symbols : SUBSET Symbols]

\* A request that writes settings, or one that takes a proxy off the list.
Job == [edit : Edit, next : {"assign", "write", "unlist"}]

Call == [kind : Balances \union {"order", None}, given : {None, "active", "pending"},
         next : {None, "limit", "switch", "fetch", "judge", "judged", "wallet"},
         keys : Keys \union {None}, answer : {None, "active", "broken"}]

SettingsTyped ==
    /\ SettingsTypeOK
    /\ \A r \in Requests : job[r] # None => job[r] \in Job
    /\ job = [r \in Requests |-> job[r]]

GatewayTyped ==
    /\ conns \subseteq Connection /\ servers \subseteq known
    /\ overLimit \in BOOLEAN /\ balanceUpdates \in BOOLEAN /\ aged \in BOOLEAN
    /\ check \in [next : {"idle", "user", "write"}, user : Documents \union {None}]
    /\ refresh \in [next : {"idle", "apply", "break", "broken"}, user : Documents \union {None}]
    /\ call \in [Calls -> Call]
    /\ wallet \in Keys \union {None}
    /\ accepts \subseteq Keys
    /\ (confirmed \union refused \union misjudged) \subseteq Keys \union {None}
    /\ dictated \subseteq Keys \union {None}

\* Whoever is about to write holds a document.
Holding ==
    /\ \A r \in Requests : job[r] # None =>
          /\ job[r].next = "write" => job[r].edit.op \in Editing /\ copy[r] # None
          /\ job[r].next = "assign" /\ job[r].edit.op = "keys" => copy[r] # None
    /\ check.next = "write" => copy[Checker] # None
    /\ refresh.next # "idle" => refresh.user # None
    /\ refresh.next = "broken" => copy[Refresher] # None
    /\ \A c \in Calls :
          /\ call[c].next \in {"judge", "judged"} => call[c].answer # None
          /\ call[c].next = "judged" => copy[c] # None

Typed == SettingsTyped /\ GatewayTyped /\ Holding

-----------------------------------------------------------------------------
\* What a request makes of a document, and what setUser() stores of it.
LEMMA EditedTyped ==
    ASSUME NEW d \in Documents, NEW e \in Edit, e.op \in Editing
    PROVE  /\ Edited(d, e) \in Documents
           /\ e.op # "keys" => Edited(d, e).status = d.status
           /\ e.op \notin {"keys", "erase"} => Edited(d, e).keys = d.keys
           /\ e.op = "erase" => Edited(d, e).keys = None
           /\ e.op = "keys" => Edited(d, e).status \notin {"active", "broken"}
<1> USE SettingsAssumption DEF Documents, Edit, Editing, Status
<1>1. CASE e.op = "keys"
  BY <1>1 DEF Edited, KeysEdited, NewStatus, WithEntry
<1>2. CASE e.op = "proxy"
  BY <1>2 DEF Edited, ProxyEdited
<1>3. CASE e.op = "erase"
  BY <1>3 DEF Edited, Erased
<1>4. CASE e.op = "list"
  BY <1>4 DEF Edited, ListMade
<1>5. CASE e.op \in {"addSymbols", "deleteSymbols", "clearSymbols"}
  <2>1. PICK list \in SUBSET Symbols : Edited(d, e) = WithSymbols(d, list)
    BY <1>5 DEF Edited, SymbolsAdded, SymbolsDeleted, SymbolsCleared
  <2> QED BY <1>5, <2>1 DEF WithSymbols, WithEntry
<1>6. CASE e.op \in {"addFavorites", "deleteFavorites", "clearFavorites"}
  <2>1. PICK list \in SUBSET Symbols : Edited(d, e) = WithFavorites(d, list)
    BY <1>6 DEF Edited, FavoritesAdded, FavoritesDeleted, FavoritesCleared
  <2> QED BY <1>6, <2>1 DEF WithFavorites, WithEntry
<1> QED BY <1>1, <1>2, <1>3, <1>4, <1>5, <1>6

\* setUser() stores keys and status of the same document: the new one, or the one that is there.
LEMMA StoredTyped ==
    ASSUME NEW old \in Documents, NEW d \in Documents
    PROVE  /\ Stored(old, d) \in Documents
           /\ \/ Stored(old, d).keys = d.keys /\ Stored(old, d).status = d.status
              \/ Stored(old, d).keys = old.keys /\ Stored(old, d).status = old.status
<1> QED BY DEF Stored, Documents

\* A verdict changes the status only.
LEMMA JudgedTyped ==
    ASSUME NEW d \in Documents, NEW status \in Status \union {None}
    PROVE  /\ Judged(d, status) \in Documents
           /\ Judged(d, status).keys = d.keys /\ Judged(d, status).status = status
<1> QED BY DEF Judged, Documents

-----------------------------------------------------------------------------
LEMMA InitTyped == Init => Typed
<1> SUFFICES ASSUME Init PROVE Typed
  OBVIOUS
<1> USE SettingsAssumption, GatewayAssumption DEF Init, SettingsInit
<1>0. NewDoc \in Documents
  BY DEF NewDoc, Documents
<1>1. doc \in Documents /\ left \in 0..MaxEdits
  <2>1. CASE doc = NewDoc /\ left = MaxEdits
    BY <1>0, <2>1
  <2>2. CASE doc \in UserBodies /\ MaxEdits > 0 /\ left = MaxEdits - 1
    <3>1. \A n \in Nat : n > 0 => n - 1 \in 0..n
      OBVIOUS
    <3> QED BY <2>2, <3>1, DocumentsAssumption
  <2> QED BY <2>1, <2>2 DEF AddNewUser
<1>2. SettingsTyped
  BY <1>1 DEF SettingsTyped, SettingsTypeOK
<1>3. NoCall \in Call
  BY DEF NoCall, Call, Balances
<1>6. dictated \subseteq Keys \union {None}
  BY <1>1 DEF Dictated, Documents
<1>4. GatewayTyped
  BY <1>3, <1>6 DEF GatewayTyped, Idle
<1>5. Holding
  BY DEF Holding, Idle, NoCall
<1> QED BY <1>2, <1>4, <1>5 DEF Typed

\* A request arrives: it holds the document of that moment.
LEMMA StartsTyped ==
    ASSUME Typed, NEW r \in Requests, NEW edit \in Edit, NEW next \in {"assign", "write"},
           edit.op \in Editing, Starts(r, edit, next), UNCHANGED <<gatewayVars, history>>
    PROVE  Typed'
<1> USE SettingsAssumption DEF Typed, Starts, gatewayVars, history
<1>1. [edit |-> edit, next |-> next] \in Job
  BY DEF Job
<1>2. doc \in Documents /\ r \in Writers /\ doc # None
  BY DocumentsAssumption DEF SettingsTyped, SettingsTypeOK, Writers, Documents
<1>3. SettingsTyped'
  BY <1>1, <1>2 DEF SettingsTyped, SettingsTypeOK, Comes
<1>4. GatewayTyped'
  BY DEF GatewayTyped
<1>5. Holding'
  BY <1>1, <1>2, GatewayAssumption DEF Holding, SettingsTyped, SettingsTypeOK, Writers
<1> QED BY <1>3, <1>4, <1>5


\* Every request that writes settings starts this way; the other one takes a proxy off the list.
LEMMA RequestTyped ==
    ASSUME Typed, NEW r \in Requests, SettingsRequest(r), UNCHANGED <<gatewayVars, history>>
    PROVE  Typed'
<1>1. ASSUME NEW op \in Editing \ {"keys"}, NEW list \in SUBSET Symbols, ListEdit(r, op, list)
      PROVE  Typed'
  <2>1. [NoEdit EXCEPT !.op = op, !.symbols = list] \in Edit
    BY DEF Edit, NoEdit, Editing
  <2> QED BY <1>1, <2>1, StartsTyped DEF ListEdit, NoEdit
<1>2. CASE UpdateExchangeKeys(r)
  <2>1. PICK body \in UpdateUserExchangeKeysBodyDto :
            Starts(r, [NoEdit EXCEPT !.op = "keys", !.keys = body.keys, !.proxy = body.proxy,
                                     !.status = body.status], "assign")
    BY <1>2 DEF UpdateExchangeKeys
  <2>2. [NoEdit EXCEPT !.op = "keys", !.keys = body.keys, !.proxy = body.proxy,
                       !.status = body.status] \in Edit
    BY DEF Edit, NoEdit, Editing, UpdateUserExchangeKeysBodyDto
  <2> QED BY <2>1, <2>2, StartsTyped DEF NoEdit, Editing
<1>3. CASE SetUserProxy(r)
  <2>1. PICK p \in Proxies \union {None} : Starts(r, [NoEdit EXCEPT !.op = "proxy", !.proxy = p], "write")
    BY <1>3 DEF SetUserProxy
  <2>2. [NoEdit EXCEPT !.op = "proxy", !.proxy = p] \in Edit
    BY DEF Edit, NoEdit, Editing
  <2> QED BY <2>1, <2>2, StartsTyped DEF NoEdit, Editing
<1>4. CASE GetExchanges(r)
  <2>1. [NoEdit EXCEPT !.op = "list"] \in Edit
    BY DEF Edit, NoEdit, Editing
  <2> QED BY <1>4, <2>1, StartsTyped DEF GetExchanges, NoEdit, Editing
<1>5. CASE DeleteUser(r)
  <2>1. [NoEdit EXCEPT !.op = "erase"] \in Edit
    BY DEF Edit, NoEdit, Editing
  <2> QED BY <1>5, <2>1, StartsTyped DEF DeleteUser, NoEdit, Editing
<1>6. CASE AddExchangeSymbols(r) \/ DeleteExchangeSymbols(r) \/ ClearExchangeSymbols(r)
  BY <1>1, <1>6 DEF AddExchangeSymbols, DeleteExchangeSymbols, ClearExchangeSymbols, Editing,
                    ChangeUserExchangeSymbolBodyDto
<1>7. CASE AddFavoriteSymbols(r) \/ DeleteFavoriteSymbols(r) \/ ClearFavoriteSymbols(r)
  BY <1>1, <1>7 DEF AddFavoriteSymbols, DeleteFavoriteSymbols, ClearFavoriteSymbols, Editing,
                    ChangeUserFavoriteSymbolBodyDto
<1>8. CASE DeleteProxyServer(r)
  <2> USE <1>8, SettingsAssumption DEF Typed, DeleteProxyServer, SettingsTyped, SettingsTypeOK, Comes
  <2>1. PICK p \in listed :
            job' = [job EXCEPT ![r] = [edit |-> [NoEdit EXCEPT !.op = "unlist", !.proxy = p],
                                       next |-> "unlist"]]
    OBVIOUS
  <2>2. [edit |-> [NoEdit EXCEPT !.op = "unlist", !.proxy = p], next |-> "unlist"] \in Job
    BY DEF Job, Edit, NoEdit
  <2>3. SettingsTyped'
    BY <2>1, <2>2
  <2>4. GatewayTyped'
    BY DEF GatewayTyped, gatewayVars, history
  <2>5. Holding'
    BY <2>1 DEF Holding, gatewayVars
  <2> QED BY <2>3, <2>4, <2>5
<1> QED BY <1>2, <1>3, <1>4, <1>5, <1>6, <1>7, <1>8 DEF SettingsRequest

\* A request goes on.
LEMMA SettingsStepTyped ==
    ASSUME Typed, NEW r \in Requests, SettingsStep(r), UNCHANGED <<gatewayVars, history>>
    PROVE  Typed'
<1> USE SettingsAssumption, GatewayAssumption
    DEF Typed, SettingsTyped, SettingsTypeOK, gatewayVars, history
<1>0. GatewayTyped /\ known' = known => GatewayTyped'
  BY DEF GatewayTyped
<1>1. job[r] # None /\ job[r] \in Job /\ job[r].edit \in Edit
  BY DEF SettingsStep, AssignProxy, WriteSettings, UnlistProxy, Job
<1>2. ASSUME NEW next \in {"assign", "write"}, Then(r, next)
      PROVE  \A q \in Requests : job'[q] # None => job'[q] \in Job
  <2>1. [job[r] EXCEPT !.next = next] \in Job
    BY <1>1 DEF Job
  <2> QED BY <1>2, <2>1 DEF Then
<1>3. ASSUME Then(r, None)
      PROVE  \A q \in Requests : job'[q] # None => job'[q] \in Job
  BY <1>3 DEF Then
<1>4. CASE AssignProxy(r)
  <2>1. job[r].edit.proxy \in Proxies \union {None}
    BY <1>1 DEF Edit
  <2>2. SettingsTyped'
    BY <1>2, <1>3, <1>4, <2>1 DEF AssignProxy, Then
  <2>3. Holding'
    BY <1>1, <1>4 DEF AssignProxy, Then, Holding, Job, Editing
  <2> QED BY <1>0, <1>4, <2>2, <2>3 DEF AssignProxy
<1>5. CASE WriteSettings(r)
  <2>1. copy[r] \in Documents /\ job[r].edit.op \in Editing
    BY <1>5 DEF WriteSettings, Holding, Writers
  <2>2. Edited(copy[r], job[r].edit) \in Documents
    BY <1>1, <2>1, EditedTyped
  <2>3. doc' \in Documents
    BY <1>5, <2>2, StoredTyped DEF WriteSettings, SaveDoc
  <2>4. SettingsTyped'
    BY <1>2, <1>3, <1>5, <2>3 DEF WriteSettings, Then
  <2>5. Holding'
    BY <1>1, <1>5 DEF WriteSettings, Then, Holding, Job, Editing
  <2> QED BY <1>0, <1>5, <2>4, <2>5 DEF WriteSettings
<1>6. CASE UnlistProxy(r)
  <2>1. SettingsTyped'
    BY <1>3, <1>6 DEF UnlistProxy, Then
  <2>2. Holding'
    BY <1>6 DEF UnlistProxy, Then, Holding
  <2> QED BY <1>0, <1>6, <2>1, <2>2 DEF UnlistProxy
<1> QED BY <1>4, <1>5, <1>6 DEF SettingsStep


\* The gateway touches neither the requests nor the proxies of the platform.
LEMMA SettingsKept ==
    ASSUME Typed, UNCHANGED <<listed, known, assigned, job>>, left' \in 0..MaxEdits,
           doc' \in Documents, copy' \in [Writers -> Documents \union {None}]
    PROVE  SettingsTyped'
<1> QED BY DEF Typed, SettingsTyped, SettingsTypeOK

\* What stays as it is for the requests when the gateway changes a copy.
LEMMA JobsHold ==
    ASSUME Typed, UNCHANGED job, \A r \in Requests : copy'[r] = copy[r]
    PROVE  \A r \in Requests : job'[r] # None =>
              /\ job'[r].next = "write" => job'[r].edit.op \in Editing /\ copy'[r] # None
              /\ job'[r].next = "assign" /\ job'[r].edit.op = "keys" => copy'[r] # None
<1> QED BY DEF Typed, Holding

\* The two halves of changeExchangeStatus().
LEMMA JudgeReadTyped ==
    ASSUME Typed, NEW a \in Others, NEW status \in Status, JudgeRead(a, status)
    PROVE  /\ copy' \in [Writers -> Documents \union {None}]
           /\ conns' \subseteq Connection
           /\ \A b \in Writers \ {a} : copy'[b] = copy[b]
           /\ Judges(status) => copy'[a] # None
<1> QED BY DocumentsAssumption
        DEF JudgeRead, Typed, SettingsTyped, SettingsTypeOK, GatewayTyped, Cut, Writers

\* The second half writes a document.
LEMMA JudgeWriteTyped ==
    ASSUME Typed, NEW a \in Others, NEW status \in Status, NEW keys, JudgeWrite(a, status, keys),
           copy[a] # None
    PROVE  /\ doc' \in Documents
           /\ copy' \in [Writers -> Documents \union {None}]
           /\ conns' \subseteq Connection
           /\ misjudged' \subseteq Keys \union {None}
           /\ \A b \in Writers \ {a} : copy'[b] = copy[b]
<1> USE DEF JudgeWrite, Typed, SettingsTyped, SettingsTypeOK
<1>1. a \in Writers /\ copy[a] \in Documents
  BY DEF Writers
<1>2. Judged(copy[a], status) \in Documents
  BY <1>1, JudgedTyped
<1>3. doc' \in Documents
  BY <1>2, StoredTyped DEF SaveDoc
<1>4. conns' \subseteq Connection
  BY DEF Cut, GatewayTyped
<1>5. misjudged' \subseteq Keys \union {None}
  BY <1>1 DEF GatewayTyped, Documents
<1> QED BY <1>1, <1>3, <1>4, <1>5

\* The connections the cron makes.
LEMMA ConnectionsTyped ==
    ASSUME Typed, NEW d \in Documents
    PROVE  Changed(d) \subseteq Connection /\ Added(d) \subseteq Connection
<1> USE DEF Typed, SettingsTyped, SettingsTypeOK, GatewayTyped, Documents, Connection
<1>1. Kept(d) \subseteq Connection
  BY DEF Kept
<1>2. Changed(d) \subseteq Connection
  BY <1>1 DEF Changed
<1>3. Added(d) \subseteq Connection
  BY DEF Added
<1> QED BY <1>2, <1>3

\* The cron that lets connections follow.
LEMMA RefresherTyped == Typed /\ RefresherStep => Typed'
<1> SUFFICES ASSUME Typed, RefresherStep PROVE Typed'
  OBVIOUS
<1> USE SettingsAssumption, DocumentsAssumption, GatewayAssumption
<1> USE DEF settingsVars, history
<1>0. Refresher \in Others /\ "broken" \in Status /\ Refresher # Checker
  BY DEF Status, Refresher, Checker
<1>1. CASE RefreshRead
  <2>1. SettingsTyped'
    BY <1>1, SettingsKept DEF RefreshRead, Typed, SettingsTyped, SettingsTypeOK
  <2>2. GatewayTyped'
    BY <1>1 DEF RefreshRead, Typed, GatewayTyped, SettingsTyped, SettingsTypeOK, Idle
  <2>3. Holding'
    BY <1>1, JobsHold DEF RefreshRead, Typed, Holding, SettingsTyped, SettingsTypeOK, Idle
  <2> QED BY <2>1, <2>2, <2>3 DEF Typed
<1>2. CASE RefreshApply
  <2>1. refresh.user \in Documents
    BY <1>2 DEF RefreshApply, Typed, Holding, GatewayTyped
  <2>2. SettingsTyped'
    BY <1>2, SettingsKept DEF RefreshApply, Typed, SettingsTyped, SettingsTypeOK
  <2>3. conns' \subseteq Connection
    BY <1>2, <2>1, ConnectionsTyped DEF RefreshApply
  <2>4. GatewayTyped'
    BY <1>2, <2>1, <2>3 DEF RefreshApply, Typed, GatewayTyped, Idle
  <2>5. Holding'
    BY <1>2, <2>1, JobsHold DEF RefreshApply, Typed, Holding, Idle
  <2> QED BY <2>2, <2>4, <2>5 DEF Typed
<1>3. CASE RefreshBreak
  <2>1. /\ copy' \in [Writers -> Documents \union {None}]
        /\ conns' \subseteq Connection
        /\ \A b \in Writers \ {Refresher} : copy'[b] = copy[b]
        /\ Judges("broken") => copy'[Refresher] # None
    BY <1>0, <1>3, JudgeReadTyped DEF RefreshBreak
  <2>2. SettingsTyped'
    BY <1>3, <2>1, SettingsKept DEF RefreshBreak, Typed, SettingsTyped, SettingsTypeOK
  <2>3. GatewayTyped'
    BY <1>3, <2>1 DEF RefreshBreak, Typed, GatewayTyped, Holding, Idle, Documents
  <2>4. Holding'
    BY <1>0, <1>3, <2>1, JobsHold DEF RefreshBreak, Typed, Holding, Idle, Writers
  <2> QED BY <2>2, <2>3, <2>4 DEF Typed
<1>4. CASE RefreshBroken
  <2>0. copy[Refresher] # None
    BY <1>4 DEF RefreshBroken, Typed, Holding
  <2>1. /\ doc' \in Documents
        /\ copy' \in [Writers -> Documents \union {None}]
        /\ conns' \subseteq Connection
        /\ misjudged' \subseteq Keys \union {None}
        /\ \A b \in Writers \ {Refresher} : copy'[b] = copy[b]
    BY <1>0, <1>4, <2>0, JudgeWriteTyped DEF RefreshBroken
  <2>2. SettingsTyped'
    BY <1>4, <2>1, SettingsKept DEF RefreshBroken, Typed, SettingsTyped, SettingsTypeOK
  <2>3. GatewayTyped'
    BY <1>4, <2>1 DEF RefreshBroken, Typed, GatewayTyped, Idle
  <2>4. Holding'
    BY <1>0, <1>4, <2>1, JobsHold DEF RefreshBroken, Typed, Holding, Idle, Writers
  <2> QED BY <2>2, <2>3, <2>4 DEF Typed
<1> QED BY <1>1, <1>2, <1>3, <1>4 DEF RefresherStep

\* The cron that asks for balances, and its failure.
LEMMA CheckerTyped == Typed /\ (CheckerStep \/ CheckThrows) => Typed'
<1> SUFFICES ASSUME Typed, CheckerStep \/ CheckThrows PROVE Typed'
  OBVIOUS
<1> USE SettingsAssumption, DocumentsAssumption, GatewayAssumption
<1> USE DEF settingsVars, history
<1>0. Checker \in Others /\ Checker \in Writers /\ Refresher # Checker
  BY DEF Writers, Refresher, Checker
<1>1. CASE CheckStart
  <2>1. SettingsTyped'
    BY <1>1, SettingsKept DEF CheckStart, Typed, SettingsTyped, SettingsTypeOK
  <2>2. GatewayTyped'
    BY <1>1 DEF CheckStart, Typed, GatewayTyped, SettingsTyped, SettingsTypeOK
  <2>3. Holding'
    BY <1>1, JobsHold DEF CheckStart, Typed, Holding
  <2> QED BY <2>1, <2>2, <2>3 DEF Typed
<1>2. CASE CheckAsks
  <2>1. PICK c \in Calls :
            call' = [call EXCEPT ![c] = [NoCall EXCEPT !.kind = "checked", !.given = check.user.status,
                                                       !.next = "limit"]]
    BY <1>2 DEF CheckAsks
  <2>2. check.user.status \in {"active", "pending"}
    BY <1>2 DEF CheckAsks, Asks
  <2>3. [NoCall EXCEPT !.kind = "checked", !.given = check.user.status, !.next = "limit"] \in Call
    BY <2>2 DEF NoCall, Call, Balances
  <2>4. SettingsTyped'
    BY <1>2, SettingsKept DEF CheckAsks, Typed, SettingsTyped, SettingsTypeOK
  <2>7. call' \in [Calls -> Call]
    BY <2>1, <2>3 DEF Typed, GatewayTyped
  <2>8. check' \in [next : {"idle", "user", "write"}, user : Documents \union {None}]
    BY <1>2 DEF CheckAsks, RoundEnds, Idle
  <2>5. GatewayTyped'
    BY <1>2, <2>7, <2>8 DEF CheckAsks, Typed, GatewayTyped, RoundEnds
  <2>6. Holding'
    BY <1>2, <2>1, JobsHold DEF CheckAsks, Typed, Holding, RoundEnds, Idle, GatewayTyped, NoCall
  <2> QED BY <2>4, <2>5, <2>6 DEF Typed
<1>3. CASE CheckPasses
  <2>1. /\ copy' \in [Writers -> Documents \union {None}]
        /\ \A b \in Writers \ {Checker} : copy'[b] = copy[b]
        /\ check'.next = "write" => copy'[Checker] # None
    BY <1>0, <1>3
    DEF CheckPasses, Typed, SettingsTyped, SettingsTypeOK, GatewayTyped, RoundEnds, Idle
  <2>2. SettingsTyped'
    BY <1>3, <2>1, SettingsKept DEF CheckPasses, Typed, SettingsTyped, SettingsTypeOK
  <2>5. check' \in [next : {"idle", "user", "write"}, user : Documents \union {None}]
    BY <1>3 DEF CheckPasses, RoundEnds, Idle, Typed, GatewayTyped
  <2>3. GatewayTyped'
    BY <1>3, <2>5 DEF CheckPasses, Typed, GatewayTyped, RoundEnds
  <2>4. Holding'
    BY <1>0, <1>3, <2>1, JobsHold DEF CheckPasses, Typed, Holding, Writers
  <2> QED BY <2>2, <2>3, <2>4 DEF Typed
<1>4. CASE CheckWrite
  <2>1. copy[Checker] \in Documents
    BY <1>0, <1>4 DEF CheckWrite, Typed, Holding, SettingsTyped, SettingsTypeOK
  <2>2. NewStatus(copy[Checker].keys, None) \in Status
    BY DEF NewStatus, Status
  <2>3. doc' \in Documents
    BY <1>4, <2>1, <2>2, JudgedTyped, StoredTyped
    DEF CheckWrite, SaveDoc, Typed, SettingsTyped, SettingsTypeOK
  <2>4. SettingsTyped'
    BY <1>4, <2>3, SettingsKept DEF CheckWrite, Typed, SettingsTyped, SettingsTypeOK
  <2>5. GatewayTyped'
    BY <1>4 DEF CheckWrite, Typed, GatewayTyped, RoundEnds, Idle
  <2>6. Holding'
    BY <1>0, <1>4, JobsHold
    DEF CheckWrite, Typed, Holding, Writers, RoundEnds, Idle, SettingsTyped, SettingsTypeOK
  <2> QED BY <2>4, <2>5, <2>6 DEF Typed
<1>5. CASE CheckThrows
  <2>4. left' \in 0..MaxEdits
    BY <1>5 DEF CheckThrows, Comes, Typed, SettingsTyped, SettingsTypeOK
  <2>5. copy' \in [Writers -> Documents \union {None}]
    BY <1>5 DEF CheckThrows, Typed, SettingsTyped, SettingsTypeOK
  <2>1. SettingsTyped'
    BY <1>5, <2>4, <2>5, SettingsKept DEF CheckThrows, Typed, SettingsTyped, SettingsTypeOK
  <2>2. GatewayTyped'
    BY <1>5 DEF CheckThrows, Typed, GatewayTyped, Idle
  <2>3. Holding'
    BY <1>0, <1>5, JobsHold
    DEF CheckThrows, Typed, Holding, Writers, Idle, SettingsTyped, SettingsTypeOK
  <2> QED BY <2>1, <2>2, <2>3 DEF Typed
<1> QED BY <1>1, <1>2, <1>3, <1>4, <1>5 DEF CheckerStep


\* An answered call, or an ended one, is a call again.
LEMMA AnsweredTyped ==
    ASSUME Typed, NEW c \in Calls, NEW answer \in {None, "active", "broken"},
           Answered(c, answer) \/ Ends(c)
    PROVE  /\ call' \in [Calls -> Call]
           /\ call'[c].next \notin {"judge", "judged"}
           /\ \A b \in Calls \ {c} : call'[b] = call[b]
<1>1. NoCall \in Call /\ NoCall.next = None /\ None \notin {"judge", "judged"}
  BY GatewayAssumption DEF NoCall, Call
<1>2. call \in [Calls -> Call] /\ call[c] \in Call
  BY DEF Typed, GatewayTyped
<1>3. /\ [call[c] EXCEPT !.next = "wallet", !.answer = answer] \in Call
      /\ [call[c] EXCEPT !.next = "wallet", !.answer = answer].next = "wallet"
  BY <1>2 DEF Call
<1> QED BY <1>1, <1>2, <1>3 DEF Answered, Ends

\* A step of a call that leaves the documents alone.
LEMMA CallTyped ==
    ASSUME Typed, NEW c \in Calls, call' \in [Calls -> Call],
           \A b \in Calls \ {c} : call'[b] = call[b],
           call'[c].next = "judge" => call'[c].answer # None,
           call'[c].next # "judged",
           UNCHANGED <<doc, listed, known, assigned, job, copy, conns, servers, balanceUpdates,
                       check, refresh, accepts, misjudged, dictated>>,
           left' \in 0..MaxEdits, overLimit' \in BOOLEAN, aged' \in BOOLEAN,
           wallet' \in Keys \union {None}, (confirmed' \union refused') \subseteq Keys \union {None}
    PROVE  Typed'
<1>1. SettingsTyped'
  BY SettingsKept DEF Typed, SettingsTyped, SettingsTypeOK
<1>2. GatewayTyped'
  BY DEF Typed, GatewayTyped
<1>3. Holding'
  BY DEF Typed, Holding
<1> QED BY <1>1, <1>2, <1>3 DEF Typed

\* Requests to the exchange, from the limit to the wallet.
LEMMA CallStepTyped ==
    ASSUME Typed, NEW c \in Calls, CallStep(c) \/ FetchFails(c) \/ Asked(c)
    PROVE  Typed'
<1> USE SettingsAssumption, GatewayAssumption, DocumentsAssumption
<1> USE DEF settingsVars, history
<1>0. /\ left \in 0..MaxEdits /\ overLimit \in BOOLEAN /\ aged \in BOOLEAN
      /\ wallet \in Keys \union {None} /\ (confirmed \union refused) \subseteq Keys \union {None}
      /\ call \in [Calls -> Call]
      /\ Comes => left' \in 0..MaxEdits
  BY DEF Typed, SettingsTyped, SettingsTypeOK, GatewayTyped, Comes
<1>1. ASSUME NEW n \in {"limit", "switch", "fetch", "wallet"}, NEW k \in Keys \union {None}
      PROVE  [call[c] EXCEPT !.next = n, !.keys = k] \in Call /\ [call[c] EXCEPT !.next = n] \in Call
  BY <1>0 DEF Call
<1>2. CASE LimitCheck(c)
  <2>1. CASE overLimit
    <3>1. Answered(c, None)
      BY <1>2, <2>1 DEF LimitCheck
    <3> QED BY <1>0, <1>2, <3>1, AnsweredTyped, CallTyped DEF LimitCheck
  <2>2. CASE ~overLimit
    <3>1. call' = [call EXCEPT ![c] = [call[c] EXCEPT !.next = "switch"]]
      BY <1>2, <2>2 DEF LimitCheck, To
    <3>2. [call[c] EXCEPT !.next = "switch"] \in Call /\ [call[c] EXCEPT !.next = "switch"].next = "switch"
      BY <1>0 DEF Call
    <3> QED BY <1>0, <1>2, <3>1, <3>2, CallTyped DEF LimitCheck
  <2> QED BY <2>1, <2>2
<1>3. CASE SwitchExchange(c)
  <2>1. CASE SettingsRight(None) /\ conns # {}
    <3>1. PICK con \in conns : call' = [call EXCEPT ![c] = [call[c] EXCEPT !.next = "fetch", !.keys = con.keys]]
      BY <1>3, <2>1 DEF SwitchExchange
    <3>2. con.keys \in Keys \union {None}
      BY DEF Typed, GatewayTyped, Connection
    <3>3. /\ [call[c] EXCEPT !.next = "fetch", !.keys = con.keys] \in Call
          /\ [call[c] EXCEPT !.next = "fetch", !.keys = con.keys].next = "fetch"
      BY <1>0, <3>2 DEF Call
    <3> QED BY <1>0, <1>3, <3>1, <3>3, CallTyped DEF SwitchExchange
  <2>2. CASE ~(SettingsRight(None) /\ conns # {})
    <3>1. Answered(c, None)
      BY <1>3, <2>2 DEF SwitchExchange
    <3> QED BY <1>0, <1>3, <3>1, AnsweredTyped, CallTyped DEF SwitchExchange
  <2> QED BY <2>1, <2>2
<1>4. CASE FetchBalance(c)
  <2> DEFINE a == IF call[c].keys \in accepts THEN "active" ELSE "broken"
             next == [call[c] EXCEPT !.next = "judge", !.answer = a]
  <2>1. call' = [call EXCEPT ![c] = next]
    BY <1>4 DEF FetchBalance
  <2>4. a \in {"active", "broken"} /\ None \notin {"active", "broken"}
    BY DEF Status
  <2> HIDE DEF a
  <2>2. next \in Call /\ next.next = "judge" /\ next.answer # None
    BY <1>0, <2>4 DEF Call
  <2>3. (confirmed' \union refused') \subseteq Keys \union {None}
    BY <1>0, <1>4 DEF FetchBalance, Call
  <2> HIDE DEF next
  <2>5. /\ UNCHANGED <<doc, listed, known, assigned, job, copy, conns, servers, balanceUpdates,
                       check, refresh, accepts, misjudged, dictated>>
        /\ UNCHANGED <<left, overLimit, aged, wallet>>
    BY <1>4 DEF FetchBalance
  <2>6. call' \in [Calls -> Call] /\ call'[c] = next /\ \A b \in Calls \ {c} : call'[b] = call[b]
    BY <1>0, <2>1, <2>2
  <2> QED BY <1>0, <2>2, <2>3, <2>5, <2>6, CallTyped
<1>5. CASE OrderAnswered(c)
  BY <1>0, <1>5, AnsweredTyped, CallTyped DEF OrderAnswered
<1>6. CASE SetWalletBalance(c)
  <2>1. wallet' \in Keys \union {None} /\ aged' \in BOOLEAN
    BY <1>0, <1>6 DEF SetWalletBalance, Call
  <2> QED BY <1>0, <1>6, <2>1, AnsweredTyped, CallTyped DEF SetWalletBalance
<1>7. CASE FetchFails(c)
  <2>1. overLimit' \in BOOLEAN /\ Answered(c, None)
    BY <1>0, <1>7 DEF FetchFails
  <2> QED BY <1>0, <1>7, <2>1, AnsweredTyped, CallTyped DEF FetchFails
<1>8. CASE Asked(c)
  <2>1. PICK kind \in {"asked", "order"} : Ask(c, kind)
    BY <1>8 DEF Asked, GetWalletBalances, OpenBuy, OpenSell, OrderClosed
  <2> DEFINE n == IF kind = "order" THEN "switch" ELSE "limit"
             new == [NoCall EXCEPT !.kind = kind, !.next = n]
  <2>2. call' = [call EXCEPT ![c] = new]
    BY <2>1 DEF Ask
  <2>3. new \in Call /\ new.next \in {"switch", "limit"}
    BY DEF NoCall, Call, Balances
  <2> HIDE DEF new
  <2> QED BY <1>0, <2>1, <2>2, <2>3, CallTyped DEF Ask
<1>9. CASE Judge(c)
  <2>1. call[c].answer \in Status /\ call[c].answer \in {"active", "broken"} /\ c \in Others
    BY <1>0, <1>9 DEF Judge, Typed, Holding, Call, Status
  <2>2. /\ copy' \in [Writers -> Documents \union {None}]
        /\ conns' \subseteq Connection
        /\ \A b \in Writers \ {c} : copy'[b] = copy[b]
        /\ Judges(call[c].answer) => copy'[c] # None
    BY <1>9, <2>1, JudgeReadTyped DEF Judge
  <2>3. /\ call' \in [Calls -> Call] /\ call'[c].next # "judge"
        /\ call'[c].next = "judged" => call'[c].answer # None /\ Judges(call[c].answer)
        /\ \A b \in Calls \ {c} : call'[b] = call[b]
    <3>1. CASE Judges(call[c].answer)
      <4>1. call' = [call EXCEPT ![c] = [call[c] EXCEPT !.next = "judged"]]
        BY <1>9, <3>1 DEF Judge, To
      <4>2. /\ [call[c] EXCEPT !.next = "judged"] \in Call
            /\ [call[c] EXCEPT !.next = "judged"].answer = call[c].answer
            /\ [call[c] EXCEPT !.next = "judged"].next = "judged"
        BY <1>0 DEF Call
      <4> QED BY <1>0, <2>1, <3>1, <4>1, <4>2
    <3>2. CASE ~Judges(call[c].answer)
      BY <1>9, <2>1, <3>2, AnsweredTyped DEF Judge
    <3> QED BY <3>1, <3>2
  <2>4. SettingsTyped'
    BY <1>9, <2>2, SettingsKept DEF Judge, Typed, SettingsTyped, SettingsTypeOK
  <2>5. GatewayTyped'
    BY <1>9, <2>2, <2>3 DEF Judge, Typed, GatewayTyped
  <2>6. Holding'
    BY <1>9, <2>1, <2>2, <2>3, JobsHold
    DEF Judge, Typed, Holding, Writers
  <2> QED BY <2>4, <2>5, <2>6 DEF Typed
<1>10. CASE JudgedWrite(c)
  <2>1. call[c].answer \in Status /\ call[c].answer \in {"active", "broken"} /\ c \in Others /\ copy[c] # None
    BY <1>0, <1>10 DEF JudgedWrite, Typed, Holding, Call, Status
  <2>2. /\ doc' \in Documents
        /\ copy' \in [Writers -> Documents \union {None}]
        /\ conns' \subseteq Connection
        /\ misjudged' \subseteq Keys \union {None}
        /\ \A b \in Writers \ {c} : copy'[b] = copy[b]
    BY <1>10, <2>1, JudgeWriteTyped DEF JudgedWrite
  <2>3. /\ call' \in [Calls -> Call]
        /\ call'[c].next \notin {"judge", "judged"}
        /\ \A b \in Calls \ {c} : call'[b] = call[b]
    BY <1>10, <2>1, AnsweredTyped DEF JudgedWrite
  <2>4. SettingsTyped'
    BY <1>10, <2>2, SettingsKept DEF JudgedWrite, Typed, SettingsTyped, SettingsTypeOK
  <2>5. GatewayTyped'
    BY <1>10, <2>2, <2>3 DEF JudgedWrite, Typed, GatewayTyped
  <2>6. Holding'
    BY <1>10, <2>1, <2>2, <2>3, JobsHold
    DEF JudgedWrite, Typed, Holding, Writers
  <2> QED BY <2>4, <2>5, <2>6 DEF Typed
<1> QED BY <1>2, <1>3, <1>4, <1>5, <1>6, <1>7, <1>8, <1>9, <1>10 DEF CallStep


\* A restart forgets what the gateway held, not what the requests of the API hold.
LEMMA RestartTyped == Typed /\ Restart => Typed'
<1> SUFFICES ASSUME Typed, Restart PROVE Typed'
  OBVIOUS
<1> USE SettingsAssumption, GatewayAssumption, DocumentsAssumption DEF Restart, Typed, history
<1>1. NoCall \in Call /\ NoCall.next \notin {"judge", "judged"}
  BY DEF NoCall, Call
<1>2. copy' \in [Writers -> Documents \union {None}]
  BY DEF SettingsTyped, SettingsTypeOK
<1>3. left' \in 0..MaxEdits
  BY DEF SettingsTyped, SettingsTypeOK, Comes
<1>4. SettingsTyped'
  BY <1>2, <1>3, SettingsKept DEF SettingsTyped, SettingsTypeOK
<1>5. GatewayTyped'
  BY <1>1 DEF GatewayTyped, SettingsTyped, SettingsTypeOK, Idle
<1>6. \A r \in Requests : copy'[r] = copy[r]
  BY DEF Writers, SettingsTyped, SettingsTypeOK
<1>7. Holding'
  BY <1>1, <1>6, JobsHold DEF Holding, Idle
<1> QED BY <1>4, <1>5, <1>7

\* The steps of the world: time, the exchange, the platform, and the candles.
Outside ==
    \/ AddProxyServer /\ UNCHANGED <<gatewayVars, history>>
    \/ UpdateProxyServers \/ FetchCandles \/ LimitExpires \/ Ages \/ Revoke

\* The world changes neither documents nor calls.
LEMMA OutsideTyped == Typed /\ (Outside \/ UNCHANGED vars) => Typed'
<1> SUFFICES ASSUME Typed, Outside \/ UNCHANGED vars PROVE Typed'
  OBVIOUS
<1> USE DEF Outside, vars, settingsVars, gatewayVars, history
<1>1. UNCHANGED <<doc, job, copy, check, refresh, call>>
  BY DEF AddProxyServer, UpdateProxyServers, FetchCandles, LimitExpires, Ages, Revoke
<1>0. left \in 0..MaxEdits /\ (Comes => left' \in 0..MaxEdits)
  BY SettingsAssumption DEF Typed, SettingsTyped, SettingsTypeOK, Comes
<1>2. left' \in 0..MaxEdits
  BY <1>0 DEF AddProxyServer, UpdateProxyServers, FetchCandles, LimitExpires, Ages, Revoke
<1>3. /\ listed' \subseteq known' /\ known \subseteq known' /\ known' \subseteq Proxies
      /\ assigned' = assigned
  BY DEF AddProxyServer, UpdateProxyServers, FetchCandles, LimitExpires, Ages, Revoke,
         Typed, SettingsTyped, SettingsTypeOK
<1>4. SettingsTyped'
  BY <1>1, <1>2, <1>3 DEF Typed, SettingsTyped, SettingsTypeOK
<1>5. /\ servers' \subseteq known' /\ accepts' \subseteq accepts
      /\ overLimit' \in BOOLEAN /\ aged' \in BOOLEAN
  BY <1>3 DEF AddProxyServer, UpdateProxyServers, FetchCandles, LimitExpires, Ages, Revoke,
         Typed, SettingsTyped, SettingsTypeOK, GatewayTyped
<1>6. UNCHANGED <<conns, balanceUpdates, wallet, confirmed, refused, misjudged, dictated>>
  BY DEF AddProxyServer, UpdateProxyServers, FetchCandles, LimitExpires, Ages, Revoke
<1>7. GatewayTyped'
  BY <1>1, <1>5, <1>6 DEF Typed, GatewayTyped
<1>8. Holding'
  BY <1>1 DEF Typed, Holding
<1> QED BY <1>4, <1>7, <1>8 DEF Typed

\* A body of PUT /user is a document, and changes nothing that anybody holds.
LEMMA UserUpdatedTyped == Typed /\ UserUpdated => Typed'
<1> SUFFICES ASSUME Typed, UserUpdated PROVE Typed'
  OBVIOUS
<1>1. PICK body \in UserBodies :
          UpdateUser(body) /\ dictated' = dictated \union Dictated(body)
  BY DEF UserUpdated
<1>2. body \in Documents /\ doc \in Documents
  BY DocumentsAssumption DEF Typed, SettingsTyped, SettingsTypeOK
<1>3. doc' \in Documents
  BY <1>1, <1>2, StoredTyped DEF UpdateUser, SaveDoc
<1>4. left' \in 0..MaxEdits
  BY <1>1, SettingsAssumption DEF UpdateUser, Comes, Typed, SettingsTyped, SettingsTypeOK
<1>5. SettingsTyped'
  BY <1>1, <1>3, <1>4 DEF UpdateUser, Typed, SettingsTyped, SettingsTypeOK
<1>6. dictated' \subseteq Keys \union {None}
  BY <1>1, <1>2 DEF Dictated, Documents, Typed, GatewayTyped
<1>7. GatewayTyped'
  BY <1>1, <1>6 DEF UpdateUser, UserUpdated, gatewayVars, Typed, GatewayTyped
<1>8. Holding'
  BY <1>1 DEF UpdateUser, UserUpdated, gatewayVars, Typed, Holding
<1> QED BY <1>5, <1>7, <1>8 DEF Typed

\* The invariant of types is inductive.
LEMMA NextTyped == Typed /\ [Next]_vars => Typed'
<1> SUFFICES ASSUME Typed, [Next]_vars PROVE Typed'
  OBVIOUS
<1>1. ASSUME NEW r \in Requests, Settings(r) PROVE Typed'
  BY <1>1, RequestTyped, SettingsStepTyped DEF Settings
<1>2. CASE RefresherStep
  BY <1>2, RefresherTyped
<1>3. CASE CheckerStep \/ CheckThrows
  BY <1>3, CheckerTyped
<1>4. ASSUME NEW c \in Calls, CallStep(c) \/ FetchFails(c) \/ Asked(c) PROVE Typed'
  BY <1>4, CallStepTyped
<1>5. CASE Restart
  BY <1>5, RestartTyped
<1>6. CASE Outside \/ UNCHANGED vars
  BY <1>6, OutsideTyped
<1>7. CASE UserUpdated
  BY <1>7, UserUpdatedTyped
<1> QED BY <1>1, <1>2, <1>3, <1>4, <1>5, <1>6, <1>7 DEF Next, Outside

\* Everything has its type, and whoever is about to write a document holds one.
THEOREM GatewayTyping == Spec => []TypeOK
<1>1. Typed => TypeOK
  BY DEF Typed, SettingsTyped, GatewayTyped, TypeOK, Call
<1> QED BY <1>1, InitTyped, NextTyped, PTL DEF Spec

-----------------------------------------------------------------------------
\* The verdict of a document on its keys is one that the exchange gave, or a wrong proxy, unless
\* the keys got an answer to others.
Sound(d, yes, no, mis) ==
    d.keys # None /\ d.keys \notin mis =>
        /\ d.status = "active" => d.keys \in yes
        /\ d.status = "broken" => d.keys \in no

SoundNow(d) == Sound(d, confirmed, refused, misjudged \union dictated)

\* So is the verdict somebody is about to write, and every document somebody holds.
Earned ==
    /\ SoundNow(doc)
    /\ \A a \in Writers : copy[a] # None => SoundNow(copy[a])
    /\ check.user # None => SoundNow(check.user)
    /\ refresh.next = "broken" => refresh.user.keys \in refused
    /\ \A c \in Calls : call[c].next \in {"judge", "judged"} =>
          /\ call[c].answer = "active" => call[c].keys \in confirmed
          /\ call[c].answer = "broken" => call[c].keys \in refused

\* The history only grows, and nothing is unsound that was sound.
Grows ==
    /\ confirmed \subseteq confirmed' /\ refused \subseteq refused'
    /\ misjudged \subseteq misjudged' /\ dictated \subseteq dictated'

\* What a step has to show: that the document it writes is sound, and the verdicts are.
LEMMA EarnedKept ==
    ASSUME Typed, Earned, Grows, SoundNow(doc)',
           \A a \in Writers : copy'[a] \in {None, doc, check.user, copy[a]},
           check'.user \in {None, doc, check.user},
           refresh'.next = "broken" => refresh'.user.keys \in refused',
           \A c \in Calls : call'[c].next \in {"judge", "judged"} =>
              /\ call'[c].answer = "active" => call'[c].keys \in confirmed'
              /\ call'[c].answer = "broken" => call'[c].keys \in refused'
    PROVE  Earned'
<1>1. ASSUME NEW d, SoundNow(d) PROVE Sound(d, confirmed', refused', misjudged' \union dictated')
  BY <1>1 DEF SoundNow, Sound, Grows
<1>2. ASSUME NEW a \in Writers, copy'[a] # None PROVE Sound(copy'[a], confirmed', refused', misjudged' \union dictated')
  BY <1>1, <1>2 DEF Earned
<1>3. check'.user # None => Sound(check'.user, confirmed', refused', misjudged' \union dictated')
  BY <1>1 DEF Earned
<1> QED BY <1>2, <1>3 DEF Earned, SoundNow

\* The document itself is left alone.
LEMMA DocKept ==
    ASSUME Earned, Grows, doc' = doc
    PROVE  SoundNow(doc)'
<1> QED BY DEF Earned, Grows, SoundNow, Sound

\* A step that makes no verdict.
LEMMA VerdictsKept ==
    ASSUME Earned, Grows
    PROVE  /\ refresh' = refresh =>
                 (refresh'.next = "broken" => refresh'.user.keys \in refused')
           /\ \A c \in Calls : call'[c] = call[c] =>
                 (call'[c].next \in {"judge", "judged"} =>
                      /\ call'[c].answer = "active" => call'[c].keys \in confirmed'
                      /\ call'[c].answer = "broken" => call'[c].keys \in refused')
<1> QED BY DEF Earned, Grows

\* Whichever of the two documents setUser() takes keys and status from is sound.
LEMMA SoundStored ==
    ASSUME NEW old \in Documents, NEW d \in Documents, NEW yes, NEW no, NEW mis,
           Sound(old, yes, no, mis), Sound(d, yes, no, mis)
    PROVE  Sound(Stored(old, d), yes, no, mis)
<1> QED BY StoredTyped DEF Sound

\* No request makes a verdict.
LEMMA SoundEdited ==
    ASSUME NEW d \in Documents, NEW e \in Edit, e.op \in Editing, NEW yes, NEW no, NEW mis,
           Sound(d, yes, no, mis)
    PROVE  Sound(Edited(d, e), yes, no, mis)
<1> QED BY EditedTyped DEF Sound

-----------------------------------------------------------------------------
\* The requests make no verdict: new keys are pending, or inactive, or not there.
LEMMA SettingsEarned ==
    ASSUME Typed, Earned, NEW r \in Requests, Settings(r)
    PROVE  Earned'
<1> USE DEF Settings, gatewayVars, history
<1>0. /\ Grows /\ UNCHANGED <<refresh, call, check>> /\ r \in Writers
      /\ check.user \in {None, doc, check.user}
  BY DEF Grows, Writers
<1>1. ASSUME doc' = doc, \A a \in Writers : copy'[a] \in {doc, copy[a]}
      PROVE  Earned'
  BY <1>0, <1>1, EarnedKept, DocKept, VerdictsKept
<1>2. ASSUME NEW edit, NEW next, Starts(r, edit, next)
      PROVE  Earned'
  BY <1>1, <1>2 DEF Starts, Typed, SettingsTyped, SettingsTypeOK
<1>3. CASE SettingsRequest(r)
  <2>1. CASE DeleteProxyServer(r)
    BY <1>1, <2>1 DEF DeleteProxyServer
  <2> QED BY <1>2, <1>3, <2>1
          DEF SettingsRequest, UpdateExchangeKeys, SetUserProxy, GetExchanges, DeleteUser, ListEdit,
              AddExchangeSymbols, DeleteExchangeSymbols, ClearExchangeSymbols,
              AddFavoriteSymbols, DeleteFavoriteSymbols, ClearFavoriteSymbols
<1>4. CASE AssignProxy(r) \/ UnlistProxy(r)
  BY <1>1, <1>4 DEF AssignProxy, UnlistProxy
<1>5. CASE WriteSettings(r)
  <2>1. /\ copy[r] # None /\ copy[r] \in Documents /\ doc \in Documents
        /\ job[r].edit \in Edit /\ job[r].edit.op \in Editing
    BY <1>0, <1>5 DEF WriteSettings, Typed, Holding, SettingsTyped, SettingsTypeOK, Job
  <2>2. SoundNow(copy[r]) /\ SoundNow(doc)
    BY <1>0, <2>1 DEF Earned
  <2>3. /\ SoundNow(Edited(copy[r], job[r].edit))
        /\ Edited(copy[r], job[r].edit) \in Documents
    BY <2>1, <2>2, SoundEdited, EditedTyped DEF SoundNow
  <2>4. SoundNow(doc')
    BY <1>5, <2>1, <2>2, <2>3, SoundStored DEF WriteSettings, SaveDoc, SoundNow
  <2>5. SoundNow(doc)'
    BY <2>4 DEF SoundNow
  <2>6. \A a \in Writers : copy'[a] \in {None, doc, check.user, copy[a]}
    BY <1>0, <1>5 DEF WriteSettings, Typed, SettingsTyped, SettingsTypeOK
  <2> QED BY <1>0, <2>5, <2>6, EarnedKept, VerdictsKept
<1> QED BY <1>3, <1>4, <1>5 DEF SettingsStep

\* changeExchangeStatus(): the document read is sound, and if it has other keys than those the
\* answer is about, they are misjudged from now on.
LEMMA JudgeReadEarned ==
    ASSUME Typed, NEW a \in Others, NEW status, JudgeRead(a, status)
    PROVE  \A b \in Writers : copy'[b] \in {None, doc, check.user, copy[b]}
<1> QED BY DEF JudgeRead, Writers, Typed, SettingsTyped, SettingsTypeOK

\* The write of a verdict that is earned for some keys.
LEMMA JudgeWriteEarned ==
    ASSUME Typed, Earned, NEW a \in Others, NEW status \in Status, NEW keys,
           JudgeWrite(a, status, keys), copy[a] # None, UNCHANGED <<confirmed, refused, dictated>>,
           status = "active" => keys \in confirmed,
           status = "broken" => keys \in refused
    PROVE  /\ Grows /\ SoundNow(doc)'
           /\ \A b \in Writers : copy'[b] \in {None, doc, check.user, copy[b]}
<1>1. a \in Writers /\ copy[a] \in Documents /\ doc \in Documents
  BY DEF Writers, Typed, SettingsTyped, SettingsTypeOK
<1>2. Grows
  BY DEF Grows, JudgeWrite
<1>3. Judged(copy[a], status) \in Documents
  BY <1>1, JudgedTyped
<1>4. Sound(Judged(copy[a], status), confirmed', refused', misjudged' \union dictated')
  BY <1>1, JudgedTyped DEF Sound, JudgeWrite
<1>5. Sound(doc, confirmed', refused', misjudged' \union dictated')
  BY <1>2 DEF Earned, SoundNow, Sound, Grows
<1>6. Sound(doc', confirmed', refused', misjudged' \union dictated')
  BY <1>1, <1>3, <1>4, <1>5, SoundStored DEF JudgeWrite, SaveDoc
<1>7. \A b \in Writers : copy'[b] \in {None, doc, check.user, copy[b]}
  BY DEF JudgeWrite, Typed, SettingsTyped, SettingsTypeOK
<1> QED BY <1>2, <1>6, <1>7 DEF SoundNow

\* The cron that lets connections follow breaks keys only for an unknown proxy.
LEMMA RefresherEarned == Typed /\ Earned /\ RefresherStep => Earned'
<1> SUFFICES ASSUME Typed, Earned, RefresherStep PROVE Earned'
  OBVIOUS
<1> USE GatewayAssumption DEF settingsVars, history
<1>0. Refresher \in Others /\ "broken" \in Status
  BY DEF Status
<1>1. CASE RefreshRead \/ RefreshApply
  <2>1. /\ Grows /\ UNCHANGED <<doc, copy, check, call>>
        /\ refresh'.next # "broken"
    BY <1>1 DEF RefreshRead, RefreshApply, Grows, Idle
  <2> QED BY <2>1, EarnedKept, DocKept, VerdictsKept
<1>2. CASE RefreshBreak
  <2>1. /\ Grows /\ UNCHANGED <<doc, check, call>>
        /\ refresh'.next = "broken" => refresh'.user.keys \in refused'
    BY <1>2 DEF RefreshBreak, Grows, Idle, Typed, GatewayTyped
  <2>2. \A b \in Writers : copy'[b] \in {None, doc, check.user, copy[b]}
    BY <1>0, <1>2, JudgeReadEarned DEF RefreshBreak
  <2> QED BY <2>1, <2>2, EarnedKept, DocKept, VerdictsKept
<1>3. CASE RefreshBroken
  <2>1. /\ copy[Refresher] # None /\ refresh.user.keys \in refused
        /\ JudgeWrite(Refresher, "broken", refresh.user.keys)
        /\ UNCHANGED <<confirmed, refused, dictated, check, call>> /\ refresh'.next # "broken"
    BY <1>3 DEF RefreshBroken, Typed, Holding, Earned, Idle
  <2>2. /\ Grows /\ SoundNow(doc)'
        /\ \A b \in Writers : copy'[b] \in {None, doc, check.user, copy[b]}
    BY <1>0, <2>1, JudgeWriteEarned
  <2> QED BY <2>1, <2>2, EarnedKept, VerdictsKept
<1> QED BY <1>1, <1>2, <1>3 DEF RefresherStep

\* The checker writes a status only where there is none, and no verdict.
LEMMA CheckerEarned == Typed /\ Earned /\ (CheckerStep \/ CheckThrows) => Earned'
<1> SUFFICES ASSUME Typed, Earned, CheckerStep \/ CheckThrows PROVE Earned'
  OBVIOUS
<1> USE SettingsAssumption, GatewayAssumption DEF settingsVars, history
<1>0. Grows /\ Checker \in Writers /\ UNCHANGED refresh
  BY DEF CheckerStep, CheckStart, CheckAsks, CheckPasses, CheckWrite, CheckThrows, Grows, Writers
<1>1. CASE CheckStart
  BY <1>0, <1>1, EarnedKept, DocKept, VerdictsKept DEF CheckStart
<1>2. CASE CheckAsks
  <2>1. UNCHANGED <<doc, copy>> /\ check'.user = None
    BY <1>2 DEF CheckAsks, RoundEnds, Idle
  <2>2. ASSUME NEW c \in Calls
        PROVE  call'[c] = call[c] \/ call'[c].next \notin {"judge", "judged"}
    BY <1>2 DEF CheckAsks, NoCall, Typed, GatewayTyped
  <2> QED BY <1>0, <2>1, <2>2, EarnedKept, DocKept, VerdictsKept
<1>3. CASE CheckPasses
  <2>1. UNCHANGED <<doc, call>> /\ check'.user \in {None, check.user}
    BY <1>3 DEF CheckPasses, RoundEnds, Idle, Typed, GatewayTyped
  <2>2. \A b \in Writers : copy'[b] \in {None, doc, check.user, copy[b]}
    BY <1>0, <1>3 DEF CheckPasses, Typed, SettingsTyped, SettingsTypeOK
  <2> QED BY <1>0, <2>1, <2>2, EarnedKept, DocKept, VerdictsKept
<1>4. CASE CheckWrite
  <2> DEFINE new == NewStatus(copy[Checker].keys, None)
  <2>1. copy[Checker] # None /\ copy[Checker] \in Documents /\ doc \in Documents
    BY <1>0, <1>4 DEF CheckWrite, Typed, Holding, SettingsTyped, SettingsTypeOK
  <2>2. new \in Status /\ new \notin {"active", "broken"}
    BY DEF NewStatus, Status
  <2>3. Judged(copy[Checker], new) \in Documents /\ SoundNow(Judged(copy[Checker], new))
    BY <2>1, <2>2, JudgedTyped DEF SoundNow, Sound
  <2>4. SoundNow(doc') /\ UNCHANGED <<confirmed, refused, misjudged, dictated, call>> /\ check'.user = None
    BY <1>4, <2>1, <2>3, SoundStored DEF CheckWrite, SaveDoc, SoundNow, Earned, RoundEnds, Idle
  <2>5. \A b \in Writers : copy'[b] \in {None, doc, check.user, copy[b]}
    BY <1>0, <1>4 DEF CheckWrite, Typed, SettingsTyped, SettingsTypeOK
  <2>6. SoundNow(doc)'
    BY <2>4 DEF SoundNow
  <2> QED BY <1>0, <2>4, <2>5, <2>6, EarnedKept, VerdictsKept
<1>5. CASE CheckThrows
  <2>1. UNCHANGED <<doc, call>> /\ check'.user = None
    BY <1>5 DEF CheckThrows, Idle
  <2>2. \A b \in Writers : copy'[b] \in {None, doc, check.user, copy[b]}
    BY <1>0, <1>5 DEF CheckThrows, Typed, SettingsTyped, SettingsTypeOK
  <2> QED BY <1>0, <2>1, <2>2, EarnedKept, DocKept, VerdictsKept
<1> QED BY <1>1, <1>2, <1>3, <1>4, <1>5 DEF CheckerStep


\* The answer of the exchange is noted for the keys that were asked about, and nothing else is a
\* verdict.
LEMMA CallEarned ==
    ASSUME Typed, Earned, NEW c \in Calls, CallStep(c) \/ FetchFails(c) \/ Asked(c)
    PROVE  Earned'
<1> USE SettingsAssumption, GatewayAssumption DEF settingsVars, history
<1>0. /\ call \in [Calls -> Call] /\ c \in Others /\ c \in Writers
      /\ check.user \in {None, doc, check.user}
  BY DEF Typed, GatewayTyped, Writers
<1>1. ASSUME NEW answer, Answered(c, answer) \/ Ends(c)
      PROVE  \A b \in Calls : call'[b] = call[b] \/ call'[b].next \notin {"judge", "judged"}
  <2>1. NoCall.next = None /\ None \notin {"judge", "judged"}
    BY DEF NoCall
  <2>2. [call[c] EXCEPT !.next = "wallet", !.answer = answer].next = "wallet"
    BY <1>0 DEF Call
  <2>3. PICK new : call' = [call EXCEPT ![c] = new] /\ new.next \notin {"judge", "judged"}
    BY <1>1, <2>1, <2>2 DEF Answered, Ends
  <2> QED BY <1>0, <2>3
<1>2. ASSUME Grows, UNCHANGED <<doc, copy, check, refresh>>,
             \A b \in Calls : call'[b] = call[b] \/ call'[b].next \notin {"judge", "judged"}
      PROVE  Earned'
  BY <1>0, <1>2, EarnedKept, DocKept, VerdictsKept
<1>3. CASE LimitCheck(c)
  <2>1. Grows /\ UNCHANGED <<doc, copy, check, refresh>>
    BY <1>3 DEF LimitCheck, Grows
  <2>2. \A b \in Calls : call'[b] = call[b] \/ call'[b].next \notin {"judge", "judged"}
    <3>1. CASE overLimit
      BY <1>1, <1>3, <3>1 DEF LimitCheck
    <3>2. CASE ~overLimit
      BY <1>0, <1>3, <3>2 DEF LimitCheck, To, Call
    <3> QED BY <3>1, <3>2
  <2> QED BY <1>2, <2>1, <2>2
<1>4. CASE SwitchExchange(c)
  <2>1. Grows /\ UNCHANGED <<doc, copy, check, refresh>>
    BY <1>4 DEF SwitchExchange, Grows
  <2>2. \A b \in Calls : call'[b] = call[b] \/ call'[b].next \notin {"judge", "judged"}
    <3>1. CASE ~(SettingsRight(None) /\ conns # {})
      BY <1>1, <1>4, <3>1 DEF SwitchExchange
    <3>2. CASE SettingsRight(None) /\ conns # {}
      <4>1. PICK con \in conns :
                call' = [call EXCEPT ![c] = [call[c] EXCEPT !.next = "fetch", !.keys = con.keys]]
        BY <1>4, <3>2 DEF SwitchExchange
      <4>2. [call[c] EXCEPT !.next = "fetch", !.keys = con.keys].next = "fetch"
        BY <1>0 DEF Call
      <4> QED BY <1>0, <4>1, <4>2
    <3> QED BY <3>1, <3>2
  <2> QED BY <1>2, <2>1, <2>2
<1>5. CASE FetchBalance(c)
  <2>1. Grows /\ UNCHANGED <<doc, copy, check, refresh>>
    BY <1>5 DEF FetchBalance, Grows
  <2>2. /\ call'[c].answer = "active" => call'[c].keys \in confirmed'
        /\ call'[c].answer = "broken" => call'[c].keys \in refused'
    BY <1>0, <1>5 DEF FetchBalance, Call
  <2>3. \A b \in Calls \ {c} : call'[b] = call[b]
    BY <1>0, <1>5 DEF FetchBalance
  <2> QED BY <1>0, <2>1, <2>2, <2>3, EarnedKept, DocKept, VerdictsKept
<1>6. CASE OrderAnswered(c)
  BY <1>1, <1>2, <1>6 DEF OrderAnswered, Grows
<1>7. CASE SetWalletBalance(c)
  BY <1>1, <1>2, <1>7 DEF SetWalletBalance, Grows
<1>8. CASE FetchFails(c)
  BY <1>1, <1>2, <1>8 DEF FetchFails, Grows
<1>9. CASE Asked(c)
  <2>1. PICK kind \in {"asked", "order"} : Ask(c, kind)
    BY <1>9 DEF Asked, GetWalletBalances, OpenBuy, OpenSell, OrderClosed
  <2>2. \A b \in Calls : call'[b] = call[b] \/ call'[b].next \notin {"judge", "judged"}
    BY <1>0, <2>1 DEF Ask, NoCall
  <2> QED BY <1>2, <2>1, <2>2 DEF Ask, Grows
<1>10. CASE Judge(c)
  <2>1. /\ Grows /\ UNCHANGED <<doc, check, refresh>>
        /\ \A b \in Writers : copy'[b] \in {None, doc, check.user, copy[b]}
    BY <1>0, <1>10, JudgeReadEarned DEF Judge, Grows
  <2>2. \A b \in Calls : call'[b].next \in {"judge", "judged"} =>
              call[b].next \in {"judge", "judged"} /\ call'[b].answer = call[b].answer /\ call'[b].keys = call[b].keys
    <3>1. CASE Judges(call[c].answer)
      BY <1>0, <1>10, <3>1 DEF Judge, To, Call
    <3>2. CASE ~Judges(call[c].answer)
      BY <1>1, <1>10, <3>2 DEF Judge
    <3> QED BY <3>1, <3>2
  <2>3. \A b \in Calls : call'[b].next \in {"judge", "judged"} =>
              /\ call'[b].answer = "active" => call'[b].keys \in confirmed'
              /\ call'[b].answer = "broken" => call'[b].keys \in refused'
    BY <2>1, <2>2 DEF Earned, Grows
  <2> QED BY <1>0, <2>1, <2>3, EarnedKept, DocKept, VerdictsKept
<1>11. CASE JudgedWrite(c)
  <2>1. /\ copy[c] # None /\ call[c].answer \in Status
        /\ JudgeWrite(c, call[c].answer, call[c].keys)
        /\ UNCHANGED <<confirmed, refused, dictated, check, refresh>>
        /\ call[c].answer = "active" => call[c].keys \in confirmed
        /\ call[c].answer = "broken" => call[c].keys \in refused
    BY <1>0, <1>11 DEF JudgedWrite, Typed, Holding, Earned, Call, Status
  <2>2. /\ Grows /\ SoundNow(doc)'
        /\ \A b \in Writers : copy'[b] \in {None, doc, check.user, copy[b]}
    BY <1>0, <2>1, JudgeWriteEarned
  <2>3. \A b \in Calls : call'[b] = call[b] \/ call'[b].next \notin {"judge", "judged"}
    BY <1>1, <1>11 DEF JudgedWrite
  <2> QED BY <1>0, <2>1, <2>2, <2>3, EarnedKept, VerdictsKept
<1> QED BY <1>3, <1>4, <1>5, <1>6, <1>7, <1>8, <1>9, <1>10, <1>11 DEF CallStep

\* The world gives no verdict and takes none back.
LEMMA OutsideEarned == Typed /\ Earned /\ (Outside \/ UNCHANGED vars) => Earned'
<1> SUFFICES ASSUME Typed, Earned, Outside \/ UNCHANGED vars PROVE Earned'
  OBVIOUS
<1>1. UNCHANGED <<doc, copy, check, refresh, call, confirmed, refused, misjudged, dictated>>
  BY DEF Outside, vars, settingsVars, gatewayVars, history, AddProxyServer, UpdateProxyServers,
         FetchCandles, LimitExpires, Ages, Revoke
<1> QED BY <1>1 DEF Earned, SoundNow, Sound

\* What a restart forgets was sound, and so is what it leaves.
LEMMA RestartEarned == Typed /\ Earned /\ Restart => Earned'
<1> SUFFICES ASSUME Typed, Earned, Restart PROVE Earned'
  OBVIOUS
<1>1. /\ Grows /\ doc' = doc /\ check'.user = None /\ refresh'.next # "broken"
      /\ \A a \in Writers : copy'[a] \in {None, doc, check.user, copy[a]}
      /\ \A c \in Calls : call'[c].next \notin {"judge", "judged"}
  BY GatewayAssumption DEF Restart, Grows, history, Idle, NoCall
<1> QED BY <1>1, EarnedKept, DocKept

\* A verdict that a body brings is set aside: nothing else that it says is one.
LEMMA SoundDictated ==
    ASSUME NEW body \in UserBodies, NEW yes, NEW no, NEW aside, Dictated(body) \subseteq aside
    PROVE  Sound(body, yes, no, aside)
<1> QED BY DEF Sound, Dictated

\* PUT /user stores the verdict of its body, or leaves the one that is there.
LEMMA UserUpdatedEarned == Typed /\ Earned /\ UserUpdated => Earned'
<1> SUFFICES ASSUME Typed, Earned, UserUpdated PROVE Earned'
  OBVIOUS
<1>1. PICK body \in UserBodies :
          UpdateUser(body) /\ dictated' = dictated \union Dictated(body)
  BY DEF UserUpdated
<1>2. body \in Documents /\ doc \in Documents
  BY DocumentsAssumption DEF Typed, SettingsTyped, SettingsTypeOK
<1>3. /\ Grows /\ UNCHANGED <<copy, check, refresh, call>>
  BY <1>1 DEF UpdateUser, UserUpdated, gatewayVars, Grows
<1>4. Sound(doc, confirmed', refused', misjudged' \union dictated')
  BY <1>3 DEF Earned, SoundNow, Sound, Grows
<1>5. Sound(body, confirmed', refused', misjudged' \union dictated')
  BY <1>1, SoundDictated
<1>6. Sound(doc', confirmed', refused', misjudged' \union dictated')
  BY <1>1, <1>2, <1>4, <1>5, SoundStored DEF UpdateUser, SaveDoc
<1>7. SoundNow(doc)'
  BY <1>6 DEF SoundNow
<1> QED BY <1>3, <1>7, EarnedKept, VerdictsKept

\* At first there are no keys, or those of a body.
LEMMA InitEarned == Init => Earned
<1> SUFFICES ASSUME Init PROVE Earned
  OBVIOUS
<1>1. doc = NewDoc \/ doc \in UserBodies
  BY DEF Init, SettingsInit, AddNewUser
<1>2. SoundNow(doc)
  BY <1>1, SoundDictated DEF Init, SoundNow, Sound, NewDoc
<1> QED BY <1>2, GatewayAssumption
        DEF Init, SettingsInit, Earned, Idle, NoCall, Writers

\* Every step keeps what is earned.
LEMMA NextEarned == Typed /\ Earned /\ [Next]_vars => Earned'
<1> SUFFICES ASSUME Typed, Earned, [Next]_vars PROVE Earned'
  OBVIOUS
<1>1. ASSUME NEW r \in Requests, Settings(r) PROVE Earned'
  BY <1>1, SettingsEarned
<1>2. CASE RefresherStep
  BY <1>2, RefresherEarned
<1>3. CASE CheckerStep \/ CheckThrows
  BY <1>3, CheckerEarned
<1>4. ASSUME NEW c \in Calls, CallStep(c) \/ FetchFails(c) \/ Asked(c) PROVE Earned'
  BY <1>4, CallEarned
<1>5. CASE Restart
  BY <1>5, RestartEarned
<1>6. CASE Outside \/ UNCHANGED vars
  BY <1>6, OutsideEarned
<1>7. CASE UserUpdated
  BY <1>7, UserUpdatedEarned
<1> QED BY <1>1, <1>2, <1>3, <1>4, <1>5, <1>6, <1>7 DEF Next, Outside

\* Whoever writes a document over whose change, with any number of requests and calls under way:
\* keys are active only if the exchange accepted them, and broken only if it refused them or their
\* proxy is unknown, or the answer to other keys came late, or a body of PUT or POST /user said so.
THEOREM VerdictsAreEarned == Spec => []VerdictIsEarned
<1>1. Typed /\ Earned => VerdictIsEarned
  BY DEF Earned, SoundNow, Sound, VerdictIsEarned
<1> QED BY <1>1, InitTyped, InitEarned, NextTyped, NextEarned, PTL DEF Spec

-----------------------------------------------------------------------------
(***************************************************************************)
(* The ticker application holds connections of its own, the websockets of  *)
(* TickerFeed.  What a service believes of them is honest for any number   *)
(* of processes, exchanges and faults.  Only link matters: whatever Redis  *)
(* and the crons say, it only decides whether an action happens.           *)
(***************************************************************************)
CONSTANTS SubConnected, Capacity, Alive, Lease, MaxSockets, MaxFaults

VARIABLES main, available, feeders, tickers, up, isMainFeeder, vote, plan, faults

Feed == INSTANCE TickerFeed

\* What LinkHonest says of one service, and what keeps it so: this.connection,
\* once set, is one of the open websockets.
Honest(l) ==
    /\ l \in Feed!Link
    /\ l.connected => l.current
    /\ l.current => l.open > 0
    /\ l.reconnecting => l.dials > 0

LinkInv ==
    /\ link \in [Feeders -> [Exchanges -> Feed!Link]]
    /\ \A f \in Feeders, x \in Exchanges : Honest(link[f][x])

-----------------------------------------------------------------------------
\* One service changes, and it stays honest.
LEMMA RelinkHonest ==
    ASSUME LinkInv, NEW f \in Feeders, NEW x \in Exchanges,
           NEW l, Honest(l), Feed!Relink(f, x, l)
    PROVE  LinkInv'
<1>1. l \in Feed!Link
  BY DEF Honest
<1>2. link' = [link EXCEPT ![f] = [link[f] EXCEPT ![x] = l]]
  BY DEF Feed!Relink
<1>3. link' \in [Feeders -> [Exchanges -> Feed!Link]]
  BY <1>1, <1>2 DEF LinkInv
<1>4. ASSUME NEW g \in Feeders, NEW y \in Exchanges
      PROVE  link'[g][y] = IF g = f /\ y = x THEN l ELSE link[g][y]
  BY <1>2 DEF LinkInv
<1> QED BY <1>3, <1>4 DEF LinkInv

LEMMA UnlinkedHonest == Honest(Feed!Unlinked)
<1> QED BY DEF Honest, Feed!Unlinked, Feed!Link

\* What each event makes of an honest service.
LEMMA Dialled ==
    ASSUME NEW l \in Feed!Link, Honest(l)
    PROVE  Honest([l EXCEPT !.reconnecting = TRUE, !.dials = @ + 1])
<1> DEFINE dials == l.dials + 1
<1>1. dials \in Nat /\ dials > 0
  BY DEF Feed!Link
<1> HIDE DEF dials
<1>2. Honest([l EXCEPT !.reconnecting = TRUE, !.dials = dials])
  BY <1>1 DEF Honest, Feed!Link
<1> QED BY <1>2 DEF dials

LEMMA Connected ==
    ASSUME NEW l \in Feed!Link, Honest(l), l.dials > 0
    PROVE  Honest([l EXCEPT !.connected = TRUE, !.reconnecting = FALSE, !.current = TRUE,
                      !.open = @ + 1, !.dials = @ - 1])
<1> DEFINE open  == l.open + 1
           dials == l.dials - 1
<1>1. open \in Nat /\ open > 0 /\ dials \in Nat
  BY DEF Feed!Link
<1> HIDE DEF open, dials
<1>2. Honest([l EXCEPT !.connected = TRUE, !.reconnecting = FALSE, !.current = TRUE,
                 !.open = open, !.dials = dials])
  BY <1>1 DEF Honest, Feed!Link
<1> QED BY <1>2 DEF open, dials

\* A lost service claims nothing; the rest is what it was.
LEMMA LostOnly ==
    ASSUME NEW l \in Feed!Link, Honest(l)
    PROVE  /\ Feed!Lost(l) \in Feed!Link /\ Honest(Feed!Lost(l))
           /\ ~Feed!Lost(l).connected /\ ~Feed!Lost(l).reconnecting
           /\ Feed!Lost(l).current = l.current /\ Feed!Lost(l).open = l.open
           /\ Feed!Lost(l).dials = l.dials /\ Feed!Lost(l).closing = l.closing
<1> QED BY DEF Honest, Feed!Link, Feed!Lost

LEMMA DialLost ==
    ASSUME NEW l \in Feed!Link, Honest(l), l.dials > 0
    PROVE  Honest([Feed!Lost(l) EXCEPT !.dials = @ - 1])
<1> DEFINE dials == Feed!Lost(l).dials - 1
<1>1. dials \in Nat
  BY LostOnly DEF Feed!Link
<1> HIDE DEF dials
<1>2. \A k \in Feed!Link : Honest(k) /\ ~k.reconnecting => Honest([k EXCEPT !.dials = dials])
  BY <1>1 DEF Honest, Feed!Link
<1> QED BY <1>2, LostOnly DEF dials

LEMMA SocketLost ==
    ASSUME NEW l \in Feed!Link, Honest(l), NEW wasCurrent \in BOOLEAN, l.open > 0,
           ~wasCurrent /\ l.current => l.open > 1
    PROVE  Honest([Feed!Lost(l) EXCEPT !.open = @ - 1, !.current = @ /\ ~wasCurrent])
<1> DEFINE open    == Feed!Lost(l).open - 1
           current == Feed!Lost(l).current /\ ~wasCurrent
<1>1. open \in Nat /\ current \in BOOLEAN
  BY LostOnly DEF Feed!Link
<1>2. current => open > 0
  BY LostOnly DEF Feed!Link
<1> HIDE DEF open, current
<1>3. \A k \in Feed!Link : ~k.connected /\ ~k.reconnecting
          => Honest([k EXCEPT !.open = open, !.current = current])
  BY <1>1, <1>2 DEF Honest, Feed!Link
<1> QED BY <1>3, LostOnly DEF open, current

LEMMA OwnCloseDone ==
    ASSUME NEW l \in Feed!Link, Honest(l), l.closing > 0
    PROVE  Honest([Feed!Lost(l) EXCEPT !.closing = @ - 1])
<1> DEFINE closing == Feed!Lost(l).closing - 1
<1>1. closing \in Nat
  BY LostOnly DEF Feed!Link
<1> HIDE DEF closing
<1>2. \A k \in Feed!Link : Honest(k) => Honest([k EXCEPT !.closing = closing])
  BY <1>1 DEF Honest, Feed!Link
<1> QED BY <1>2, LostOnly DEF closing

LEMMA OwnClose ==
    ASSUME NEW l \in Feed!Link, Honest(l), l.open > 0
    PROVE  Honest([l EXCEPT !.connected = FALSE, !.current = FALSE,
                      !.open = @ - 1, !.closing = @ + 1])
<1> DEFINE open    == l.open - 1
           closing == l.closing + 1
<1>1. open \in Nat /\ closing \in Nat
  BY DEF Feed!Link
<1> HIDE DEF open, closing
<1>2. Honest([l EXCEPT !.connected = FALSE, !.current = FALSE,
                 !.open = open, !.closing = closing])
  BY <1>1 DEF Honest, Feed!Link
<1> QED BY <1>2 DEF open, closing

-----------------------------------------------------------------------------
LEMMA InitLinkInv == Feed!Init => LinkInv
<1> SUFFICES ASSUME Feed!Init PROVE LinkInv
  OBVIOUS
<1>1. Feed!Unlinked \in Feed!Link
  BY UnlinkedHonest DEF Honest
<1> QED BY <1>1, UnlinkedHonest DEF Feed!Init, LinkInv

LEMMA WebsocketLinkInv ==
    ASSUME LinkInv, NEW f \in Feeders, NEW x \in Exchanges, Feed!Websocket(f, x)
    PROVE  LinkInv'
<1> DEFINE l == link[f][x]
<1>0. l \in Feed!Link /\ Honest(l)
  BY DEF LinkInv
<1>1. CASE Feed!CheckConnection(f, x)
  <2> DEFINE new == [l EXCEPT !.reconnecting = TRUE, !.dials = @ + 1]
  <2>1. Honest(new)
    BY <1>0, <1>1, Dialled DEF Feed!CheckConnection
  <2>2. Feed!Relink(f, x, new)
    BY <1>1 DEF Feed!CheckConnection
  <2> QED BY <2>1, <2>2, RelinkHonest
<1>2. CASE Feed!OnConnect(f, x)
  <2> DEFINE new == [l EXCEPT !.connected = TRUE, !.reconnecting = FALSE, !.current = TRUE,
                            !.open = @ + 1, !.dials = @ - 1]
  <2>1. Honest(new)
    BY <1>0, <1>2, Connected DEF Feed!OnConnect
  <2>2. Feed!Relink(f, x, new)
    BY <1>2 DEF Feed!OnConnect
  <2> QED BY <2>1, <2>2, RelinkHonest
<1>3. CASE Feed!ConnectFailed(f, x)
  <2> DEFINE new == [Feed!Lost(l) EXCEPT !.dials = @ - 1]
  <2>1. Honest(new)
    BY <1>0, <1>3, DialLost DEF Feed!ConnectFailed
  <2>2. Feed!Relink(f, x, new)
    BY <1>3 DEF Feed!ConnectFailed
  <2> QED BY <2>1, <2>2, RelinkHonest
<1>4. CASE Feed!SubConnectFailed(f, x)
  <2> DEFINE new == Feed!Lost(l)
  <2>1. Honest(new)
    BY <1>0, <1>4, LostOnly DEF Feed!SubConnectFailed
  <2>2. Feed!Relink(f, x, new)
    BY <1>4 DEF Feed!SubConnectFailed
  <2> QED BY <2>1, <2>2, RelinkHonest
<1>5. CASE Feed!OnConnectionError(f, x)
  <2>1. PICK wasCurrent \in BOOLEAN :
           /\ ~wasCurrent /\ l.current => l.open > 1
           /\ Feed!Relink(f, x, [Feed!Lost(l) EXCEPT !.open = @ - 1, !.current = @ /\ ~wasCurrent])
    BY <1>5 DEF Feed!OnConnectionError
  <2> DEFINE new == [Feed!Lost(l) EXCEPT !.open = @ - 1, !.current = @ /\ ~wasCurrent]
  <2>2. l.open > 0
    BY <1>5 DEF Feed!OnConnectionError
  <2>3. Honest(new)
    BY <1>0, <2>1, <2>2, SocketLost
  <2> QED BY <2>1, <2>3, RelinkHonest
<1>6. CASE Feed!OnConnectionClosed(f, x)
  <2> DEFINE new == [Feed!Lost(l) EXCEPT !.closing = @ - 1]
  <2>1. Honest(new)
    BY <1>0, <1>6, OwnCloseDone DEF Feed!OnConnectionClosed
  <2>2. Feed!Relink(f, x, new)
    BY <1>6 DEF Feed!OnConnectionClosed
  <2> QED BY <2>1, <2>2, RelinkHonest
<1>7. CASE Feed!OnTicker(f, x)
  BY <1>7 DEF Feed!OnTicker, Feed!Prices, LinkInv
<1>8. CASE Feed!OnMessage(f, x)
  <2> DEFINE new == [l EXCEPT !.connected = FALSE, !.current = FALSE,
                            !.open = @ - 1, !.closing = @ + 1]
  <2>1. Honest(new)
    BY <1>0, <1>8, OwnClose DEF Feed!OnMessage
  <2>2. Feed!Relink(f, x, new)
    BY <1>8 DEF Feed!OnMessage
  <2> QED BY <2>1, <2>2, RelinkHonest
<1> QED BY <1>1, <1>2, <1>3, <1>4, <1>5, <1>6, <1>7, <1>8 DEF Feed!Websocket

LEMMA NextLinkInv == LinkInv /\ [Feed!Next]_Feed!vars => LinkInv'
<1> SUFFICES ASSUME LinkInv, [Feed!Next]_Feed!vars PROVE LinkInv'
  OBVIOUS
<1>1. ASSUME NEW f \in Feeders, Feed!Cron(f) PROVE LinkInv'
  BY <1>1 DEF Feed!Cron, Feed!ReadMainFeeder, Feed!SetMainTickerFeeder, Feed!ResetOldMainFeeder, Feed!RunRoulette,
              Feed!SetTickerFeeders, LinkInv
<1>2. ASSUME NEW f \in Feeders, Feed!HaltApplication(f) PROVE LinkInv'
  <2>1. link' = [link EXCEPT ![f] = [x \in Exchanges |-> Feed!Unlinked]]
    BY <1>2 DEF Feed!HaltApplication, Feed!Forgotten
  <2>2. Feed!Unlinked \in Feed!Link
    BY UnlinkedHonest DEF Honest
  <2>3. link' \in [Feeders -> [Exchanges -> Feed!Link]]
    BY <2>1, <2>2 DEF LinkInv
  <2>4. \A g \in Feeders, x \in Exchanges :
           link'[g][x] = IF g = f THEN Feed!Unlinked ELSE link[g][x]
    BY <2>1 DEF LinkInv
  <2> QED BY <2>3, <2>4, UnlinkedHonest DEF LinkInv
<1>3. ASSUME NEW f \in Feeders, Feed!OnApplicationBootstrap(f) PROVE LinkInv'
  BY <1>3 DEF Feed!OnApplicationBootstrap, LinkInv
<1>4. ASSUME NEW f \in Feeders, NEW x \in Exchanges, Feed!Websocket(f, x) PROVE LinkInv'
  BY <1>4, WebsocketLinkInv
<1>5. CASE Feed!Tick
  BY <1>5 DEF Feed!Tick, LinkInv
<1>6. CASE UNCHANGED Feed!vars
  BY <1>6 DEF Feed!vars, LinkInv
<1> QED BY <1>1, <1>2, <1>3, <1>4, <1>5, <1>6 DEF Feed!Next

\* A service never takes itself for connected without its connection, nor for
\* reconnecting without a dial, in whatever order the events of its websockets
\* come (ticker.service.ts:57-84, 143-168, 240-263).
THEOREM FlagsAreHonest == Feed!Spec => []LinkHonest
<1>1. LinkInv => LinkHonest
  BY DEF LinkInv, Honest, LinkHonest
<1> QED BY <1>1, InitLinkInv, NextLinkInv, PTL DEF Feed!Spec
=============================================================================
