-------------------------- MODULE ExchangeSettings --------------------------
(***************************************************************************)
(* What a user has set for one exchange: keys, proxy, symbols, favourites.  *)
(* It is a part of the user document in Redis, which every request reads    *)
(* as a whole and writes back as a whole.  The proxies of the platform and  *)
(* which of them belongs to the user are in MongoDB.                        *)
(***************************************************************************)
EXTENDS Integers, FiniteSets

CONSTANTS
    None,            \* no keys, no proxy, no status, no copy
    Requests,        \* requests the API works on at once
    Others,          \* the actors of the gateway that write the document, too
    Keys,            \* sets of public key, secret and passphrase
    Proxies,
    Symbols,         \* symbols of the base currency of the exchange
    UserBodies,      \* what bodies of PUT and POST /user say of exchanges, any documents
    MaxEdits         \* bound: requests, faults and other inputs

Status == {"active", "inactive", "pending", "not_configured", "broken"}

ASSUME SettingsAssumption ==
    /\ None \notin Keys \union Proxies \union Status \union Requests
    /\ None \notin {"assign", "write", "unlist"}
    /\ Requests \intersect Others = {}
    /\ MaxEdits \in Nat

VARIABLES
    doc,             \* the user document
    listed,          \* collection ProxyServers: those not deleted
    known,           \*                          all that ever were
    assigned,        \* collection UserProxyServers: of this user
    job,             \* of each request: [edit, next], or None
    copy,            \* of each actor: the document it will write back, or None
    left             \* inputs still to come (bound)

settingsVars == <<doc, listed, known, assigned, job, copy>>

Writers == Requests \union Others

Comes == left > 0 /\ left' = left - 1

-----------------------------------------------------------------------------
(* The document *)

\* Of exchanges: no such field yet, an empty list, or an entry of the exchange.
NewDoc == [exchanges |-> "missing", keys |-> None, proxy |-> None, status |-> None,
           symbols |-> {}, favorites |-> {}, deleted |-> FALSE]

Documents ==
    [exchanges : {"missing", "empty", "there"}, keys : Keys \union {None},
     proxy : Proxies \union {None}, status : Status \union {None},
     symbols : SUBSET Symbols, favorites : SUBSET Symbols, deleted : BOOLEAN]

ASSUME DocumentsAssumption == None \notin Documents /\ UserBodies \subseteq Documents

Works(status) == status \in {"active", "pending"}

\* An entry is made where there is none; it has no status.
WithEntry(d) == [d EXCEPT !.exchanges = "there"]

\* setUser(): of a document without exchanges the stored ones are kept.
Stored(old, d) == IF d.exchanges = "missing" THEN [old EXCEPT !.deleted = d.deleted] ELSE d

SaveDoc(d) == doc' = Stored(doc, d)

\* Mutant: a status that no reader of the document knows.
NewStatusUnknown(keys, status) == IF keys = None THEN "empty" ELSE "pending"

\* The status that new keys get: the one given, or by what there is of keys.
NewStatus(keys, status) ==
    IF status # None THEN status ELSE IF keys = None THEN "not_configured" ELSE "pending"

\* Mutant: new keys keep the verdict on the old ones.
KeysKeepStatus(d, keys, proxy, status) ==
    [WithEntry(d) EXCEPT !.keys = keys, !.proxy = proxy,
                         !.status = IF Works(@) THEN @ ELSE NewStatus(keys, status)]

\* updateExchangeKeys()
KeysEdited(d, keys, proxy, status) ==
    [WithEntry(d) EXCEPT !.keys = keys, !.proxy = proxy, !.status = NewStatus(keys, status)]

WithSymbols(d, list) == [WithEntry(d) EXCEPT !.symbols = list]

WithFavorites(d, list) == [WithEntry(d) EXCEPT !.favorites = list]

SymbolsAdded(d, list) == WithSymbols(d, d.symbols \union list)

SymbolsDeleted(d, list) == WithSymbols(d, d.symbols \ list)

SymbolsCleared(d) == WithSymbols(d, {})

FavoritesAdded(d, list) == WithFavorites(d, d.favorites \union list)

FavoritesDeleted(d, list) == WithFavorites(d, d.favorites \ list)

FavoritesCleared(d) == WithFavorites(d, {})

\* setUserProxy()
ProxyEdited(d, proxy) == [d EXCEPT !.proxy = proxy]

\* deleteUser() leaves the entry and its status.
Erased(d) == [d EXCEPT !.deleted = TRUE, !.keys = None]

\* getExchanges() writes an empty list when the field is missing.
ListMade(d) == IF d.exchanges = "missing" THEN [d EXCEPT !.exchanges = "empty"] ELSE d

Edited(d, e) ==
    CASE e.op = "keys"   -> KeysEdited(d, e.keys, e.proxy, e.status)
      [] e.op = "proxy"  -> ProxyEdited(d, e.proxy)
      [] e.op = "erase"  -> Erased(d)
      [] e.op = "list"   -> ListMade(d)
      [] e.op = "addSymbols"      -> SymbolsAdded(d, e.symbols)
      [] e.op = "deleteSymbols"   -> SymbolsDeleted(d, e.symbols)
      [] e.op = "clearSymbols"    -> SymbolsCleared(d)
      [] e.op = "addFavorites"    -> FavoritesAdded(d, e.symbols)
      [] e.op = "deleteFavorites" -> FavoritesDeleted(d, e.symbols)
      [] e.op = "clearFavorites"  -> FavoritesCleared(d)

NoEdit == [op |-> None, keys |-> None, proxy |-> None, status |-> None, symbols |-> {}]

-----------------------------------------------------------------------------
(* Requests: the document is read with the arrival *)

\* PUT /user: exchanges as they come, keys and status too, or the stored ones; a mark of deletion
\* that the body does not carry is gone.
UpdateUser(body) ==
    /\ Comes
    /\ SaveDoc(body)
    /\ UNCHANGED <<listed, known, assigned, job, copy>>

\* POST /user stores what its body says of exchanges as it comes, and is an input then.
AddNewUser ==
    \/ doc = NewDoc /\ left = MaxEdits
    \/ doc \in UserBodies /\ MaxEdits > 0 /\ left = MaxEdits - 1

SettingsInit ==
    /\ AddNewUser
    /\ listed = Proxies /\ known = Proxies
    /\ assigned = None
    /\ job = [r \in Requests |-> None]
    /\ copy = [a \in Writers |-> None]

Starts(r, edit, next) ==
    /\ job[r] = None /\ Comes
    /\ job' = [job EXCEPT ![r] = [edit |-> edit, next |-> next]]
    /\ copy' = [copy EXCEPT ![r] = doc]
    /\ UNCHANGED <<doc, listed, known, assigned>>

\* Any status but "inactive" is taken out of the body.
UpdateUserExchangeKeysBodyDto ==
    [keys : Keys \union {None}, proxy : Proxies \union {None}, status : {None, "inactive"}]

UpdateExchangeKeys(r) == \E body \in UpdateUserExchangeKeysBodyDto :
    Starts(r, [NoEdit EXCEPT !.op = "keys", !.keys = body.keys, !.proxy = body.proxy,
                             !.status = body.status], "assign")

\* Only an exchange that is set up gets a proxy.
SetUserProxy(r) == \E p \in Proxies \union {None} :
    /\ doc.exchanges = "there"
    /\ Starts(r, [NoEdit EXCEPT !.op = "proxy", !.proxy = p], "write")

GetExchanges(r) ==
    /\ doc.exchanges = "missing"
    /\ Starts(r, [NoEdit EXCEPT !.op = "list"], "write")

ListEdit(r, op, list) == Starts(r, [NoEdit EXCEPT !.op = op, !.symbols = list], "write")

ChangeUserExchangeSymbolBodyDto == [symbols : SUBSET Symbols \ {{}}]

AddExchangeSymbols(r) ==
    \E body \in ChangeUserExchangeSymbolBodyDto : ListEdit(r, "addSymbols", body.symbols)

DeleteExchangeSymbols(r) ==
    \E body \in ChangeUserExchangeSymbolBodyDto : ListEdit(r, "deleteSymbols", body.symbols)

ClearExchangeSymbols(r) == ListEdit(r, "clearSymbols", {})

ChangeUserFavoriteSymbolBodyDto == [favoriteSymbols : SUBSET Symbols \ {{}}]

AddFavoriteSymbols(r) ==
    \E body \in ChangeUserFavoriteSymbolBodyDto : ListEdit(r, "addFavorites", body.favoriteSymbols)

DeleteFavoriteSymbols(r) ==
    \E body \in ChangeUserFavoriteSymbolBodyDto : ListEdit(r, "deleteFavorites", body.favoriteSymbols)

ClearFavoriteSymbols(r) == ListEdit(r, "clearFavorites", {})

DeleteUser(r) == Starts(r, [NoEdit EXCEPT !.op = "erase"], "write")

Then(r, next) ==
    job' = [job EXCEPT ![r] = IF next = None THEN None ELSE [@ EXCEPT !.next = next]]

\* setUserProxy() and deleteUserProxy() of MongoDB: a proxy nobody ever added is refused, which
\* updateExchangeKeys() does not look at, and setUserProxy() finds out after its write.
AssignProxy(r) ==
    LET e == job[r].edit IN
    /\ job[r] # None /\ job[r].next = "assign"
    /\ assigned' = IF e.proxy = None THEN None ELSE IF e.proxy \in known THEN e.proxy ELSE assigned
    /\ Then(r, IF e.op = "keys" THEN "write" ELSE None)
    /\ UNCHANGED <<doc, listed, known, copy, left>>

WriteSettings(r) ==
    LET e == job[r].edit IN
    /\ job[r] # None /\ job[r].next = "write"
    /\ SaveDoc(Edited(copy[r], e))
    /\ copy' = [copy EXCEPT ![r] = None]
    /\ Then(r, IF e.op = "proxy" THEN "assign" ELSE None)
    /\ UNCHANGED <<listed, known, assigned, left>>

-----------------------------------------------------------------------------
(* Proxies of the platform *)

\* A deleted proxy may be added again.
AddProxyServer == \E p \in Proxies \ listed :
    /\ Comes
    /\ listed' = listed \union {p} /\ known' = known \union {p}
    /\ UNCHANGED <<doc, assigned, job, copy>>

\* Refused while the proxy is assigned to somebody.
DeleteProxyServer(r) == \E p \in listed :
    /\ job[r] = None /\ Comes /\ assigned # p
    /\ job' = [job EXCEPT ![r] = [edit |-> [NoEdit EXCEPT !.op = "unlist", !.proxy = p], next |-> "unlist"]]
    /\ UNCHANGED <<doc, listed, known, assigned, copy>>

\* What was checked may be different by now.
UnlistProxy(r) ==
    /\ job[r] # None /\ job[r].next = "unlist"
    /\ listed' = listed \ {job[r].edit.proxy}
    /\ Then(r, None)
    /\ UNCHANGED <<doc, known, assigned, copy, left>>

SettingsRequest(r) ==
    \/ UpdateExchangeKeys(r) \/ SetUserProxy(r) \/ GetExchanges(r) \/ DeleteUser(r)
    \/ AddExchangeSymbols(r) \/ DeleteExchangeSymbols(r) \/ ClearExchangeSymbols(r)
    \/ AddFavoriteSymbols(r) \/ DeleteFavoriteSymbols(r) \/ ClearFavoriteSymbols(r)
    \/ DeleteProxyServer(r)

SettingsStep(r) == AssignProxy(r) \/ WriteSettings(r) \/ UnlistProxy(r)

SettingsTypeOK ==
    /\ doc \in Documents
    /\ listed \subseteq known /\ known \subseteq Proxies
    /\ assigned \in known \union {None}
    /\ copy \in [Writers -> Documents \union {None}]
    /\ left \in 0..MaxEdits
=============================================================================
