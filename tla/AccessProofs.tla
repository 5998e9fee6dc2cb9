----------------------------- MODULE AccessProofs -----------------------------
(***************************************************************************)
(* Documents are complete, platform numbers differ and a handler changes    *)
(* what it is there to change, for any number of users, requests and        *)
(* sessions.                                                                *)
(*                                                                          *)
(* A request holds a body from the moment it has read the document until it *)
(* stores it, and nobody looks at it in between.  So everything that is to  *)
(* be true of what is stored has to be true of what is in hand: that the    *)
(* body is faithful to the document it was made of, that it has a number    *)
(* once one was drawn, that who is going to sign has a role and a device.   *)
(* This is WorkInv.  CountInv bounds the sessions: every request signs at   *)
(* most once.  NumberInv says who has which platform number while nobody    *)
(* has read the counter between another's reading and writing of it: the    *)
(* next number is in the hand of at most one request, the others, but those *)
(* a body brought, are of one user each.                                    *)
(***************************************************************************)
EXTENDS Access, FiniteSetTheorems, SequenceTheorems, TLAPS

(***************************************************************************)
(* What a request has before it.                                           *)
(***************************************************************************)

\* The steps a request may have left.
SavePaths == {<<"save">>, <<"save", "sign">>, <<"save", "spend">>, <<"save", "spend", "sign">>}
LatePaths == {<<"drop">>, <<"sign">>, <<"spend">>, <<"spend", "sign">>}
NumberedPaths ==
    {<<"numbered", "save">>, <<"numbered", "save", "sign">>, <<"numbered", "save", "spend">>,
     <<"numbered", "save", "spend", "sign">>}
Paths == SavePaths \union LatePaths \union NumberedPaths

Saves(steps) == steps \in SavePaths \union NumberedPaths
Signs(steps) == steps[Len(steps)] = "sign"

\* Who signs has a role and a device for it.
CanSign(q) == Signs(q.steps) => q.role \in USER_ROLES /\ q.device \in Devices

\* The body differs from the document it was made of in the fields the handler is there to change.
Faithful(op, d, b) == \A f \in Fields \ Own(op, b) : Stored(d, b)[f] = d[f]

Good(q) ==
    /\ q \in Work
    /\ q.steps \in Paths
    /\ CanSign(q)
    /\ q.steps \in NumberedPaths => q.body.number # 0
    /\ Saves(q.steps) /\ q.base # None => Faithful(q.op, q.base, q.body) /\ q.base.number # 0

WorkInv ==
    /\ req \in [Requests -> Work \union {None}]
    /\ \A r \in Requests : Idle(r) \/ Good(req[r])
    /\ \A u \in There : docs[u].number # 0

\* The inputs that are left, the sessions that were signed and those that will be are no more
\* than the inputs there were.
Signing == {r \in Requests : ~Idle(r) /\ Signs(req[r].steps)}

CountInv == left + signed + Cardinality(Signing) <= MaxInputs

Inv == TypeOK /\ WorkInv /\ CountInv

(* Numbers *)
Numbering(r) == ~Idle(r) /\ req[r].steps \in NumberedPaths

Owns(u, n) ==
    \/ u \in There /\ docs[u].number = n
    \/ \E r \in Requests : ~Idle(r) /\ req[r].id = u /\ req[r].body.number = n

\* Numbers that were given, by the counter or by a body, and those that only the counter gives.
Given(n) == n <= counter \/ n \in chosen
Drawn == (1 .. counter + 1) \ chosen

NumberInv ==
    raced \/
        /\ \A r, q \in Requests : Numbering(r) /\ Numbering(q) => r = q
        /\ \A r \in Requests : Numbering(r) => req[r].body.number = counter + 1
        /\ \A r \in Requests : ~Idle(r) /\ ~Numbering(r) => Given(req[r].body.number)
        /\ \A u \in There : Given(docs[u].number)
        /\ \A u, v \in Ids : \A n \in Drawn : Owns(u, n) /\ Owns(v, n) => u = v

-----------------------------------------------------------------------------
(* The paths *)

\* A step put before the others.
LEMMA Prepended ==
    ASSUME NEW S, NEW a \in S, NEW n \in Nat, NEW p \in [1..n -> S],
           NEW t \in Seq(S), Len(t) = n + 1, t[1] = a, \A i \in 1..n : t[i + 1] = p[i]
    PROVE  <<a>> \o p = t
<1> DEFINE s == <<a>> \o p
<1>1. p \in Seq(S) /\ Len(p) = n /\ <<a>> \in Seq(S) /\ Len(<<a>>) = 1 /\ <<a>>[1] = a
  OBVIOUS
<1>2. \A i \in 2..(n + 1) : ~(i <= 1) /\ i - 1 \in 1..n /\ (i - 1) + 1 = i
  OBVIOUS
<1>3. s \in Seq(S) /\ Len(s) = n + 1 /\ s[1] = a
  BY <1>1, ConcatProperties
<1>4. \A i \in 2..(n + 1) : s[i] = p[i - 1]
  BY <1>1, <1>2, ConcatProperties
<1>5. \A i \in 2..(n + 1) : t[i] = p[i - 1]
  BY <1>2
<1>6. \A i \in 1..Len(s) : s[i] = t[i]
  BY <1>3, <1>4, <1>5
<1> HIDE DEF s
<1>7. s = t
  BY <1>3, <1>6, SeqEqual
<1> QED BY <1>7 DEF s

LEMMA PrependedToNothing ==
    ASSUME NEW b
    PROVE  <<>> \o <<b>> = <<b>> /\ <<b>> \o <<>> = <<b>> /\ <<>> \o <<>> = <<>>
<1>1. <<b>> \in Seq({b}) /\ <<>> \in Seq({b})
  OBVIOUS
<1> QED BY <1>1, ConcatEmptySeq

LEMMA PrependedToOne ==
    ASSUME NEW a, NEW b
    PROVE  <<a>> \o <<b>> = <<a, b>>
<1> DEFINE S == {a, b}
           p == <<b>>
           t == <<a, b>>
<1>1. a \in S /\ 1 \in Nat /\ p \in [1..1 -> S] /\ t \in Seq(S) /\ Len(t) = 1 + 1 /\ t[1] = a
  OBVIOUS
<1>2. t[1 + 1] = p[1] /\ 1..1 = {1}
  OBVIOUS
<1> HIDE DEF S, p, t
<1>3. \A i \in 1..1 : t[i + 1] = p[i]
  BY <1>2
<1>4. <<a>> \o p = t
  BY <1>1, <1>3, Prepended
<1> QED BY <1>4 DEF p, t

LEMMA PrependedToTwo ==
    ASSUME NEW a, NEW b, NEW c
    PROVE  <<a>> \o <<b, c>> = <<a, b, c>>
<1> DEFINE S == {a, b, c}
           p == <<b, c>>
           t == <<a, b, c>>
<1>1. a \in S /\ 2 \in Nat /\ p \in [1..2 -> S] /\ t \in Seq(S) /\ Len(t) = 2 + 1 /\ t[1] = a
  OBVIOUS
<1>2. t[1 + 1] = p[1] /\ t[2 + 1] = p[2] /\ 1..2 = {1, 2}
  OBVIOUS
<1> HIDE DEF S, p, t
<1>3. \A i \in 1..2 : t[i + 1] = p[i]
  BY <1>2
<1>4. <<a>> \o p = t
  BY <1>1, <1>3, Prepended
<1> QED BY <1>4 DEF p, t

LEMMA PrependedToThree ==
    ASSUME NEW a, NEW b, NEW c, NEW d
    PROVE  <<a>> \o <<b, c, d>> = <<a, b, c, d>>
<1> DEFINE S == {a, b, c, d}
           p == <<b, c, d>>
           t == <<a, b, c, d>>
<1>1. a \in S /\ 3 \in Nat /\ p \in [1..3 -> S] /\ t \in Seq(S) /\ Len(t) = 3 + 1 /\ t[1] = a
  OBVIOUS
<1>2. t[1 + 1] = p[1] /\ t[2 + 1] = p[2] /\ t[3 + 1] = p[3] /\ 1..3 = {1, 2, 3}
  OBVIOUS
<1> HIDE DEF S, p, t
<1>3. \A i \in 1..3 : t[i + 1] = p[i]
  BY <1>2
<1>4. <<a>> \o p = t
  BY <1>1, <1>3, Prepended
<1> QED BY <1>4 DEF p, t

\* The paths, one by one: where they begin and end, and what is left after a step.
LEMMA SavePathFacts ==
    ASSUME NEW p \in SavePaths
    PROVE  /\ p # <<>>
           /\ Head(p) = "save"
           /\ Len(p) # 1 => Tail(p) \in LatePaths /\ (Signs(Tail(p)) <=> Signs(p))
           /\ <<"numbered">> \o p \in NumberedPaths
           /\ Signs(<<"numbered">> \o p) <=> Signs(p)
<1>1. CASE p = <<"save">>
  <2>1. p # <<>> /\ Len(p) = 1 /\ Head(p) = "save"
    BY <1>1
  <2>2. <<"numbered">> \o p = <<"numbered", "save">>
    BY <1>1, PrependedToOne
  <2>3. ~Signs(<<"save">>) /\ ~Signs(<<"numbered", "save">>)
    BY DEF Signs
  <2>4. <<"numbered", "save">> \in NumberedPaths
    BY DEF NumberedPaths
  <2> QED BY <1>1, <2>1, <2>2, <2>3, <2>4
<1>2. CASE p = <<"save", "sign">>
  <2>1. p # <<>> /\ Len(p) = 2 /\ Head(p) = "save" /\ Tail(p) = <<"sign">>
    BY <1>2
  <2>2. <<"numbered">> \o p = <<"numbered", "save", "sign">>
    BY <1>2, PrependedToTwo
  <2>3. Signs(<<"save", "sign">>) /\ Signs(<<"numbered", "save", "sign">>) /\ Signs(<<"sign">>)
    BY DEF Signs
  <2>4. <<"numbered", "save", "sign">> \in NumberedPaths /\ <<"sign">> \in LatePaths
    BY DEF NumberedPaths, LatePaths
  <2> QED BY <1>2, <2>1, <2>2, <2>3, <2>4
<1>3. CASE p = <<"save", "spend">>
  <2>1. p # <<>> /\ Len(p) = 2 /\ Head(p) = "save" /\ Tail(p) = <<"spend">>
    BY <1>3
  <2>2. <<"numbered">> \o p = <<"numbered", "save", "spend">>
    BY <1>3, PrependedToTwo
  <2>3. ~Signs(<<"save", "spend">>) /\ ~Signs(<<"numbered", "save", "spend">>) /\ ~Signs(<<"spend">>)
    BY DEF Signs
  <2>4. <<"numbered", "save", "spend">> \in NumberedPaths /\ <<"spend">> \in LatePaths
    BY DEF NumberedPaths, LatePaths
  <2> QED BY <1>3, <2>1, <2>2, <2>3, <2>4
<1>4. CASE p = <<"save", "spend", "sign">>
  <2>1. p # <<>> /\ Len(p) = 3 /\ Head(p) = "save" /\ Tail(p) = <<"spend", "sign">>
    BY <1>4
  <2>2. <<"numbered">> \o p = <<"numbered", "save", "spend", "sign">>
    BY <1>4, PrependedToThree
  <2>3. Signs(<<"save", "spend", "sign">>) /\ Signs(<<"numbered", "save", "spend", "sign">>) /\ Signs(<<"spend", "sign">>)
    BY DEF Signs
  <2>4. <<"numbered", "save", "spend", "sign">> \in NumberedPaths /\ <<"spend", "sign">> \in LatePaths
    BY DEF NumberedPaths, LatePaths
  <2> QED BY <1>4, <2>1, <2>2, <2>3, <2>4
<1> QED BY <1>1, <1>2, <1>3, <1>4 DEF SavePaths

LEMMA NumberedPathFacts ==
    ASSUME NEW p \in NumberedPaths
    PROVE  /\ p # <<>>
           /\ Head(p) = "numbered"
           /\ Len(p) # 1
           /\ Tail(p) \in SavePaths
           /\ Signs(Tail(p)) <=> Signs(p)
<1>1. CASE p = <<"numbered", "save">>
  <2>1. p # <<>> /\ Len(p) = 2 /\ Head(p) = "numbered" /\ Tail(p) = <<"save">>
    BY <1>1
  <2>2. ~Signs(<<"numbered", "save">>) /\ ~Signs(<<"save">>)
    BY DEF Signs
  <2>3. <<"save">> \in SavePaths
    BY DEF SavePaths
  <2> QED BY <1>1, <2>1, <2>2, <2>3
<1>2. CASE p = <<"numbered", "save", "sign">>
  <2>1. p # <<>> /\ Len(p) = 3 /\ Head(p) = "numbered" /\ Tail(p) = <<"save", "sign">>
    BY <1>2
  <2>2. Signs(<<"numbered", "save", "sign">>) /\ Signs(<<"save", "sign">>)
    BY DEF Signs
  <2>3. <<"save", "sign">> \in SavePaths
    BY DEF SavePaths
  <2> QED BY <1>2, <2>1, <2>2, <2>3
<1>3. CASE p = <<"numbered", "save", "spend">>
  <2>1. p # <<>> /\ Len(p) = 3 /\ Head(p) = "numbered" /\ Tail(p) = <<"save", "spend">>
    BY <1>3
  <2>2. ~Signs(<<"numbered", "save", "spend">>) /\ ~Signs(<<"save", "spend">>)
    BY DEF Signs
  <2>3. <<"save", "spend">> \in SavePaths
    BY DEF SavePaths
  <2> QED BY <1>3, <2>1, <2>2, <2>3
<1>4. CASE p = <<"numbered", "save", "spend", "sign">>
  <2>1. p # <<>> /\ Len(p) = 4 /\ Head(p) = "numbered" /\ Tail(p) = <<"save", "spend", "sign">>
    BY <1>4
  <2>2. Signs(<<"numbered", "save", "spend", "sign">>) /\ Signs(<<"save", "spend", "sign">>)
    BY DEF Signs
  <2>3. <<"save", "spend", "sign">> \in SavePaths
    BY DEF SavePaths
  <2> QED BY <1>4, <2>1, <2>2, <2>3
<1> QED BY <1>1, <1>2, <1>3, <1>4 DEF NumberedPaths

LEMMA LatePathFacts ==
    ASSUME NEW p \in LatePaths
    PROVE  /\ p # <<>>
           /\ Head(p) \notin {"save", "numbered"}
           /\ Head(p) = "sign" => Len(p) = 1 /\ Signs(p)
           /\ Len(p) # 1 => Tail(p) \in LatePaths /\ (Signs(Tail(p)) <=> Signs(p))
<1>1. CASE p = <<"drop">>
  <2>1. p # <<>> /\ Len(p) = 1 /\ Head(p) = "drop"
    BY <1>1
  <2>2. ~Signs(<<"drop">>)
    BY DEF Signs
  <2> QED BY <1>1, <2>1, <2>2
<1>2. CASE p = <<"sign">>
  <2>1. p # <<>> /\ Len(p) = 1 /\ Head(p) = "sign"
    BY <1>2
  <2>2. Signs(<<"sign">>)
    BY DEF Signs
  <2> QED BY <1>2, <2>1, <2>2
<1>3. CASE p = <<"spend">>
  <2>1. p # <<>> /\ Len(p) = 1 /\ Head(p) = "spend"
    BY <1>3
  <2>2. ~Signs(<<"spend">>)
    BY DEF Signs
  <2> QED BY <1>3, <2>1, <2>2
<1>4. CASE p = <<"spend", "sign">>
  <2>1. p # <<>> /\ Len(p) = 2 /\ Head(p) = "spend" /\ Tail(p) = <<"sign">>
    BY <1>4
  <2>2. Signs(<<"spend", "sign">>) /\ Signs(<<"sign">>)
    BY DEF Signs
  <2>3. <<"sign">> \in LatePaths
    BY DEF LatePaths
  <2> QED BY <1>4, <2>1, <2>2, <2>3
<1> QED BY <1>1, <1>2, <1>3, <1>4 DEF LatePaths

\* A path is known by its first step.
LEMMA PathFacts ==
    ASSUME NEW p \in Paths
    PROVE  /\ p # <<>>
           /\ Head(p) = "save" <=> p \in SavePaths
           /\ Head(p) = "numbered" <=> p \in NumberedPaths
           /\ Head(p) \notin {"save", "numbered"} <=> p \in LatePaths
<1>1. p \in SavePaths => p # <<>> /\ Head(p) = "save"
  BY SavePathFacts
<1>2. p \in NumberedPaths => p # <<>> /\ Head(p) = "numbered"
  BY NumberedPathFacts
<1>3. p \in LatePaths => p # <<>> /\ Head(p) \notin {"save", "numbered"}
  BY LatePathFacts
<1> QED BY <1>1, <1>2, <1>3 DEF Paths

LEMMA PathsTyped == Paths \subseteq UNION {[1..n -> Steps] : n \in 1..4}
<1> QED BY DEF Paths, SavePaths, LatePaths, NumberedPaths, Steps

-----------------------------------------------------------------------------
(* What is stored, and what it is made of *)

LEMMA UserIsBody == User \subseteq Body
<1> QED BY DEF User, Body

\* setUser() completes a document.
LEMMA CompleteTyped ==
    ASSUME NEW d \in User \union {None}, NEW b \in Body, ~Fails(d, b)
    PROVE  Complete(d, b) \in User /\ Complete(d, b).number = b.number
<1>1. CASE d = None
  <2>1. b.approved \in BOOLEAN /\ Kept(b.verified, FALSE) \in BOOLEAN
    BY <1>1 DEF Fails, Kept, Body
  <2>2. Complete(d, b) = [b EXCEPT !.verified = Kept(b.verified, FALSE)]
    BY <1>1 DEF Complete
  <2> QED BY <2>1, <2>2 DEF Body, User
<1>2. CASE d # None
  <2>1. d \in User
    BY <1>2
  <2> DEFINE email == Kept(b.email, d.email)
             password == Kept(b.password, d.password)
             verified == Kept(b.verified, d.verified)
             approved == Kept(b.approved, d.approved)
             bought == b.bought \/ d.bought
  <2>2. /\ email \in Emails \union {Erased, None} /\ password \in Passwords \union {Erased, None}
        /\ verified \in BOOLEAN /\ approved \in BOOLEAN /\ bought \in BOOLEAN
    BY <2>1 DEF Kept, User, Body
  <2>3. Complete(d, b) = [b EXCEPT !.email = email, !.password = password, !.verified = verified,
                                   !.approved = approved, !.bought = bought]
    BY <1>2 DEF Complete, Stored
  <2> HIDE DEF email, password, verified, approved, bought
  <2> QED BY <2>2, <2>3 DEF Body, User
<1> QED BY <1>1, <1>2

\* Field by field, what is stored over a document.
LEMMA StoredFields ==
    ASSUME NEW d \in User, NEW b \in Body
    PROVE  /\ Stored(d, b)["email"] = Kept(b.email, d.email)
           /\ Stored(d, b)["password"] = Kept(b.password, d.password)
           /\ Stored(d, b)["verified"] = Kept(b.verified, d.verified)
           /\ Stored(d, b)["approved"] = Kept(b.approved, d.approved)
           /\ Stored(d, b)["roles"] = b.roles
           /\ Stored(d, b)["manage"] = b.manage
           /\ Stored(d, b)["bought"] = (b.bought \/ d.bought)
           /\ Stored(d, b)["deleted"] = b.deleted
           /\ Stored(d, b)["number"] = b.number
<1> QED BY DEF Stored, User, Body

\* What is faithful to a document, field by field.
LEMMA FaithfulFields ==
    ASSUME NEW op, NEW d \in User, NEW b \in Body,
           "email" \notin Own(op, b) => b.email \in {None, d.email},
           "password" \notin Own(op, b) => b.password \in {None, d.password},
           "verified" \notin Own(op, b) => b.verified \in {None, d.verified},
           "approved" \notin Own(op, b) => b.approved \in {None, d.approved},
           "roles" \notin Own(op, b) => b.roles = d.roles,
           "manage" \notin Own(op, b) => b.manage = d.manage,
           "bought" \notin Own(op, b) => b.bought \in {FALSE, d.bought},
           "deleted" \notin Own(op, b) => b.deleted = d.deleted,
           "number" \notin Own(op, b) => b.number = d.number
    PROVE  Faithful(op, d, b)
<1>1. SUFFICES ASSUME NEW f \in Fields \ Own(op, b) PROVE Stored(d, b)[f] = d[f]
  BY DEF Faithful
<1>2. d.bought \in BOOLEAN
  BY DEF User
<1>3. CASE f \in {"email", "password", "verified", "approved"}
  <2>1. \A new, was : new \in {None, was} => Kept(new, was) = was
    BY DEF Kept
  <2> QED BY <1>1, <1>3, <2>1, StoredFields
<1>4. CASE f \in {"roles", "manage", "deleted", "number"}
  BY <1>1, <1>4, StoredFields
<1>5. CASE f = "bought"
  <2>1. b.bought \in {FALSE, d.bought} /\ b.bought \in BOOLEAN
    BY <1>1, <1>5 DEF Body
  <2>2. (b.bought \/ d.bought) = d.bought
    BY <1>2, <2>1
  <2> QED BY <1>5, <2>2, StoredFields
<1> QED BY <1>1, <1>3, <1>4, <1>5 DEF Fields

LEMMA OwnFields ==
    ASSUME NEW b
    PROVE  /\ Own("login", b) = {"roles"} /\ Own("register", b) = {"roles"}
           /\ Own("password", b) = {"password"} /\ Own("verify", b) = {"verified"}
           /\ Own("approve", b) = {"approved", "roles"} /\ Own("manage", b) = {"manage"}
           /\ Own("delete", b) = {"deleted", "email", "password"}
           /\ Own("update", b) = Carried(b) \union {"roles", "manage", "deleted", "number"}
<1> QED BY DEF Own

\* A handler that may change it was given a number, and changes nothing else by it.
LEMMA NumberedFaithful ==
    ASSUME NEW op, NEW d \in User, NEW b \in Body, NEW n \in Nat, d.number # 0, b.number = 0,
           Faithful(op, d, b)
    PROVE  Faithful(op, d, [b EXCEPT !.number = n])
<1> DEFINE c == [b EXCEPT !.number = n]
<1>1. c \in Body
  BY DEF Body
<1>2. "number" \in Own(op, b) /\ Own(op, c) = Own(op, b)
  <2>1. "number" \in Own(op, b)
    BY StoredFields DEF Faithful, Fields
  <2>2. \A f \in {"email", "password", "verified", "approved", "bought"} : c[f] = b[f]
    BY DEF Body
  <2>3. Carried(c) = Carried(b)
    BY <2>2 DEF Carried
  <2> QED BY <2>1, <2>3 DEF Own
<1>3. \A f \in Fields \ {"number"} : Stored(d, c)[f] = Stored(d, b)[f]
  BY <1>1, StoredFields DEF Fields, Body
<1> QED BY <1>2, <1>3 DEF Faithful

\* What the handlers make of a document.
LEMMA BodiesFaithful ==
    ASSUME NEW d \in User
    PROVE  /\ \A role \in USER_ROLES : /\ With(Anonymous(d), role) \in Body
                                       /\ Faithful("login", d, With(Anonymous(d), role))
                                       /\ With(d, role) \in Body
                                       /\ Faithful("register", d, With(d, role))
           /\ \A p \in Passwords : /\ [d EXCEPT !.password = p] \in Body
                                   /\ Faithful("password", d, [d EXCEPT !.password = p])
           /\ \A v \in BOOLEAN : /\ [d EXCEPT !.verified = v] \in Body
                                 /\ Faithful("verify", d, [d EXCEPT !.verified = v])
           /\ [With(d, "admin") EXCEPT !.approved = TRUE] \in Body
           /\ Faithful("approve", d, [With(d, "admin") EXCEPT !.approved = TRUE])
           /\ \A m \in BOOLEAN : /\ [d EXCEPT !.manage = m] \in Body
                                 /\ Faithful("manage", d, [d EXCEPT !.manage = m])
           /\ \A e \in Emails : [d EXCEPT !.email = e] \in Body
           /\ \A b \in Body : Faithful("update", d, b)
           /\ Anonymized(d) \in Body
           /\ Faithful("delete", d, Anonymized(d))
<1> USE UsersAssumption
<1>1. ASSUME NEW role \in USER_ROLES
      PROVE  /\ With(Anonymous(d), role) \in Body
             /\ Faithful("login", d, With(Anonymous(d), role))
  <2>1. With(Anonymous(d), role) \in Body
    BY DEF With, Anonymous, User, Body
  <2> QED BY <2>1, FaithfulFields, OwnFields DEF With, Anonymous, User
<1>2. ASSUME NEW role \in USER_ROLES
      PROVE  /\ With(d, role) \in Body
             /\ Faithful("register", d, With(d, role))
  <2>1. With(d, role) \in Body
    BY DEF With, User, Body
  <2> QED BY <2>1, FaithfulFields, OwnFields DEF With, User
<1>3. ASSUME NEW p \in Passwords
      PROVE  /\ [d EXCEPT !.password = p] \in Body
             /\ Faithful("password", d, [d EXCEPT !.password = p])
  <2>1. [d EXCEPT !.password = p] \in Body
    BY DEF User, Body
  <2> QED BY <2>1, FaithfulFields, OwnFields DEF User
<1>4. ASSUME NEW v \in BOOLEAN
      PROVE  /\ [d EXCEPT !.verified = v] \in Body
             /\ Faithful("verify", d, [d EXCEPT !.verified = v])
  <2>1. [d EXCEPT !.verified = v] \in Body
    BY DEF User, Body
  <2> QED BY <2>1, FaithfulFields, OwnFields DEF User
<1>5. /\ [With(d, "admin") EXCEPT !.approved = TRUE] \in Body
      /\ Faithful("approve", d, [With(d, "admin") EXCEPT !.approved = TRUE])
  <2>1. [With(d, "admin") EXCEPT !.approved = TRUE] \in Body
    BY DEF With, User, Body, USER_ROLES
  <2> QED BY <2>1, FaithfulFields, OwnFields DEF With, User
<1>6. ASSUME NEW m \in BOOLEAN
      PROVE  /\ [d EXCEPT !.manage = m] \in Body
             /\ Faithful("manage", d, [d EXCEPT !.manage = m])
  <2>1. [d EXCEPT !.manage = m] \in Body
    BY DEF User, Body
  <2> QED BY <2>1, FaithfulFields, OwnFields DEF User
<1>7. /\ \A e \in Emails : [d EXCEPT !.email = e] \in Body
      /\ \A b \in Body : Faithful("update", d, b)
  <2>1. \A e \in Emails : [d EXCEPT !.email = e] \in Body
    BY DEF User, Body
  <2>2. ASSUME NEW b \in Body PROVE Faithful("update", d, b)
    <3>1. /\ "email" \notin Carried(b) => b.email = None
          /\ "password" \notin Carried(b) => b.password = None
          /\ "verified" \notin Carried(b) => b.verified = None
          /\ "approved" \notin Carried(b) => b.approved = None
          /\ "bought" \notin Carried(b) => b.bought = FALSE
      BY DEF Carried, Body
    <3> QED BY <3>1, FaithfulFields, OwnFields
  <2> QED BY <2>1, <2>2
<1>8. /\ Anonymized(d) \in Body
      /\ Faithful("delete", d, Anonymized(d))
  <2>1. Anonymized(d) \in Body
    BY DEF Anonymized, User, Body
  <2> QED BY <2>1, FaithfulFields, OwnFields DEF Anonymized, User
<1> QED BY <1>1, <1>2, <1>3, <1>4, <1>5, <1>6, <1>7, <1>8

-----------------------------------------------------------------------------
(* A request that is taken in *)

Extras == [key : Keys \union {None}, role : USER_ROLES \union {None}, device : Devices \union {None}]

\* What a handler takes in for document d: a body that is made of it, for a new user any, and the
\* steps that follow.
Fit(op, d, b, steps, more) ==
    /\ op \in Ops /\ b \in Body /\ steps \in SavePaths \union LatePaths /\ more \in Extras
    /\ Signs(steps) => more.role \in USER_ROLES /\ more.device \in Devices
    /\ d # None /\ Saves(steps) => Faithful(op, d, b)

Handles(r) ==
    \E op \in Ops, u \in Ids : \E b, steps, more :
        Takes(r, op, u, b, steps, more) /\ Fit(op, docs[u], b, steps, more)

LEMMA ExtrasTyped ==
    /\ NoMore \in Extras
    /\ \A role \in USER_ROLES, device \in Devices :
        [NoMore EXCEPT !.role = role, !.device = device] \in Extras
    /\ \A k \in Keys : [NoMore EXCEPT !.key = k] \in Extras
<1> QED BY DEF NoMore, Extras

LEMMA HandlerPaths ==
    /\ <<"save">> \in SavePaths /\ ~Signs(<<"save">>)
    /\ <<"save", "sign">> \in SavePaths /\ <<"save", "spend">> \in SavePaths
    /\ ~Signs(<<"save", "spend">>)
    /\ <<"save", "spend", "sign">> \in SavePaths
    /\ <<"sign">> \in LatePaths
    /\ Saves(<<"save">>)
<1> QED BY DEF SavePaths, LatePaths, Signs, Saves

LEMMA HoldersThere ==
    ASSUME TypeOK, NEW e, NEW u \in Holders(e)
    PROVE  u \in Ids /\ docs[u] \in User /\ docs[u] # None
<1> QED BY DEF TypeOK, Holders, Live, There

LEMMA ThereTyped ==
    ASSUME TypeOK, NEW u \in There
    PROVE  u \in Ids /\ docs[u] \in User /\ docs[u] # None
<1> QED BY DEF TypeOK, There

\* Every handler, but the one that signs out, takes in what fits the document it has read.
LEMMA SignInFits ==
    ASSUME TypeOK, NEW r \in Requests, Login(r) \/ Register(r) \/ RegisterAgain(r)
    PROVE  Handles(r)
<1>1. CASE Login(r)
  <2>1. PICK e \in Emails, p \in Passwords, role \in USER_ROLES, device \in Devices :
            \E u \in Holders(e) :
                Takes(r, "login", u, With(Anonymous(docs[u]), role),
                      (IF role \in docs[u].roles THEN <<>> ELSE <<"save">>) \o <<"sign">>,
                      [NoMore EXCEPT !.role = role, !.device = device])
    BY <1>1 DEF Login
  <2>2. PICK u \in Holders(e) :
            Takes(r, "login", u, With(Anonymous(docs[u]), role),
                  (IF role \in docs[u].roles THEN <<>> ELSE <<"save">>) \o <<"sign">>,
                  [NoMore EXCEPT !.role = role, !.device = device])
    BY <2>1
  <2> DEFINE b == With(Anonymous(docs[u]), role)
             steps == (IF role \in docs[u].roles THEN <<>> ELSE <<"save">>) \o <<"sign">>
             more == [NoMore EXCEPT !.role = role, !.device = device]
  <2>3. u \in Ids /\ docs[u] \in User /\ docs[u] # None
    BY HoldersThere
  <2>4. b \in Body /\ Faithful("login", docs[u], b)
    BY <2>3, BodiesFaithful DEF With, Anonymous, User
  <2>5. steps = <<"sign">> \/ steps = <<"save", "sign">>
    BY PrependedToNothing, PrependedToOne
  <2>6. steps \in SavePaths \union LatePaths
    BY <2>5, HandlerPaths
  <2>7. more \in Extras /\ more.role \in USER_ROLES /\ more.device \in Devices
    BY ExtrasTyped DEF NoMore
  <2> HIDE DEF b, steps, more
  <2>8. Fit("login", docs[u], b, steps, more)
    BY <2>3, <2>4, <2>6, <2>7 DEF Fit, Ops
  <2>9. Takes(r, "login", u, b, steps, more)
    BY <2>2 DEF b, steps, more
  <2> QED BY <2>3, <2>8, <2>9 DEF Handles, Ops
<1>2. CASE Register(r)
  <2>1. PICK e \in Emails, p \in Passwords, role \in USER_ROLES, u \in Ids :
            /\ Fresh(u)
            /\ Takes(r, "register", u, NewUser(e, p, role), <<"save">>, NoMore)
    BY <1>2 DEF Register
  <2> DEFINE b == NewUser(e, p, role)
  <2>2. b \in Body
    BY DEF NewUser, EmptyBody, Body
  <2>3. docs[u] = None
    BY <2>1 DEF Fresh
  <2> HIDE DEF b
  <2>4. Fit("register", docs[u], b, <<"save">>, NoMore)
    BY <2>2, <2>3, HandlerPaths, ExtrasTyped DEF Fit, Ops
  <2>5. Takes(r, "register", u, b, <<"save">>, NoMore)
    BY <2>1 DEF b
  <2> QED BY <2>4, <2>5 DEF Handles, Ops
<1>3. CASE RegisterAgain(r)
  <2>1. PICK e \in Emails, p \in Passwords, role \in USER_ROLES, device \in Devices :
            \E u \in Holders(e) :
                LET steps == (IF role \in docs[u].roles THEN <<>> ELSE <<"save">>)
                                 \o (IF MaySignIn(docs[u], role) THEN <<"sign">> ELSE <<>>)
                IN  /\ steps # <<>>
                    /\ Takes(r, "register", u, With(docs[u], role), steps,
                             [NoMore EXCEPT !.role = role, !.device = device])
    BY <1>3 DEF RegisterAgain
  <2>2. PICK u \in Holders(e) :
            LET steps == (IF role \in docs[u].roles THEN <<>> ELSE <<"save">>)
                             \o (IF MaySignIn(docs[u], role) THEN <<"sign">> ELSE <<>>)
            IN  /\ steps # <<>>
                /\ Takes(r, "register", u, With(docs[u], role), steps,
                         [NoMore EXCEPT !.role = role, !.device = device])
    BY <2>1
  <2> DEFINE b == With(docs[u], role)
             steps == (IF role \in docs[u].roles THEN <<>> ELSE <<"save">>)
                          \o (IF MaySignIn(docs[u], role) THEN <<"sign">> ELSE <<>>)
             more == [NoMore EXCEPT !.role = role, !.device = device]
  <2>3. u \in Ids /\ docs[u] \in User /\ docs[u] # None
    BY HoldersThere
  <2>4. b \in Body /\ Faithful("register", docs[u], b)
    BY <2>3, BodiesFaithful DEF With, User
  <2>5. steps # <<>>
    BY <2>2
  <2>6. steps \in {<<"sign">>, <<"save", "sign">>, <<"save">>}
    BY <2>5, PrependedToNothing, PrependedToOne
  <2>7. steps \in SavePaths \union LatePaths
    BY <2>6, HandlerPaths
  <2>8. more \in Extras /\ more.role \in USER_ROLES /\ more.device \in Devices
    BY ExtrasTyped DEF NoMore
  <2>9. Takes(r, "register", u, b, steps, more)
    BY <2>2
  <2> HIDE DEF b, steps, more
  <2>10. Fit("register", docs[u], b, steps, more)
    BY <2>3, <2>4, <2>7, <2>8 DEF Fit, Ops
  <2> QED BY <2>3, <2>9, <2>10 DEF Handles, Ops
<1> QED BY <1>1, <1>2, <1>3

\* A handler that stores a faithful body of a document that is there, then does the rest.
LEMMA FaithfulHandles ==
    ASSUME TypeOK, NEW r, NEW op \in Ops, NEW u \in Ids, NEW b, NEW steps, NEW more,
           docs[u] # None, Takes(r, op, u, b, steps, more),
           b \in Body, Faithful(op, docs[u], b),
           steps \in SavePaths \union LatePaths, more \in Extras,
           Signs(steps) => more.role \in USER_ROLES /\ more.device \in Devices
    PROVE  Handles(r)
<1>1. Fit(op, docs[u], b, steps, more)
  BY DEF Fit
<1> QED BY <1>1 DEF Handles

LEMMA VerificationFits ==
    ASSUME TypeOK, NEW r \in Requests, Verification(r) \/ PasswordRequest(r)
    PROVE  Handles(r)
<1>1. CASE RemoveEmailVerification(r)
  <2>1. PICK u \in There :
            Takes(r, "verify", u, [docs[u] EXCEPT !.verified = FALSE], <<"save">>, NoMore)
    BY <1>1 DEF RemoveEmailVerification
  <2> DEFINE b == [docs[u] EXCEPT !.verified = FALSE]
  <2>2. u \in Ids /\ docs[u] \in User /\ docs[u] # None
    BY ThereTyped
  <2>3. b \in Body /\ Faithful("verify", docs[u], b)
    BY <2>2, BodiesFaithful DEF User
  <2> HIDE DEF b
  <2>4. Takes(r, "verify", u, b, <<"save">>, NoMore)
    BY <2>1 DEF b
  <2> QED BY <2>2, <2>3, <2>4, HandlerPaths, ExtrasTyped, FaithfulHandles DEF Ops
<1>2. CASE EmailVerified(r)
  <2>1. PICK e \in Emails, role \in USER_ROLES, device \in Devices : \E u \in Holders(e) :
            Takes(r, "verify", u, [docs[u] EXCEPT !.verified = TRUE], <<"save", "spend", "sign">>,
                  [key |-> <<"email", e>>, role |-> role, device |-> device])
    BY <1>2 DEF EmailVerified
  <2>2. PICK u \in Holders(e) :
            Takes(r, "verify", u, [docs[u] EXCEPT !.verified = TRUE], <<"save", "spend", "sign">>,
                  [key |-> <<"email", e>>, role |-> role, device |-> device])
    BY <2>1
  <2> DEFINE b == [docs[u] EXCEPT !.verified = TRUE]
             more == [key |-> <<"email", e>>, role |-> role, device |-> device]
  <2>3. u \in Ids /\ docs[u] \in User /\ docs[u] # None
    BY HoldersThere
  <2>4. b \in Body /\ Faithful("verify", docs[u], b)
    BY <2>3, BodiesFaithful DEF User
  <2>5. more \in Extras /\ more.role \in USER_ROLES /\ more.device \in Devices
    BY DEF Extras, Keys
  <2> HIDE DEF b, more
  <2>6. Takes(r, "verify", u, b, <<"save", "spend", "sign">>, more)
    BY <2>2 DEF b, more
  <2> QED BY <2>3, <2>4, <2>5, <2>6, HandlerPaths, FaithfulHandles DEF Ops
<1>3. CASE ChangePassword(r)
  <2>1. PICK u \in There, new \in Passwords :
            Takes(r, "password", u, [docs[u] EXCEPT !.password = new], <<"save">>, NoMore)
    BY <1>3 DEF ChangePassword
  <2> DEFINE b == [docs[u] EXCEPT !.password = new]
  <2>2. u \in Ids /\ docs[u] \in User /\ docs[u] # None
    BY ThereTyped
  <2>3. b \in Body /\ Faithful("password", docs[u], b)
    BY <2>2, BodiesFaithful DEF User
  <2> HIDE DEF b
  <2>4. Takes(r, "password", u, b, <<"save">>, NoMore)
    BY <2>1 DEF b
  <2> QED BY <2>2, <2>3, <2>4, HandlerPaths, ExtrasTyped, FaithfulHandles DEF Ops
<1>4. CASE RestorePassword(r)
  <2>1. PICK e \in Emails, new \in Passwords : \E u \in Holders(e) :
            Takes(r, "password", u, [docs[u] EXCEPT !.password = new], <<"save", "spend">>,
                  [NoMore EXCEPT !.key = <<"password", e>>])
    BY <1>4 DEF RestorePassword
  <2>2. PICK u \in Holders(e) :
            Takes(r, "password", u, [docs[u] EXCEPT !.password = new], <<"save", "spend">>,
                  [NoMore EXCEPT !.key = <<"password", e>>])
    BY <2>1
  <2> DEFINE b == [docs[u] EXCEPT !.password = new]
             more == [NoMore EXCEPT !.key = <<"password", e>>]
  <2>3. u \in Ids /\ docs[u] \in User /\ docs[u] # None
    BY HoldersThere
  <2>4. b \in Body /\ Faithful("password", docs[u], b)
    BY <2>3, BodiesFaithful DEF User
  <2>5. more \in Extras
    <3>1. <<"password", e>> \in Keys
      BY DEF Keys
    <3> QED BY <3>1, ExtrasTyped
  <2> HIDE DEF b, more
  <2>6. Takes(r, "password", u, b, <<"save", "spend">>, more)
    BY <2>2 DEF b, more
  <2> QED BY <2>3, <2>4, <2>5, <2>6, HandlerPaths, FaithfulHandles DEF Ops
<1> QED BY <1>1, <1>2, <1>3, <1>4 DEF Verification, PasswordRequest

LEMMA OfficeFits ==
    ASSUME TypeOK, NEW r \in Requests, Approval(r) \/ AllowUserManageOrders(r)
    PROVE  Handles(r)
<1>1. CASE AdminApproved(r)
  <2>1. PICK e \in Emails, device \in Devices : \E u \in Holders(e) :
            Takes(r, "approve", u, [With(docs[u], "admin") EXCEPT !.approved = TRUE],
                  <<"save", "sign">>, [NoMore EXCEPT !.role = "admin", !.device = device])
    BY <1>1 DEF AdminApproved
  <2>2. PICK u \in Holders(e) :
            Takes(r, "approve", u, [With(docs[u], "admin") EXCEPT !.approved = TRUE],
                  <<"save", "sign">>, [NoMore EXCEPT !.role = "admin", !.device = device])
    BY <2>1
  <2> DEFINE b == [With(docs[u], "admin") EXCEPT !.approved = TRUE]
             more == [NoMore EXCEPT !.role = "admin", !.device = device]
  <2>3. u \in Ids /\ docs[u] \in User /\ docs[u] # None
    BY HoldersThere
  <2>4. b \in Body /\ Faithful("approve", docs[u], b)
    BY <2>3, BodiesFaithful DEF User, With
  <2>5. more \in Extras /\ more.role \in USER_ROLES /\ more.device \in Devices
    BY ExtrasTyped DEF NoMore, USER_ROLES
  <2> HIDE DEF b, more
  <2>6. Takes(r, "approve", u, b, <<"save", "sign">>, more)
    BY <2>2 DEF b, more
  <2> QED BY <2>3, <2>4, <2>5, <2>6, HandlerPaths, FaithfulHandles DEF Ops
<1>2. CASE ManageOrdersApproved(r)
  <2>1. PICK e \in Emails : \E u \in Holders(e) :
            Takes(r, "manage", u, [docs[u] EXCEPT !.manage = ~@], <<"save">>, NoMore)
    BY <1>2 DEF ManageOrdersApproved
  <2>2. PICK u \in Holders(e) :
            Takes(r, "manage", u, [docs[u] EXCEPT !.manage = ~@], <<"save">>, NoMore)
    BY <2>1
  <2> DEFINE m == ~docs[u].manage
             b == [docs[u] EXCEPT !.manage = m]
  <2>3. u \in Ids /\ docs[u] \in User /\ docs[u] # None
    BY HoldersThere
  <2>4. m \in BOOLEAN
    OBVIOUS
  <2>5. b \in Body /\ Faithful("manage", docs[u], b)
    BY <2>3, <2>4, BodiesFaithful DEF User
  <2>6. Takes(r, "manage", u, b, <<"save">>, NoMore)
    BY <2>2
  <2> HIDE DEF b, m
  <2> QED BY <2>3, <2>5, <2>6, HandlerPaths, ExtrasTyped, FaithfulHandles DEF Ops
<1>3. CASE AllowUserManageOrders(r)
  <2>1. PICK e \in Emails : \E u \in Holders(e) :
            Takes(r, "manage", u, Allowed(docs[u]), <<"save">>, NoMore)
    BY <1>3 DEF AllowUserManageOrders
  <2>2. PICK u \in Holders(e) : Takes(r, "manage", u, Allowed(docs[u]), <<"save">>, NoMore)
    BY <2>1
  <2> DEFINE b == [docs[u] EXCEPT !.manage = TRUE]
  <2>3. u \in Ids /\ docs[u] \in User /\ docs[u] # None
    BY HoldersThere
  <2>4. b \in Body /\ Faithful("manage", docs[u], b)
    BY <2>3, BodiesFaithful DEF User
  <2>5. Takes(r, "manage", u, b, <<"save">>, NoMore)
    BY <2>2 DEF Allowed
  <2> HIDE DEF b
  <2> QED BY <2>3, <2>4, <2>5, HandlerPaths, ExtrasTyped, FaithfulHandles DEF Ops
<1> QED BY <1>1, <1>2, <1>3 DEF Approval

LEMMA UserRequestFits ==
    ASSUME TypeOK, NEW r \in Requests, UserRequest(r)
    PROVE  Handles(r)
<1>1. CASE UpdateUser(r)
  <2>1. PICK u \in Ids : \E b \in UserBodies \union Edited(u) :
            Takes(r, "update", u, b, <<"save">>, NoMore)
    BY <1>1 DEF UpdateUser
  <2>2. PICK b \in UserBodies \union Edited(u) : Takes(r, "update", u, b, <<"save">>, NoMore)
    BY <2>1
  <2>3. docs[u] \in User \union {None}
    BY DEF TypeOK
  <2>4. b \in Body
    BY <2>2, <2>3, BodyAssumption, BodiesFaithful DEF Edited
  <2>5. docs[u] # None => Faithful("update", docs[u], b)
    BY <2>3, <2>4, BodiesFaithful
  <2>6. Fit("update", docs[u], b, <<"save">>, NoMore)
    BY <2>4, <2>5, HandlerPaths, ExtrasTyped DEF Fit, Ops
  <2> QED BY <2>2, <2>6 DEF Handles, Ops
<1>2. CASE AddNewUser(r)
  <2>1. PICK u \in Ids, b \in UserBodies :
            Fresh(u) /\ Takes(r, "add", u, b, <<"save">>, NoMore)
    BY <1>2 DEF AddNewUser
  <2>2. Fit("add", docs[u], b, <<"save">>, NoMore)
    BY <2>1, BodyAssumption, HandlerPaths, ExtrasTyped DEF Fresh, Fit, Ops
  <2> QED BY <2>1, <2>2 DEF Handles, Ops
<1>3. CASE DeleteUser(r)
  <2>1. PICK u \in There :
            Takes(r, "delete", u, Anonymized(docs[u]), <<"save", "spend">>,
                  [NoMore EXCEPT !.key = <<"delete", u>>])
    BY <1>3 DEF DeleteUser
  <2> DEFINE b == Anonymized(docs[u])
             more == [NoMore EXCEPT !.key = <<"delete", u>>]
  <2>2. u \in Ids /\ docs[u] \in User /\ docs[u] # None
    BY ThereTyped
  <2>3. b \in Body /\ Faithful("delete", docs[u], b)
    BY <2>2, BodiesFaithful DEF User, Anonymized
  <2>4. more \in Extras
    <3>1. <<"delete", u>> \in Keys
      BY <2>2 DEF Keys
    <3> QED BY <3>1, ExtrasTyped
  <2> HIDE DEF b, more
  <2>5. Takes(r, "delete", u, b, <<"save", "spend">>, more)
    BY <2>1 DEF b, more
  <2> QED BY <2>2, <2>3, <2>4, <2>5, HandlerPaths, FaithfulHandles DEF Ops
<1> QED BY <1>1, <1>2, <1>3 DEF UserRequest

-----------------------------------------------------------------------------
(* Every document is complete, every request has a way to go *)

LEMMA WorkKept ==
    ASSUME WorkInv, NEW r \in Requests, NEW q, q = None \/ Good(q),
           req' = [req EXCEPT ![r] = q], \A u \in Ids : docs'[u] # None => docs'[u].number # 0
    PROVE  WorkInv'
<1>1. q \in Work \union {None}
  BY DEF Good
<1>2. req' \in [Requests -> Work \union {None}]
  BY <1>1 DEF WorkInv
<1>3. \A p \in Requests : Idle(p)' \/ Good(req'[p])
  BY DEF WorkInv, Idle
<1>4. \A u \in There' : docs'[u].number # 0
  BY DEF There
<1> QED BY <1>2, <1>3, <1>4 DEF WorkInv

\* Where only documents move.
LEMMA WorkUntouched ==
    ASSUME WorkInv, UNCHANGED req, \A u \in Ids : docs'[u] # None => docs'[u].number # 0
    PROVE  WorkInv'
<1> QED BY DEF WorkInv, Idle, There

LEMMA NumbersThere ==
    ASSUME WorkInv
    PROVE  \A u \in Ids : docs[u] # None => docs[u].number # 0
<1> QED BY DEF WorkInv, There

\* There are no more requests that will sign than there are requests.
LEMMA Fewer ==
    ASSUME NEW S \in SUBSET Requests, NEW T \in SUBSET S
    PROVE  Cardinality(S) \in Nat /\ Cardinality(T) \in Nat /\ Cardinality(T) <= Cardinality(S)
<1>1. IsFiniteSet(S)
  BY UsersAssumption, FS_Subset
<1>2. IsFiniteSet(T) /\ Cardinality(T) <= Cardinality(S)
  BY <1>1, FS_Subset
<1> QED BY <1>1, <1>2, FS_CardinalityType

LEMMA OneMore ==
    ASSUME NEW S \in SUBSET Requests, NEW r \in Requests, NEW T \in SUBSET (S \union {r})
    PROVE  /\ Cardinality(S) \in Nat /\ Cardinality(T) \in Nat
           /\ Cardinality(T) <= Cardinality(S) + 1
<1>1. IsFiniteSet(S)
  BY UsersAssumption, FS_Subset
<1>2. IsFiniteSet(S \union {r}) /\ Cardinality(S \union {r}) <= Cardinality(S) + 1
  <2>1. IsFiniteSet(S \union {r}) /\ Cardinality(S) \in Nat
    BY <1>1, FS_AddElement, FS_CardinalityType
  <2>2. \/ Cardinality(S \union {r}) = Cardinality(S)
        \/ Cardinality(S \union {r}) = Cardinality(S) + 1
    BY <1>1, FS_AddElement
  <2> QED BY <2>1, <2>2
<1>3. IsFiniteSet(T) /\ Cardinality(T) <= Cardinality(S \union {r})
  BY <1>2, FS_Subset
<1> QED BY <1>1, <1>2, <1>3, FS_CardinalityType

LEMMA OneLess ==
    ASSUME NEW S \in SUBSET Requests, NEW r \in S, NEW T \in SUBSET (S \ {r})
    PROVE  /\ Cardinality(S) \in Nat /\ Cardinality(T) \in Nat
           /\ Cardinality(T) + 1 <= Cardinality(S)
<1>1. IsFiniteSet(S)
  BY UsersAssumption, FS_Subset
<1>2. IsFiniteSet(S \ {r}) /\ Cardinality(S \ {r}) = Cardinality(S) - 1
  BY <1>1, FS_RemoveElement
<1>3. IsFiniteSet(T) /\ Cardinality(T) <= Cardinality(S \ {r})
  BY <1>2, FS_Subset
<1> QED BY <1>1, <1>2, <1>3, FS_CardinalityType

LEMMA CountKept ==
    ASSUME TypeOK, CountInv, left' \in Nat, signed' \in Nat, left' + signed' <= left + signed,
           Signing' \subseteq Signing
    PROVE  CountInv' /\ left' \in 0..MaxInputs /\ signed' \in 0..MaxInputs
<1>1. Signing \in SUBSET Requests /\ Signing' \in SUBSET Signing
  BY DEF Signing
<1>2. /\ Cardinality(Signing) \in Nat /\ Cardinality(Signing') \in Nat
      /\ Cardinality(Signing') <= Cardinality(Signing)
  BY <1>1, Fewer
<1>3. left \in Nat /\ signed \in Nat /\ MaxInputs \in Nat
  BY UsersAssumption DEF TypeOK
<1>4. left' + signed' + Cardinality(Signing') <= MaxInputs
  <2>1. left + signed + Cardinality(Signing) <= MaxInputs
    BY DEF CountInv
  <2>2. \A l, s, c, ll, ss, cc, m \in Nat :
            l + s <= ll + ss /\ c <= cc /\ ll + ss + cc <= m => l + s + c <= m
    OBVIOUS
  <2> QED BY <1>2, <1>3, <2>1, <2>2
<1>5. left' <= MaxInputs /\ signed' <= MaxInputs
  BY <1>2, <1>3, <1>4
<1> QED BY <1>3, <1>4, <1>5 DEF CountInv

\* A request that moves along signs only if it did before.
LEMMA SigningKept ==
    ASSUME WorkInv, NEW r \in Requests, ~Idle(r), NEW q,
           q # None => (Signs(q.steps) => Signs(req[r].steps)), req' = [req EXCEPT ![r] = q]
    PROVE  Signing' \subseteq Signing
<1>1. req'[r] = q /\ \A p \in Requests : p # r => req'[p] = req[p]
  BY DEF WorkInv
<1>2. ASSUME NEW p \in Signing' PROVE p \in Signing
  <2>1. p \in Requests /\ req'[p] # None /\ Signs(req'[p].steps)
    BY <1>2 DEF Signing, Idle
  <2>2. CASE p = r
    BY <1>1, <2>1, <2>2 DEF Signing
  <2>3. CASE p # r
    BY <1>1, <2>1, <2>3 DEF Signing, Idle
  <2> QED BY <2>2, <2>3
<1> QED BY <1>2

\* A request that has stored its document, or has none to store, may go on in any state.
LEMMA OnwardGood ==
    ASSUME NEW q \in Work, q.steps \in SavePaths \union LatePaths, CanSign(q)
    PROVE  \/ Onward(q) = None
           \/ /\ Good(Onward(q))
              /\ Onward(q).steps \in LatePaths
              /\ Signs(Onward(q).steps) => Signs(q.steps)
              /\ Onward(q).body = q.body /\ Onward(q).id = q.id
<1> SUFFICES ASSUME Len(q.steps) # 1
             PROVE  /\ Good(Onward(q))
                    /\ Onward(q).steps \in LatePaths
                    /\ Signs(Onward(q).steps) => Signs(q.steps)
                    /\ Onward(q).body = q.body /\ Onward(q).id = q.id
  BY DEF Onward
<1> DEFINE rest == Tail(q.steps)
           next == [q EXCEPT !.steps = rest, !.base = None]
<1>1. rest \in LatePaths /\ (Signs(rest) <=> Signs(q.steps))
  BY SavePathFacts, LatePathFacts
<1>2. rest \in UNION {[1..n -> Steps] : n \in 1..4}
  BY <1>1, PathsTyped DEF Paths
<1>3. Onward(q) = next
  BY DEF Onward
<1> HIDE DEF rest
<1>4. /\ next \in Work /\ next.steps = rest /\ next.body = q.body /\ next.id = q.id
      /\ next.role = q.role /\ next.device = q.device /\ next.base = None
  BY <1>2 DEF Work
<1> HIDE DEF next
<1>5. ~Saves(rest) /\ rest \in Paths /\ rest \notin NumberedPaths
  BY <1>1, PathFacts DEF Saves, Paths
<1>6. CanSign(next)
  BY <1>1, <1>4 DEF CanSign
<1>7. Good(next)
  BY <1>4, <1>5, <1>6 DEF Good
<1> QED BY <1>1, <1>3, <1>4, <1>7

\* A request has a step before it, and what it has in hand is good.
LEMMA AskedGood ==
    ASSUME WorkInv, NEW r \in Requests, NEW step, Asked(r, step)
    PROVE  /\ ~Idle(r) /\ Good(req[r]) /\ req[r] \in Work /\ req[r].id \in Ids
           /\ req[r].steps \in Paths /\ CanSign(req[r])
           /\ Head(req[r].steps) = step
           /\ step = "save" => req[r].steps \in SavePaths
           /\ step = "numbered" => req[r].steps \in NumberedPaths
           /\ step \notin {"save", "numbered"} => req[r].steps \in LatePaths
<1>1. ~Idle(r) /\ Head(req[r].steps) = step
  BY DEF Asked
<1>2. Good(req[r])
  BY <1>1 DEF WorkInv
<1>3. req[r] \in Work /\ req[r].steps \in Paths /\ CanSign(req[r])
  BY <1>2 DEF Good
<1>4. req[r].id \in Ids
  BY <1>3 DEF Work
<1> QED BY <1>1, <1>2, <1>3, <1>4, PathFacts

LEMMA HandledInv ==
    ASSUME Inv, NEW r \in Requests, Handles(r), UNCHANGED noticeVars
    PROVE  Inv'
<1> USE DEF Inv
<1>1. PICK op \in Ops, u \in Ids : \E b, steps, more :
          Takes(r, op, u, b, steps, more) /\ Fit(op, docs[u], b, steps, more)
  BY DEF Handles
<1>2. PICK b, steps, more :
          Takes(r, op, u, b, steps, more) /\ Fit(op, docs[u], b, steps, more)
  BY <1>1
<1> DEFINE q == [op |-> op, id |-> u, body |-> b, base |-> docs[u], steps |-> steps,
                 key |-> more.key, role |-> more.role, device |-> more.device, drop |-> {}]
<1>3. /\ req' = [req EXCEPT ![r] = q] /\ Idle(r) /\ left > 0 /\ left' = left - 1
      /\ UNCHANGED <<docs, counter, codes, sessions, signed, raced>>
  BY <1>2 DEF Takes, Comes
<1>4. docs[u] \in User \union {None}
  BY DEF TypeOK
<1>5. steps \in SavePaths \union LatePaths /\ steps \in Paths
      /\ steps \in UNION {[1..n -> Steps] : n \in 1..4} /\ steps \notin NumberedPaths
  <2>1. steps \in SavePaths \union LatePaths
    BY <1>2 DEF Fit
  <2>2. steps \in Paths
    BY <2>1 DEF Paths
  <2> QED BY <2>1, <2>2, PathsTyped, PathFacts
<1>6. q \in Work
  BY <1>2, <1>4, <1>5 DEF Fit, Extras, Work
<1>7. CanSign(q)
  BY <1>2 DEF Fit, CanSign
<1>8. chosen' \subseteq Nat
  <2>1. b.number \in Nat
    BY <1>2 DEF Fit, Body
  <2> QED BY <1>2, <2>1 DEF Takes, Foreign, TypeOK
<1>9. Saves(steps) /\ docs[u] # None => Faithful(op, docs[u], b) /\ docs[u].number # 0
  BY <1>2, NumbersThere DEF Fit
<1>10. Good(q)
  BY <1>5, <1>6, <1>7, <1>9 DEF Good
<1> HIDE DEF q
<1>11. WorkInv'
  <2>1. req' \in [Requests -> Work \union {None}]
    BY <1>3, <1>6 DEF WorkInv
  <2>2. \A p \in Requests : Idle(p)' \/ Good(req'[p])
    BY <1>3, <1>10 DEF WorkInv, Idle
  <2>3. \A v \in There' : docs'[v].number # 0
    BY <1>3 DEF WorkInv, There
  <2> QED BY <2>1, <2>2, <2>3 DEF WorkInv
<1>12. Signing' \subseteq Signing \union {r}
  BY <1>3 DEF Signing, Idle, WorkInv
<1>13. CountInv' /\ left' \in 0..MaxInputs
  <2>1. Signing \in SUBSET Requests /\ Signing' \in SUBSET (Signing \union {r})
    BY <1>12 DEF Signing
  <2>2. /\ Cardinality(Signing) \in Nat /\ Cardinality(Signing') \in Nat
        /\ Cardinality(Signing') <= Cardinality(Signing) + 1
    BY <2>1, OneMore
  <2>3. left \in 0..MaxInputs /\ signed \in Nat /\ MaxInputs \in Nat /\ signed' = signed
    BY <1>3, UsersAssumption DEF TypeOK
  <2>4. left' \in 0..MaxInputs /\ left' = left - 1 /\ left \in Nat /\ left - 1 \in Nat
    BY <1>3, <2>3
  <2>5. left + signed + Cardinality(Signing) <= MaxInputs
    BY DEF CountInv
  <2>6. left' + signed' + Cardinality(Signing') <= MaxInputs
    <3>1. \A l, s, c, cc, m \in Nat :
              l - 1 \in Nat /\ cc <= c + 1 /\ l + s + c <= m => (l - 1) + s + cc <= m
      OBVIOUS
    <3> QED BY <2>2, <2>3, <2>4, <2>5, <3>1
  <2> QED BY <2>4, <2>6 DEF CountInv
<1>14. TypeOK'
  BY <1>3, <1>8, <1>11, <1>13 DEF TypeOK, WorkInv, noticeVars, mailVars, Idle
<1> QED BY <1>11, <1>13, <1>14

LEMMA LogoutInv ==
    ASSUME Inv, NEW r \in Requests, Logout(r), UNCHANGED noticeVars
    PROVE  Inv'
<1> USE DEF Inv
<1>1. PICK s \in sessions, device \in Devices :
          LET drop == {t \in sessions : t.user = s.user /\ t.device = device} IN
          /\ Comes
          /\ Idle(r)
          /\ req' = [req EXCEPT ![r] = [op |-> "logout", id |-> s.user, body |-> EmptyBody,
                                        base |-> None, steps |-> <<"drop">>, key |-> None,
                                        role |-> None, device |-> device, drop |-> drop]]
          /\ UNCHANGED <<docs, counter, codes, sessions, signed, raced, chosen>>
  BY DEF Logout
<1> DEFINE drop == {t \in sessions : t.user = s.user /\ t.device = device}
           q == [op |-> "logout", id |-> s.user, body |-> EmptyBody, base |-> None,
                 steps |-> <<"drop">>, key |-> None, role |-> None, device |-> device,
                 drop |-> drop]
<1>2. /\ req' = [req EXCEPT ![r] = q] /\ Idle(r) /\ left > 0 /\ left' = left - 1
      /\ UNCHANGED <<docs, counter, codes, sessions, signed, raced, chosen>>
  BY <1>1 DEF Comes
<1>3. <<"drop">> \in LatePaths /\ ~Signs(<<"drop">>)
  BY DEF LatePaths, Signs
<1>4. /\ <<"drop">> \in Paths /\ <<"drop">> \in UNION {[1..n -> Steps] : n \in 1..4}
      /\ ~Saves(<<"drop">>) /\ <<"drop">> \notin NumberedPaths
  <2>1. <<"drop">> \in Paths
    BY <1>3 DEF Paths
  <2> QED BY <1>3, <2>1, PathsTyped, PathFacts DEF Saves
<1>5. s \in JwtToken /\ drop \in SUBSET JwtToken /\ s.user \in Ids
  BY DEF TypeOK, JwtToken
<1> HIDE DEF drop
<1>6. q \in Work
  BY <1>4, <1>5 DEF Work, Ops, EmptyBody, Body
<1>7. q.steps = <<"drop">>
  OBVIOUS
<1> HIDE DEF q
<1>8. Good(q)
  BY <1>3, <1>4, <1>6, <1>7 DEF Good, CanSign
<1>9. WorkInv'
  <2>1. req' \in [Requests -> Work \union {None}]
    BY <1>2, <1>6 DEF WorkInv
  <2>2. \A p \in Requests : Idle(p)' \/ Good(req'[p])
    BY <1>2, <1>8 DEF WorkInv, Idle
  <2>3. \A v \in There' : docs'[v].number # 0
    BY <1>2 DEF WorkInv, There
  <2> QED BY <2>1, <2>2, <2>3 DEF WorkInv
<1>10. Signing' \subseteq Signing
  BY <1>2, <1>3, <1>7 DEF Signing, Idle, WorkInv
<1>11. left' \in Nat /\ signed' \in Nat /\ left' + signed' <= left + signed
  BY <1>2, UsersAssumption DEF TypeOK
<1>12. CountInv' /\ left' \in 0..MaxInputs
  BY <1>10, <1>11, CountKept
<1>13. TypeOK'
  BY <1>2, <1>9, <1>12 DEF TypeOK, WorkInv, noticeVars, mailVars, Idle
<1> QED BY <1>9, <1>12, <1>13

\* The steps of a request that is worked on, but the signing.
LEMMA MovedInv ==
    ASSUME Inv, NEW r \in Requests, ~Idle(r), NEW q,
           q = None \/ (Good(q) /\ (Signs(q.steps) => Signs(req[r].steps))),
           req' = [req EXCEPT ![r] = q], docs' \in [Ids -> User \union {None}],
           \A u \in Ids : docs'[u] # None => docs'[u].number # 0,
           counter' \in Nat, codes' \subseteq Keys, sessions' \subseteq JwtToken,
           raced' \in BOOLEAN, UNCHANGED <<signed, chosen, left>>, UNCHANGED noticeVars
    PROVE  Inv'
<1>1. WorkInv'
  BY WorkKept DEF Inv
<1>2. Signing' \subseteq Signing
  BY SigningKept DEF Inv
<1>3. CountInv' /\ left' \in 0..MaxInputs /\ signed' \in 0..MaxInputs
  BY <1>2, CountKept DEF Inv, TypeOK
<1>4. TypeOK'
  BY <1>1, <1>3 DEF Inv, TypeOK, WorkInv, noticeVars, mailVars, Idle
<1> QED BY <1>1, <1>3, <1>4 DEF Inv

LEMMA TakeNumberInv ==
    ASSUME Inv, NEW r \in Requests, TakeNumber(r), UNCHANGED noticeVars
    PROVE  Inv'
<1> USE DEF Inv
<1> DEFINE old == req[r]
           b == [old.body EXCEPT !.number = counter + 1]
           steps == <<"numbered">> \o old.steps
           q == [old EXCEPT !.body = b, !.steps = steps]
<1>1. /\ Asked(r, "save") /\ old.body.number = 0
      /\ req' = [req EXCEPT ![r] = ToWriteNumber(old)]
      /\ raced' = (raced \/ \E p \in Requests : Asked(p, "numbered"))
      /\ UNCHANGED <<docs, counter, codes, sessions, signed, chosen, left>>
  BY DEF TakeNumber
<1>2. /\ ~Idle(r) /\ Good(old) /\ old \in Work /\ old.id \in Ids
      /\ old.steps \in SavePaths /\ CanSign(old)
  BY <1>1, AskedGood
<1>3. steps \in NumberedPaths /\ (Signs(steps) => Signs(old.steps))
  BY <1>2, SavePathFacts
<1>4. steps \in Paths /\ steps \in UNION {[1..n -> Steps] : n \in 1..4} /\ Saves(steps)
      /\ Saves(old.steps)
  <2>1. steps \in Paths
    BY <1>3 DEF Paths
  <2> QED BY <1>2, <1>3, <2>1, PathsTyped DEF Saves
<1>5. counter + 1 \in Nat /\ counter + 1 # 0
  BY DEF TypeOK
<1>6. old.body \in Body
  BY <1>2 DEF Work
<1>7. b \in Body /\ b.number = counter + 1
  BY <1>5, <1>6 DEF Body
<1>8. ToWriteNumber(old) = q
  BY <1>2 DEF ToWriteNumber, Numbered, Work
<1>9. old.base # None => Faithful(old.op, old.base, b) /\ old.base.number # 0
  <2> SUFFICES ASSUME old.base # None
               PROVE  Faithful(old.op, old.base, b) /\ old.base.number # 0
    OBVIOUS
  <2>1. Faithful(old.op, old.base, old.body) /\ old.base.number # 0
    BY <1>2, <1>4 DEF Good
  <2>2. old.base \in User
    BY <1>2 DEF Work
  <2> QED BY <1>1, <1>5, <1>6, <2>1, <2>2, NumberedFaithful
<1> HIDE DEF b, steps
<1>10. /\ q \in Work /\ q.id = old.id /\ q.op = old.op /\ q.base = old.base /\ q.body = b
       /\ q.steps = steps /\ q.role = old.role /\ q.device = old.device
  BY <1>2, <1>4, <1>7 DEF Work
<1> HIDE DEF q
<1>11. CanSign(q)
  BY <1>2, <1>3, <1>10 DEF CanSign
<1>12. Good(q) /\ (Signs(q.steps) => Signs(old.steps))
  BY <1>3, <1>4, <1>5, <1>7, <1>9, <1>10, <1>11 DEF Good
<1>13. req' = [req EXCEPT ![r] = q]
  BY <1>1, <1>8
<1>14. raced' \in BOOLEAN
  BY <1>1 DEF TypeOK
<1> QED BY <1>1, <1>2, <1>12, <1>13, <1>14, NumbersThere, MovedInv DEF TypeOK

\* A document that is stored for a request.
LEMMA StoredInv ==
    ASSUME Inv, NEW u \in Ids, NEW b \in Body, ~Fails(docs[u], b), b.number # 0,
           docs' = [docs EXCEPT ![u] = Complete(@, b)]
    PROVE  /\ docs' \in [Ids -> User \union {None}]
           /\ docs'[u] \in User /\ docs'[u].number = b.number
           /\ \A v \in Ids : v # u => docs'[v] = docs[v]
           /\ \A v \in Ids : docs'[v] # None => docs'[v].number # 0
<1>1. docs \in [Ids -> User \union {None}]
  BY DEF Inv, TypeOK
<1>2. Complete(docs[u], b) \in User /\ Complete(docs[u], b).number = b.number
  BY <1>1, CompleteTyped
<1>3. docs'[u] = Complete(docs[u], b) /\ \A v \in Ids : v # u => docs'[v] = docs[v]
  BY <1>1
<1>4. \A v \in Ids : docs[v] # None => docs[v].number # 0
  BY NumbersThere DEF Inv
<1> QED BY <1>1, <1>2, <1>3, <1>4

\* The rest of setUser() for a request that has good work before it.
LEMMA StoreDocInv ==
    ASSUME Inv, NEW r \in Requests, ~Idle(r), req[r] \in Work, req[r].body.number # 0,
           NEW q \in Work, q.steps \in SavePaths, CanSign(q),
           Signs(q.steps) => Signs(req[r].steps), StoreDoc(r, q), counter' \in Nat,
           UNCHANGED <<codes, sessions, signed, raced, chosen, left>>, UNCHANGED noticeVars
    PROVE  Inv'
<1> DEFINE u == req[r].id
           b == req[r].body
<1>1. u \in Ids /\ b \in Body
  BY DEF Work
<1>2. codes' \subseteq Keys /\ sessions' \subseteq JwtToken /\ raced' \in BOOLEAN
  BY DEF Inv, TypeOK
<1>3. CASE Fails(docs[u], b)
  <2>1. req' = [req EXCEPT ![r] = None] /\ docs' = docs
    BY <1>3 DEF StoreDoc
  <2> QED BY <1>2, <2>1, NumbersThere, MovedInv DEF Inv, TypeOK
<1>4. CASE ~Fails(docs[u], b)
  <2>1. docs' = [docs EXCEPT ![u] = Complete(@, b)] /\ req' = [req EXCEPT ![r] = Onward(q)]
    BY <1>4 DEF StoreDoc
  <2>2. \/ Onward(q) = None
        \/ Good(Onward(q)) /\ (Signs(Onward(q).steps) => Signs(req[r].steps))
    BY OnwardGood
  <2>3. /\ docs' \in [Ids -> User \union {None}]
        /\ \A v \in Ids : docs'[v] # None => docs'[v].number # 0
    <3>1. b.number # 0
      OBVIOUS
    <3> HIDE DEF u, b
    <3> QED BY <1>1, <1>4, <2>1, <3>1, StoredInv
  <2> QED BY <1>2, <2>1, <2>2, <2>3, MovedInv
<1> QED BY <1>3, <1>4

\* A request whose number was written has the rest before it.
LEMMA NumberWrittenGood ==
    ASSUME NEW q \in Work, q.steps \in NumberedPaths, CanSign(q)
    PROVE  LET w == NumberWritten(q) IN
           /\ w \in Work /\ w.steps \in SavePaths /\ CanSign(w)
           /\ Signs(w.steps) => Signs(q.steps)
           /\ w.id = q.id /\ w.body = q.body
<1>1. Tail(q.steps) \in SavePaths /\ (Signs(Tail(q.steps)) => Signs(q.steps))
  BY NumberedPathFacts
<1>2. Tail(q.steps) \in UNION {[1..n -> Steps] : n \in 1..4}
  BY <1>1, PathsTyped DEF Paths
<1> DEFINE w == [q EXCEPT !.steps = Tail(q.steps)]
<1>3. NumberWritten(q) = w
  BY DEF NumberWritten
<1>4. /\ w \in Work /\ w.steps = Tail(q.steps) /\ w.role = q.role /\ w.device = q.device
      /\ w.id = q.id /\ w.body = q.body
  BY <1>2 DEF Work
<1> HIDE DEF w
<1>5. CanSign(w)
  BY <1>1, <1>4 DEF CanSign
<1> QED BY <1>1, <1>3, <1>4, <1>5

LEMMA SaveNumberedInv ==
    ASSUME Inv, NEW r \in Requests, SaveNumbered(r), UNCHANGED noticeVars
    PROVE  Inv'
<1> DEFINE q == NumberWritten(req[r])
<1>1. /\ Asked(r, "numbered") /\ counter' = req[r].body.number /\ StoreDoc(r, q)
      /\ UNCHANGED <<codes, sessions, signed, raced, chosen, left>>
  BY DEF SaveNumbered
<1>2. /\ ~Idle(r) /\ Good(req[r]) /\ req[r] \in Work /\ req[r].steps \in NumberedPaths
      /\ CanSign(req[r])
  BY <1>1, AskedGood DEF Inv
<1>3. q \in Work /\ q.steps \in SavePaths /\ CanSign(q) /\ (Signs(q.steps) => Signs(req[r].steps))
  BY <1>2, NumberWrittenGood
<1>4. req[r].body.number # 0 /\ counter' \in Nat
  BY <1>1, <1>2 DEF Good, Work, Body
<1> HIDE DEF q
<1> QED BY <1>1, <1>2, <1>3, <1>4, StoreDocInv

LEMMA SaveInv ==
    ASSUME Inv, NEW r \in Requests, Save(r), UNCHANGED noticeVars
    PROVE  Inv'
<1>1. /\ Asked(r, "save") /\ req[r].body.number # 0 /\ StoreDoc(r, req[r])
      /\ UNCHANGED <<counter, codes, sessions, signed, raced, chosen, left>>
  BY DEF Save
<1>2. ~Idle(r) /\ req[r] \in Work /\ req[r].steps \in SavePaths /\ CanSign(req[r])
  BY <1>1, AskedGood DEF Inv
<1>3. counter' \in Nat
  BY <1>1 DEF Inv, TypeOK
<1> QED BY <1>1, <1>2, <1>3, StoreDocInv

LEMMA SpendInv ==
    ASSUME Inv, NEW r \in Requests, Spend(r), UNCHANGED noticeVars
    PROVE  Inv'
<1> DEFINE q == req[r]
<1>1. /\ Asked(r, "spend") /\ codes' \subseteq codes
      /\ req' = [req EXCEPT ![r] = Onward(q)]
      /\ UNCHANGED <<docs, counter, sessions, signed, raced, chosen, left>>
  BY DEF Spend, Goes, WithoutCode
<1>2. ~Idle(r) /\ q \in Work /\ q.steps \in LatePaths /\ CanSign(q)
  BY <1>1, AskedGood DEF Inv
<1>3. \/ Onward(q) = None
      \/ Good(Onward(q)) /\ (Signs(Onward(q).steps) => Signs(q.steps))
  BY <1>2, OnwardGood
<1>4. /\ docs' \in [Ids -> User \union {None}] /\ counter' \in Nat /\ codes' \subseteq Keys
      /\ sessions' \subseteq JwtToken /\ raced' \in BOOLEAN
  BY <1>1 DEF Inv, TypeOK
<1>5. \A v \in Ids : docs'[v] # None => docs'[v].number # 0
  BY <1>1, NumbersThere DEF Inv
<1> QED BY <1>1, <1>2, <1>3, <1>4, <1>5, MovedInv

\* A token is the next of those that were signed.
LEMMA SignInv ==
    ASSUME Inv, NEW r \in Requests, Sign(r), UNCHANGED noticeVars
    PROVE  Inv'
<1> DEFINE q == req[r]
           token == [n |-> signed + 1, user |-> q.id, role |-> q.role, device |-> q.device]
<1>1. /\ Asked(r, "sign") /\ signed' = signed + 1
      /\ sessions' = sessions \union {token}
      /\ req' = [req EXCEPT ![r] = Onward(q)]
      /\ UNCHANGED <<docs, counter, codes, raced, chosen, left>>
  BY DEF Sign, Goes
<1>2. /\ ~Idle(r) /\ q \in Work /\ q.id \in Ids /\ q.steps \in LatePaths /\ CanSign(q)
      /\ Head(q.steps) = "sign"
  BY <1>1, AskedGood DEF Inv
<1>3. Len(q.steps) = 1 /\ Signs(q.steps)
  BY <1>2, LatePathFacts
<1>4. req' = [req EXCEPT ![r] = None]
  BY <1>1, <1>3 DEF Onward
<1>5. \A v \in Ids : docs'[v] # None => docs'[v].number # 0
  BY <1>1, NumbersThere DEF Inv
<1>6. WorkInv'
  BY <1>2, <1>4, <1>5, WorkKept DEF Inv
<1>7. r \in Signing
  BY <1>2, <1>3 DEF Signing
<1>8. Signing' \subseteq Signing \ {r}
  BY <1>4 DEF Signing, Idle, Inv, WorkInv
<1>9. left' \in 0..MaxInputs /\ signed' \in 0..MaxInputs /\ CountInv'
  <2>1. Signing \in SUBSET Requests /\ Signing' \in SUBSET (Signing \ {r})
    BY <1>8 DEF Signing
  <2>2. /\ Cardinality(Signing) \in Nat /\ Cardinality(Signing') \in Nat
        /\ Cardinality(Signing') + 1 <= Cardinality(Signing)
    BY <1>7, <2>1, OneLess
  <2>3. left \in 0..MaxInputs /\ signed \in Nat /\ MaxInputs \in Nat /\ left' = left
    BY <1>1, UsersAssumption DEF Inv, TypeOK
  <2>4. left + signed + Cardinality(Signing) <= MaxInputs
    BY DEF Inv, CountInv
  <2>5. \A l, s, c, cc, m \in Nat :
            cc + 1 <= c /\ l + s + c <= m => l + (s + 1) + cc <= m /\ s + 1 <= m
    OBVIOUS
  <2>6. left + (signed + 1) + Cardinality(Signing') <= MaxInputs /\ signed + 1 <= MaxInputs
    BY <2>2, <2>3, <2>4, <2>5
  <2>7. left' + signed' + Cardinality(Signing') <= MaxInputs
    BY <1>1, <2>6
  <2>8. signed' \in 0..MaxInputs
    BY <1>1, <2>3, <2>6
  <2> QED BY <2>3, <2>7, <2>8 DEF CountInv
<1>10. token \in JwtToken
  <2>1. q.role \in USER_ROLES /\ q.device \in Devices
    BY <1>2, <1>3 DEF CanSign
  <2>2. signed + 1 \in 1..MaxInputs
    BY <1>1, <1>9, UsersAssumption DEF Inv, TypeOK
  <2> QED BY <1>2, <2>1, <2>2 DEF JwtToken
<1>11. TypeOK'
  BY <1>1, <1>6, <1>9, <1>10 DEF Inv, TypeOK, WorkInv, noticeVars, mailVars, Idle
<1> QED BY <1>6, <1>9, <1>11 DEF Inv

LEMMA DropInv ==
    ASSUME Inv, NEW r \in Requests, Drop(r), UNCHANGED noticeVars
    PROVE  Inv'
<1> DEFINE old == req[r]
<1>1. Asked(r, "drop") /\ UNCHANGED <<docs, counter, codes, signed, raced, chosen, left>>
  BY DEF Drop
<1>2. PICK s \in old.drop :
          /\ sessions' = sessions \ {s}
          /\ req' = [req EXCEPT ![r] = Dropped(old, s)]
  BY DEF Drop
<1>3. /\ ~Idle(r) /\ Good(old) /\ old \in Work /\ old.id \in Ids
      /\ old.steps \in LatePaths /\ CanSign(old)
  BY <1>1, AskedGood DEF Inv
<1> DEFINE q == Dropped(old, s)
<1>4. req' = [req EXCEPT ![r] = q]
  BY <1>2
<1>5. q = None \/ (Good(q) /\ (Signs(q.steps) => Signs(old.steps)))
  <2>1. CASE old.drop = {s}
    BY <2>1 DEF Dropped
  <2>2. CASE old.drop # {s}
    <3>1. q = [old EXCEPT !.drop = old.drop \ {s}]
      BY <2>2 DEF Dropped
    <3>2. q \in Work
      BY <1>3, <3>1 DEF Work
    <3>3. /\ q.id = old.id /\ q.op = old.op /\ q.base = old.base /\ q.body = old.body
          /\ q.steps = old.steps /\ q.role = old.role /\ q.device = old.device
      BY <1>3, <3>1 DEF Work
    <3> HIDE DEF q
    <3>4. Good(q)
      BY <1>3, <3>2, <3>3 DEF Good, CanSign
    <3> QED BY <1>1, <3>3, <3>4
  <2> QED BY <2>1, <2>2
<1> HIDE DEF q
<1>6. /\ docs' \in [Ids -> User \union {None}] /\ counter' \in Nat /\ codes' \subseteq Keys
      /\ sessions' \subseteq JwtToken /\ raced' \in BOOLEAN
  BY <1>1, <1>2 DEF Inv, TypeOK
<1>7. \A v \in Ids : docs'[v] # None => docs'[v].number # 0
  BY <1>1, NumbersThere DEF Inv
<1> QED BY <1>1, <1>3, <1>4, <1>5, <1>6, <1>7, MovedInv

LEMMA RestartInv ==
    ASSUME Inv, Restart, UNCHANGED noticeVars
    PROVE  Inv'
<1>1. /\ left > 0 /\ left' = left - 1 /\ req' = [r \in Requests |-> None]
      /\ UNCHANGED <<docs, counter, codes, sessions, signed, raced, chosen>>
  BY DEF Restart, Comes
<1>2. WorkInv'
  BY <1>1 DEF Inv, WorkInv, Idle, There
<1>3. Signing' \subseteq Signing
  BY <1>1 DEF Signing, Idle
<1>4. left' \in Nat /\ signed' \in Nat /\ left' + signed' <= left + signed
  BY <1>1, UsersAssumption DEF Inv, TypeOK
<1>5. CountInv' /\ left' \in 0..MaxInputs
  BY <1>3, <1>4, CountKept DEF Inv
<1>6. TypeOK'
  BY <1>1, <1>2, <1>5 DEF Inv, TypeOK, noticeVars, mailVars, Idle
<1> QED BY <1>2, <1>5, <1>6 DEF Inv

NoticesTyped ==
    /\ balance \in [Ids -> Balances]
    /\ marks \subseteq Ids \X USER_NOTIFICATION
    /\ queue \in [Ids -> [USER_NOTIFICATION -> 0..MaxMails]]
    /\ worker \in [Workers -> Job \union {None}]
    /\ paused \in BOOLEAN

\* What happens to documents, codes and notices meanwhile.
LEMMA UntouchedInv ==
    ASSUME Inv, UNCHANGED <<req, counter, signed, sessions, raced, chosen>>,
           left' \in Nat, left' <= left, codes' \subseteq Keys,
           docs' \in [Ids -> User \union {None}],
           \A u \in Ids : docs'[u] # None => docs'[u].number # 0,
           NoticesTyped'
    PROVE  Inv'
<1>1. WorkInv'
  BY WorkUntouched DEF Inv
<1>2. Signing' \subseteq Signing
  BY DEF Signing, Idle
<1>3. signed' \in Nat /\ left' + signed' <= left + signed
  <2>1. signed \in Nat /\ left \in Nat /\ signed' = signed
    BY UsersAssumption DEF Inv, TypeOK
  <2>2. \A l, ll, n \in Nat : ll <= l => ll + n <= l + n
    OBVIOUS
  <2> QED BY <2>1, <2>2
<1>4. CountInv' /\ left' \in 0..MaxInputs
  <2>1. TypeOK /\ CountInv
    BY DEF Inv
  <2> QED BY <1>2, <1>3, <2>1, CountKept
<1>5. TypeOK'
  BY <1>1, <1>4 DEF Inv, TypeOK, NoticesTyped, WorkInv, Idle
<1> QED BY <1>1, <1>4, <1>5 DEF Inv

LEMMA CodesInv ==
    ASSUME Inv, SendCode \/ CodeExpires, UNCHANGED noticeVars
    PROVE  Inv'
<1>1. /\ left > 0 /\ left' = left - 1
      /\ UNCHANGED <<docs, counter, sessions, signed, req, raced, chosen>>
  BY DEF SendCode, SendAddressCode, SendDeleteCode, CodeMailed, CodeExpires, Comes
<1>2. codes' \subseteq Keys
  <2>1. CASE SendAddressCode
    <3>1. PICK e \in Emails, kind \in {"email", "password"} : codes' = codes \union {<<kind, e>>}
      BY <2>1 DEF SendAddressCode, CodeMailed
    <3>2. <<kind, e>> \in Keys
      BY DEF Keys
    <3> QED BY <3>1, <3>2 DEF Inv, TypeOK
  <2>2. CASE SendDeleteCode
    <3>1. PICK u \in There : codes' = codes \union {<<"delete", u>>}
      BY <2>2 DEF SendDeleteCode, CodeMailed
    <3>2. <<"delete", u>> \in Keys
      BY DEF Keys, There
    <3> QED BY <3>1, <3>2 DEF Inv, TypeOK
  <2>3. CASE CodeExpires
    BY <2>3 DEF CodeExpires, WithoutCode, Inv, TypeOK
  <2> QED BY <2>1, <2>2, <2>3 DEF SendCode
<1>3. left' \in Nat /\ left' <= left
  BY <1>1, UsersAssumption DEF Inv, TypeOK
<1>4. \A u \in Ids : docs'[u] # None => docs'[u].number # 0
  BY <1>1, NumbersThere DEF Inv
<1>5. docs' \in [Ids -> User \union {None}] /\ NoticesTyped'
  BY <1>1 DEF Inv, TypeOK, NoticesTyped, noticeVars, mailVars
<1> QED BY <1>1, <1>2, <1>3, <1>4, <1>5, UntouchedInv

\* The balance marks the document: the subscription was bought.
LEMMA BalanceInv ==
    ASSUME Inv, NEW u \in Ids, BalanceMoves(u)
    PROVE  /\ Inv'
           /\ \A v \in Ids : docs[v] # None => docs'[v] # None /\ docs'[v].number = docs[v].number
           /\ \A v \in Ids : docs'[v] # None => docs[v] # None
<1>1. /\ left > 0 /\ left' = left - 1 /\ docs[u] # None
      /\ UNCHANGED <<counter, codes, sessions, signed, req, raced, chosen, marks, queue, worker, paused>>
  BY DEF BalanceMoves, Comes, Live, There, mailVars
<1>2. docs \in [Ids -> User \union {None}] /\ docs[u] \in User
  BY <1>1 DEF Inv, TypeOK
<1>3. /\ docs' \in [Ids -> User \union {None}]
      /\ \A v \in Ids : docs[v] # None => docs'[v] # None /\ docs'[v].number = docs[v].number
      /\ \A v \in Ids : docs'[v] # None => docs[v] # None
  <2>1. CASE UNCHANGED docs
    BY <1>2, <2>1
  <2>2. CASE docs' = [docs EXCEPT ![u].bought = TRUE]
    <3> DEFINE d == [docs[u] EXCEPT !.bought = TRUE]
    <3>1. d \in User /\ d.number = docs[u].number
      BY <1>2 DEF User
    <3>2. docs' = [docs EXCEPT ![u] = d]
      BY <1>2, <2>2
    <3> HIDE DEF d
    <3>3. docs'[u] = d /\ \A v \in Ids : v # u => docs'[v] = docs[v]
      BY <1>2, <3>2
    <3>4. d # None
      BY <3>1, UserAssumption
    <3>5. docs' \in [Ids -> User \union {None}]
      BY <1>2, <3>1, <3>2
    <3> QED BY <1>1, <3>1, <3>3, <3>4, <3>5
  <2> QED BY <2>1, <2>2 DEF BalanceMoves
<1>4. left' \in Nat /\ left' <= left
  BY <1>1, UsersAssumption DEF Inv, TypeOK
<1>5. \A v \in Ids : docs'[v] # None => docs'[v].number # 0
  BY <1>3, NumbersThere DEF Inv
<1>6. codes' \subseteq Keys /\ NoticesTyped'
  BY <1>1 DEF Inv, TypeOK, NoticesTyped, BalanceMoves, Balances
<1> QED BY <1>1, <1>3, <1>4, <1>5, <1>6, UntouchedInv

\* A cron queues no more mails than may wait.
LEMMA QueuedTyped ==
    ASSUME Inv, NEW kind \in USER_NOTIFICATION, Queued(kind)
    PROVE  queue' \in [Ids -> [USER_NOTIFICATION -> 0..MaxMails]]
<1>1. queue \in [Ids -> [USER_NOTIFICATION -> 0..MaxMails]] /\ MaxMails \in Nat
  BY MailsAssumption DEF Inv, TypeOK
<1>2. ASSUME NEW u \in Ids, Due(u, kind)
      PROVE  [queue[u] EXCEPT ![kind] = @ + 1] \in [USER_NOTIFICATION -> 0..MaxMails]
  <2>1. queue[u][kind] < MaxMails
    BY <1>2 DEF Queued
  <2>2. queue[u] \in [USER_NOTIFICATION -> 0..MaxMails] /\ queue[u][kind] \in 0..MaxMails
    BY <1>1
  <2>3. queue[u][kind] + 1 \in 0..MaxMails
    BY <1>1, <2>1, <2>2
  <2> QED BY <2>2, <2>3
<1>3. queue' = [u \in Ids |-> IF Due(u, kind) THEN [queue[u] EXCEPT ![kind] = @ + 1] ELSE queue[u]]
  BY DEF Queued
<1> QED BY <1>1, <1>2, <1>3

\* A job that is taken, or waits again.
LEMMA OneJobTyped ==
    ASSUME Inv, NEW u \in Ids, NEW k \in USER_NOTIFICATION
    PROVE  /\ queue[u][k] > 0 =>
                  [queue EXCEPT ![u][k] = @ - 1] \in [Ids -> [USER_NOTIFICATION -> 0..MaxMails]]
           /\ queue[u][k] < MaxMails =>
                  [queue EXCEPT ![u][k] = @ + 1] \in [Ids -> [USER_NOTIFICATION -> 0..MaxMails]]
<1>1. queue \in [Ids -> [USER_NOTIFICATION -> 0..MaxMails]] /\ MaxMails \in Nat
  BY MailsAssumption DEF Inv, TypeOK
<1>2. queue[u][k] \in 0..MaxMails
  BY <1>1
<1>3. queue[u][k] > 0 => queue[u][k] - 1 \in 0..MaxMails
  BY <1>1, <1>2
<1>4. queue[u][k] < MaxMails => queue[u][k] + 1 \in 0..MaxMails
  BY <1>1, <1>2
<1> QED BY <1>1, <1>3, <1>4

\* The job of a worker, and what it does.
WorkerStep(w) ==
    \/ \E u \in Ids, k \in USER_NOTIFICATION : JobTaken(w, u, k)
    \/ JobChecked(w) \/ MailSent(w) \/ MailUnaddressed(w)
    \/ MailFails(w) \/ JobThrows(w) \/ WorkerDies(w)

LEMMA WorkerTyped ==
    ASSUME Inv, NEW w \in Workers, WorkerStep(w)
    PROVE  NoticesTyped'
<1>1. /\ balance \in [Ids -> Balances] /\ marks \subseteq Ids \X USER_NOTIFICATION
      /\ queue \in [Ids -> [USER_NOTIFICATION -> 0..MaxMails]]
      /\ worker \in [Workers -> Job \union {None}] /\ paused \in BOOLEAN
  BY DEF Inv, TypeOK
<1>2. worker[w] # None => worker[w] \in Job /\ worker[w].user \in Ids /\ worker[w].kind \in USER_NOTIFICATION
  BY <1>1 DEF Job
<1>3. Done(w) => worker' \in [Workers -> Job \union {None}]
  BY <1>1 DEF Done
<1>4. ASSUME NEW u \in Ids, NEW k \in USER_NOTIFICATION, JobTaken(w, u, k) PROVE NoticesTyped'
  <2>1. [user |-> u, kind |-> k, next |-> "check"] \in Job
    BY DEF Job
  <2>2. /\ worker' = [worker EXCEPT ![w] = [user |-> u, kind |-> k, next |-> "check"]]
        /\ queue' = [queue EXCEPT ![u][k] = @ - 1] /\ queue[u][k] > 0
        /\ UNCHANGED <<balance, marks, paused>>
    BY <1>4 DEF JobTaken
  <2>3. worker' \in [Workers -> Job \union {None}]
    BY <1>1, <2>1, <2>2
  <2> QED BY <1>1, <2>2, <2>3, OneJobTyped DEF NoticesTyped
<1>5. CASE JobChecked(w)
  <2>1. /\ worker' = [worker EXCEPT ![w].next = "send"] /\ worker[w] # None /\ paused' = FALSE
        /\ UNCHANGED <<balance, marks, queue>>
    BY <1>5 DEF JobChecked, At
  <2>2. [worker[w] EXCEPT !.next = "send"] \in Job
    BY <1>2, <2>1 DEF Job
  <2>3. worker' = [worker EXCEPT ![w] = [worker[w] EXCEPT !.next = "send"]]
    BY <1>1, <2>1
  <2>4. worker' \in [Workers -> Job \union {None}]
    BY <1>1, <2>2, <2>3
  <2> QED BY <1>1, <2>1, <2>4 DEF NoticesTyped
<1>6. CASE MailSent(w)
  <2>1. worker[w] # None /\ Done(w) /\ UNCHANGED <<balance, queue, paused>>
        /\ marks' = Marked(worker[w].user, worker[w].kind)
    BY <1>6 DEF MailSent, At
  <2>2. marks' \subseteq Ids \X USER_NOTIFICATION
    BY <1>1, <1>2, <2>1 DEF Marked
  <2> QED BY <1>1, <1>3, <2>1, <2>2 DEF NoticesTyped
<1>7. CASE MailUnaddressed(w) \/ MailFails(w) \/ JobThrows(w)
  <2>1. Done(w) /\ UNCHANGED <<balance, marks, queue>> /\ paused' \in {paused, TRUE}
    BY <1>7 DEF MailUnaddressed, MailFails, JobThrows
  <2> QED BY <1>1, <1>3, <2>1 DEF NoticesTyped
<1>8. CASE WorkerDies(w)
  <2>1. worker[w] # None /\ Done(w) /\ UNCHANGED <<balance, marks, paused>>
    BY <1>8 DEF WorkerDies
  <2> DEFINE u == worker[w].user
             k == worker[w].kind
  <2>2. u \in Ids /\ k \in USER_NOTIFICATION
    BY <1>2, <2>1
  <2>3. queue' = queue \/ (queue[u][k] < MaxMails /\ queue' = [queue EXCEPT ![u][k] = @ + 1])
    BY <1>8 DEF WorkerDies
  <2> HIDE DEF u, k
  <2>4. queue' \in [Ids -> [USER_NOTIFICATION -> 0..MaxMails]]
    BY <1>1, <2>2, <2>3, OneJobTyped
  <2> QED BY <1>1, <1>3, <2>1, <2>4 DEF NoticesTyped
<1> QED BY <1>4, <1>5, <1>6, <1>7, <1>8 DEF WorkerStep

LEMMA MailsInv ==
    ASSUME Inv,
           \/ CheckUserSubscriptionEnding \/ CheckUserSubscriptionEnded \/ OnDemand \/ MarkExpires
           \/ \E w \in Workers : WorkerStep(w)
    PROVE  Inv' /\ UNCHANGED <<docs, req, counter, raced, chosen>>
<1>1. UNCHANGED <<docs, counter, codes, sessions, signed, req, raced, chosen, balance>>
  BY DEF CheckUserSubscriptionEnding, CheckUserSubscriptionEnded, Queued, OnDemand, Told,
         MarkExpires, WorkerStep, JobTaken, JobChecked, MailSent, MailUnaddressed, MailFails,
         JobThrows, WorkerDies
<1>2. left' = left \/ (left > 0 /\ left' = left - 1)
  BY DEF CheckUserSubscriptionEnding, CheckUserSubscriptionEnded, Queued, OnDemand, Told,
         MarkExpires, WorkerStep, JobTaken, JobChecked, MailSent, MailUnaddressed, MailFails,
         JobThrows, WorkerDies, Comes
<1>3. left' \in Nat /\ left' <= left
  BY <1>2, UsersAssumption DEF Inv, TypeOK
<1>4. NoticesTyped
  BY DEF Inv, TypeOK, NoticesTyped
<1>5. NoticesTyped'
  <2>1. CASE CheckUserSubscriptionEnding \/ CheckUserSubscriptionEnded
    <3>1. PICK kind \in USER_NOTIFICATION : Queued(kind)
      BY <2>1 DEF CheckUserSubscriptionEnding, CheckUserSubscriptionEnded, USER_NOTIFICATION
    <3>2. UNCHANGED <<balance, marks, worker, paused>>
      BY <3>1 DEF Queued
    <3> QED BY <1>4, <3>1, <3>2, QueuedTyped DEF NoticesTyped
  <2>2. CASE OnDemand
    BY <1>4, <2>2 DEF OnDemand, Told, Marked, NoticesTyped, mailVars
  <2>3. CASE MarkExpires
    BY <1>4, <2>3 DEF MarkExpires, NoticesTyped, mailVars
  <2> QED BY <2>1, <2>2, <2>3, WorkerTyped
<1>6. \A u \in Ids : docs'[u] # None => docs'[u].number # 0
  BY <1>1, NumbersThere DEF Inv
<1>7. docs' \in [Ids -> User \union {None}] /\ codes' \subseteq Keys
  BY <1>1 DEF Inv, TypeOK
<1> QED BY <1>1, <1>3, <1>5, <1>6, <1>7, UntouchedInv

LEMMA StutterInv ==
    ASSUME Inv, UNCHANGED vars
    PROVE  Inv'
<1>1. UNCHANGED <<docs, counter, codes, sessions, signed, req, raced, chosen, left, balance, marks,
                  queue, worker, paused>>
  BY DEF vars, userVars, noticeVars, mailVars
<1>2. left' \in Nat /\ left' <= left
  BY <1>1, UsersAssumption DEF Inv, TypeOK
<1>3. \A u \in Ids : docs'[u] # None => docs'[u].number # 0
  BY <1>1, NumbersThere DEF Inv
<1>4. docs' \in [Ids -> User \union {None}] /\ codes' \subseteq Keys /\ NoticesTyped'
  BY <1>1 DEF Inv, TypeOK, NoticesTyped
<1> QED BY <1>1, <1>2, <1>3, <1>4, UntouchedInv

LEMMA FirstDocument ==
    ASSUME NEW e \in Emails, NEW p \in Passwords
    PROVE  FirstUser(e, p) \in User /\ FirstUser(e, p).number = 1
<1> QED BY DEF FirstUser, User, USER_ROLES

LEMMA InitInv ==
    ASSUME Init
    PROVE  /\ Inv
           /\ \A u, v \in There : u = v
           /\ \A u \in There : docs[u].number = 1
<1> DEFINE first == CHOOSE v \in Ids : TRUE
           d == FirstUser(CHOOSE e \in Emails : TRUE, CHOOSE p \in Passwords : TRUE)
<1>1. (CHOOSE e \in Emails : TRUE) \in Emails /\ (CHOOSE p \in Passwords : TRUE) \in Passwords
  BY UsersAssumption
<1>2. d \in User /\ d.number = 1
  BY <1>1, FirstDocument
<1>3. docs = [u \in Ids |-> IF u = first THEN d ELSE None]
  BY DEF Init
<1> HIDE DEF first, d
<1>4. docs \in [Ids -> User \union {None}]
  BY <1>2, <1>3
<1>5. There \subseteq {first} /\ \A u \in There : docs[u].number = 1
  BY <1>2, <1>3 DEF There
<1>6. /\ counter = 1 /\ codes = {} /\ sessions = {} /\ signed = 0 /\ left = MaxInputs
      /\ req = [r \in Requests |-> None] /\ raced = FALSE /\ chosen = {}
      /\ marks = {} /\ worker = [w \in Workers |-> None] /\ paused = FALSE
      /\ balance = [u \in Ids |-> "none"]
      /\ queue = [u \in Ids |-> [k \in USER_NOTIFICATION |-> 0]]
  BY DEF Init, NoticesInit
<1>7. \A r \in Requests : Idle(r)
  BY <1>6 DEF Idle
<1>8. WorkInv
  BY <1>5, <1>6, <1>7 DEF WorkInv
<1>9. Signing = {}
  BY <1>7 DEF Signing
<1>10. CountInv
  BY <1>6, <1>9, UsersAssumption, FS_EmptySet DEF CountInv
<1>11. TypeOK
  <2>1. 0 \in 0..MaxInputs /\ MaxInputs \in 0..MaxInputs /\ 0 \in 0..MaxMails /\ 1 \in Nat
    BY UsersAssumption, MailsAssumption
  <2>2. balance \in [Ids -> Balances]
    BY <1>6 DEF Balances
  <2>3. queue \in [Ids -> [USER_NOTIFICATION -> 0..MaxMails]]
    BY <1>6, <2>1
  <2> QED BY <1>4, <1>6, <1>7, <2>1, <2>2, <2>3 DEF TypeOK
<1> QED BY <1>5, <1>8, <1>10, <1>11 DEF Inv

LEMMA HandlerInv ==
    ASSUME Inv, NEW r \in Requests, UNCHANGED noticeVars,
           \/ SignIn(r) \/ Verification(r) \/ Approval(r) \/ PasswordRequest(r)
           \/ UserRequest(r) \/ AllowUserManageOrders(r)
    PROVE  (Handles(r) \/ Logout(r)) /\ Inv'
<1>1. CASE Logout(r)
  BY <1>1, LogoutInv
<1>2. CASE ~Logout(r)
  <2>1. Handles(r)
    BY <1>2, SignInFits, VerificationFits, OfficeFits, UserRequestFits DEF Inv, SignIn
  <2> QED BY <2>1, HandledInv
<1> QED BY <1>1, <1>2

LEMMA NextInv ==
    ASSUME Inv, [Next]_vars
    PROVE  Inv'
<1>1. CASE UserStep /\ UNCHANGED noticeVars
  <2>1. ASSUME NEW r \in Requests,
               \/ SignIn(r) \/ Verification(r) \/ Approval(r) \/ PasswordRequest(r)
               \/ UserRequest(r) \/ AllowUserManageOrders(r)
        PROVE  Inv'
    BY <1>1, <2>1, HandlerInv
  <2>2. CASE SendCode \/ CodeExpires
    BY <1>1, <2>2, CodesInv
  <2>3. CASE HandlerStep
    <3>1. ASSUME NEW r \in Requests,
                 \/ TakeNumber(r) \/ SaveNumbered(r) \/ Save(r)
                 \/ Spend(r) \/ Sign(r) \/ Drop(r)
          PROVE  Inv'
      BY <1>1, <3>1, TakeNumberInv, SaveNumberedInv, SaveInv, SpendInv, SignInv, DropInv
    <3> QED BY <1>1, <2>3, <3>1, RestartInv DEF HandlerStep
  <2> QED BY <1>1, <2>1, <2>2, <2>3 DEF UserStep
<1>2. CASE NoticeStep
  <2>1. ASSUME NEW u \in Ids, BalanceMoves(u) PROVE Inv'
    BY <2>1, BalanceInv
  <2>2. CASE \/ CheckUserSubscriptionEnding \/ CheckUserSubscriptionEnded \/ OnDemand \/ MarkExpires
             \/ \E w \in Workers : WorkerStep(w)
    BY <2>2, MailsInv
  <2> QED BY <1>2, <2>1, <2>2 DEF NoticeStep, WorkerStep
<1>3. CASE UNCHANGED vars
  BY <1>3, StutterInv
<1> QED BY <1>1, <1>2, <1>3 DEF Next

\* The documents are complete, whatever a body of a request lacks: getUser() never hands out one
\* that does not say whether it is verified and approved.  No handler is left without the role and the device it signs
\* a session with, and no more sessions are signed than requests came.
THEOREM DocumentsAreComplete == Spec => []TypeOK
<1>1. Init => Inv
  BY InitInv
<1>2. Inv /\ [Next]_vars => Inv'
  BY NextInv
<1>3. Inv => TypeOK
  BY DEF Inv
<1> QED BY <1>1, <1>2, <1>3, PTL DEF Spec

-----------------------------------------------------------------------------
(* Platform numbers *)

\* What a request does that neither takes a number nor writes it.
Same(r) ==
    \/ req'[r] = None
    \/ req'[r] = req[r]
    \/ /\ ~Idle(r) /\ req[r].steps \notin NumberedPaths /\ req'[r].steps \notin NumberedPaths
       /\ req'[r].id = req[r].id /\ req'[r].body = req[r].body

SameNumber(u) ==
    \/ docs'[u] = None
    \/ docs[u] # None /\ docs'[u].number = docs[u].number
    \/ \E r \in Requests :
        ~Idle(r) /\ ~Numbering(r) /\ req[r].id = u /\ docs'[u].number = req[r].body.number

LEMMA SameNumbers ==
    ASSUME NumberInv, UNCHANGED <<counter, raced, chosen>>,
           \A r \in Requests : Same(r), \A u \in Ids : SameNumber(u)
    PROVE  NumberInv'
<1> SUFFICES ASSUME ~raced PROVE NumberInv'
  BY DEF NumberInv
<1>1. /\ \A r, q \in Requests : Numbering(r) /\ Numbering(q) => r = q
      /\ \A r \in Requests : Numbering(r) => req[r].body.number = counter + 1
      /\ \A r \in Requests : ~Idle(r) /\ ~Numbering(r) => Given(req[r].body.number)
      /\ \A u \in There : Given(docs[u].number)
      /\ \A u, v \in Ids : \A n \in Drawn : Owns(u, n) /\ Owns(v, n) => u = v
  BY DEF NumberInv
<1>2. ASSUME NEW r \in Requests, Numbering(r)'
      PROVE  Numbering(r) /\ req'[r].body.number = req[r].body.number
  BY <1>2 DEF Same, Numbering, Idle
<1>3. ASSUME NEW r \in Requests, ~Idle(r)'
      PROVE  ~Idle(r) /\ req'[r].id = req[r].id /\ req'[r].body.number = req[r].body.number
  BY <1>3 DEF Same, Idle
<1>4. ASSUME NEW r \in Requests, ~Idle(r)', ~Numbering(r)' PROVE ~Numbering(r)
  BY <1>4 DEF Same, Numbering, Idle
<1>5. ASSUME NEW u \in There' PROVE Given(docs[u].number)'
  <2>1. u \in Ids /\ docs'[u] # None
    BY <1>5 DEF There
  <2>2. CASE docs[u] # None /\ docs'[u].number = docs[u].number
    BY <1>1, <2>1, <2>2 DEF There, Given
  <2>3. CASE \E r \in Requests :
                 ~Idle(r) /\ ~Numbering(r) /\ req[r].id = u /\ docs'[u].number = req[r].body.number
    BY <1>1, <2>3 DEF Given
  <2> QED BY <2>1, <2>2, <2>3 DEF SameNumber
<1>6. ASSUME NEW u \in Ids, NEW n, Owns(u, n)' PROVE Owns(u, n)
  <2>1. CASE u \in There' /\ docs'[u].number = n
    <3>1. docs'[u] # None
      BY <2>1 DEF There
    <3> QED BY <2>1, <3>1 DEF SameNumber, Owns, There
  <2>2. CASE \E r \in Requests : ~Idle(r)' /\ req'[r].id = u /\ req'[r].body.number = n
    <3>1. PICK r \in Requests : ~Idle(r)' /\ req'[r].id = u /\ req'[r].body.number = n
      BY <2>2
    <3>2. ~Idle(r) /\ req[r].id = u /\ req[r].body.number = n
      BY <1>3, <3>1
    <3> QED BY <3>2 DEF Owns
  <2> QED BY <1>6, <2>1, <2>2 DEF Owns
<1>7. \A r, q \in Requests : Numbering(r)' /\ Numbering(q)' => r = q
  BY <1>1, <1>2
<1>8. \A r \in Requests : Numbering(r)' => req'[r].body.number = counter' + 1
  BY <1>1, <1>2
<1>9. \A r \in Requests : ~Idle(r)' /\ ~Numbering(r)' => Given(req[r].body.number)'
  BY <1>1, <1>3, <1>4 DEF Given
<1>10. \A u, v \in Ids : \A n \in Drawn' : Owns(u, n)' /\ Owns(v, n)' => u = v
  BY <1>1, <1>6 DEF Drawn
<1> QED BY <1>5, <1>7, <1>8, <1>9, <1>10 DEF NumberInv

\* Numbers are naturals, and what is not in hand nor in a document is nobody's.
LEMMA NumbersTyped ==
    ASSUME Inv
    PROVE  /\ counter \in Nat
           /\ \A r \in Requests : ~Idle(r) => req[r].body.number \in Nat /\ req[r].id \in Ids
           /\ \A u \in There : docs[u].number \in Nat
<1> QED BY DEF Inv, TypeOK, WorkInv, Good, Work, Body, User, There, Idle

LEMMA HandlesNumbers ==
    ASSUME Inv, NumberInv, NEW r \in Requests, Handles(r)
    PROVE  NumberInv'
<1>1. PICK op \in Ops, u \in Ids : \E b, steps, more :
          Takes(r, op, u, b, steps, more) /\ Fit(op, docs[u], b, steps, more)
  BY DEF Handles
<1>2. PICK b, steps, more :
          Takes(r, op, u, b, steps, more) /\ Fit(op, docs[u], b, steps, more)
  BY <1>1
<1> DEFINE q == [op |-> op, id |-> u, body |-> b, base |-> docs[u], steps |-> steps,
                 key |-> more.key, role |-> more.role, device |-> more.device, drop |-> {}]
<1>3. /\ req' = [req EXCEPT ![r] = q] /\ Idle(r)
      /\ UNCHANGED <<docs, counter, codes, sessions, signed, raced>>
  BY <1>2 DEF Takes
<1>4. q.id = u /\ q.body = b /\ q.steps = steps
  OBVIOUS
<1>5. steps \notin NumberedPaths
  BY <1>2, SavePathFacts, LatePathFacts, NumberedPathFacts DEF Fit
<1>6. /\ chosen \subseteq chosen'
      /\ b.number = 0 \/ (u \in There /\ b.number = docs[u].number) \/ b.number \in chosen'
  BY <1>2 DEF Takes, Foreign, There
<1> HIDE DEF q
<1>7. req'[r] = q /\ \A p \in Requests : p # r => req'[p] = req[p]
  BY <1>3 DEF Inv, WorkInv
<1> SUFFICES ASSUME ~raced PROVE NumberInv'
  BY <1>3 DEF NumberInv
<1>8. /\ \A p, o \in Requests : Numbering(p) /\ Numbering(o) => p = o
      /\ \A p \in Requests : Numbering(p) => req[p].body.number = counter + 1
      /\ \A p \in Requests : ~Idle(p) /\ ~Numbering(p) => Given(req[p].body.number)
      /\ \A v \in There : Given(docs[v].number)
      /\ \A v, w \in Ids : \A n \in Drawn : Owns(v, n) /\ Owns(w, n) => v = w
  BY DEF NumberInv
<1>9. \A p \in Requests : Numbering(p)' => p # r /\ Numbering(p)
  BY <1>4, <1>5, <1>7 DEF Numbering, Idle
<1>10. \A p, o \in Requests : Numbering(p)' /\ Numbering(o)' => p = o
  BY <1>8, <1>9
<1>11. \A p \in Requests : Numbering(p)' => req'[p].body.number = counter' + 1
  BY <1>3, <1>7, <1>8, <1>9
<1>12. b.number <= counter \/ b.number \in chosen'
  BY <1>6, <1>8, NumbersTyped DEF Given
<1>13. \A p \in Requests : ~Idle(p)' /\ ~Numbering(p)' => Given(req[p].body.number)'
  BY <1>3, <1>4, <1>6, <1>7, <1>8, <1>12 DEF Numbering, Idle, Given
<1>14. \A v \in There' : Given(docs[v].number)'
  BY <1>3, <1>6, <1>8 DEF There, Given
<1>15. ASSUME NEW v \in Ids, NEW n \in Drawn', Owns(v, n)' PROVE Owns(v, n)
  <2>1. CASE v \in There' /\ docs'[v].number = n
    BY <1>3, <2>1 DEF Owns, There
  <2>2. CASE \E p \in Requests : ~Idle(p)' /\ req'[p].id = v /\ req'[p].body.number = n
    <3>1. PICK p \in Requests : ~Idle(p)' /\ req'[p].id = v /\ req'[p].body.number = n
      BY <2>2
    <3>2. CASE p = r
      <4>1. u = v /\ b.number = n
        BY <1>4, <1>7, <3>1, <3>2
      <4>2. n # 0 /\ n \notin chosen'
        BY <1>3, NumbersTyped DEF Drawn
      <4> QED BY <1>6, <4>1, <4>2 DEF Owns
    <3>3. CASE p # r
      BY <1>7, <3>1, <3>3 DEF Owns, Idle
    <3> QED BY <3>2, <3>3
  <2> QED BY <1>15, <2>1, <2>2 DEF Owns
<1>16. \A v, w \in Ids : \A n \in Drawn' : Owns(v, n)' /\ Owns(w, n)' => v = w
  <2>1. Drawn' \subseteq Drawn
    BY <1>3, <1>6 DEF Drawn
  <2> QED BY <1>8, <1>15, <2>1
<1> QED BY <1>10, <1>11, <1>13, <1>14, <1>16 DEF NumberInv

\* Whoever takes a number alone takes one that nobody has.
LEMMA TakeNumberNumbers ==
    ASSUME Inv, NumberInv, NEW r \in Requests, TakeNumber(r)
    PROVE  NumberInv'
<1> DEFINE old == req[r]
           q == ToWriteNumber(old)
<1>1. /\ Asked(r, "save") /\ old.body.number = 0
      /\ req' = [req EXCEPT ![r] = q]
      /\ raced' = (raced \/ \E p \in Requests : Asked(p, "numbered"))
      /\ UNCHANGED <<docs, counter, codes, sessions, signed, chosen, left>>
  BY DEF TakeNumber
<1> SUFFICES ASSUME ~raced' PROVE NumberInv'
  BY DEF NumberInv
<1>2. ~raced /\ \A p \in Requests : ~Asked(p, "numbered")
  BY <1>1
<1>3. ~Idle(r) /\ old \in Work /\ old.steps \in SavePaths
  BY <1>1, AskedGood DEF Inv
<1>4. \A p \in Requests : ~Numbering(p)
  BY <1>2, NumberedPathFacts DEF Numbering, Asked
<1>5. q.id = old.id /\ q.body.number = counter + 1 /\ q.steps = <<"numbered">> \o old.steps
  BY <1>3 DEF ToWriteNumber, Numbered, Work, Body
<1>6. q.steps \in NumberedPaths
  BY <1>3, <1>5, SavePathFacts
<1> HIDE DEF q
<1>7. req'[r] = q /\ \A p \in Requests : p # r => req'[p] = req[p]
  BY <1>1 DEF Inv, WorkInv
<1>8. /\ \A p \in Requests : ~Idle(p) => Given(req[p].body.number)
      /\ \A v \in There : Given(docs[v].number)
      /\ \A v, w \in Ids : \A n \in Drawn : Owns(v, n) /\ Owns(w, n) => v = w
  BY <1>2, <1>4 DEF NumberInv
<1>9. \A p \in Requests : Numbering(p)' => p = r
  BY <1>4, <1>7 DEF Numbering, Idle
<1>10. \A p \in Requests : Numbering(p)' => req'[p].body.number = counter' + 1
  BY <1>1, <1>5, <1>7, <1>9
<1>11. \A p \in Requests : ~Idle(p)' /\ ~Numbering(p)' => Given(req[p].body.number)'
  BY <1>1, <1>6, <1>7, <1>8 DEF Numbering, Idle, Given
<1>12. \A v \in There' : Given(docs[v].number)'
  BY <1>1, <1>8 DEF There, Given
<1>13. ASSUME NEW v \in Ids, NEW n, Owns(v, n)'
       PROVE  (n = counter + 1 /\ v = old.id) \/ (Given(n) /\ Owns(v, n))
  <2>1. CASE v \in There' /\ docs'[v].number = n
    BY <1>1, <1>8, <2>1 DEF Owns, There
  <2>2. CASE \E p \in Requests : ~Idle(p)' /\ req'[p].id = v /\ req'[p].body.number = n
    <3>1. PICK p \in Requests : ~Idle(p)' /\ req'[p].id = v /\ req'[p].body.number = n
      BY <2>2
    <3>2. CASE p = r
      BY <1>5, <1>7, <3>1, <3>2
    <3>3. CASE p # r
      BY <1>7, <1>8, <3>1, <3>3 DEF Owns, Idle
    <3> QED BY <3>2, <3>3
  <2> QED BY <1>13, <2>1, <2>2 DEF Owns
<1>14. ASSUME NEW v \in Ids, NEW w \in Ids, NEW n \in Drawn', Owns(v, n)', Owns(w, n)'
       PROVE  v = w
  <2>1. counter \in Nat /\ Drawn' = Drawn /\ n \notin chosen
    BY <1>1, NumbersTyped DEF Drawn
  <2>2. CASE n = counter + 1
    <3>1. ~Given(n)
      BY <2>1, <2>2 DEF Given
    <3> QED BY <1>13, <1>14, <3>1
  <2>3. CASE n # counter + 1
    <3>1. Owns(v, n) /\ Owns(w, n)
      BY <1>13, <1>14, <2>3
    <3> QED BY <1>8, <2>1, <3>1
  <2> QED BY <2>2, <2>3
<1>15. \A p, o \in Requests : Numbering(p)' /\ Numbering(o)' => p = o
  BY <1>9
<1>16. \A v, w \in Ids : \A n \in Drawn' : Owns(v, n)' /\ Owns(w, n)' => v = w
  BY <1>14
<1> QED BY <1>10, <1>11, <1>12, <1>15, <1>16 DEF NumberInv

LEMMA LateNotNumbered == \A p \in SavePaths \union LatePaths : p \notin NumberedPaths
<1> QED BY SavePathFacts, LatePathFacts, NumberedPathFacts

\* The rest of setUser(): the body that was in hand is stored, or dropped.
LEMMA StoreDocMoves ==
    ASSUME Inv, NEW r \in Requests, req[r] \in Work, req[r].body.number # 0,
           NEW q \in Work, q.steps \in SavePaths, CanSign(q), q.id = req[r].id,
           q.body = req[r].body, StoreDoc(r, q)
    PROVE  /\ \A p \in Requests : p # r => req'[p] = req[p]
           /\ \/ req'[r] = None
              \/ /\ req'[r].steps \in LatePaths
                 /\ req'[r].id = req[r].id /\ req'[r].body = req[r].body
           /\ \A v \in Ids :
                \/ docs'[v] = docs[v]
                \/ v = req[r].id /\ docs'[v].number = req[r].body.number
<1> DEFINE u == req[r].id
           b == req[r].body
<1>1. u \in Ids /\ b \in Body /\ b.number # 0
  BY DEF Work
<1>2. CASE Fails(docs[u], b)
  <2>1. req' = [req EXCEPT ![r] = None] /\ docs' = docs
    BY <1>2 DEF StoreDoc
  <2> QED BY <2>1 DEF Inv, WorkInv
<1>3. CASE ~Fails(docs[u], b)
  <2>1. docs' = [docs EXCEPT ![u] = Complete(@, b)] /\ req' = [req EXCEPT ![r] = Onward(q)]
    BY <1>3 DEF StoreDoc
  <2>2. \/ Onward(q) = None
        \/ /\ Onward(q).steps \in LatePaths /\ Onward(q).id = u /\ Onward(q).body = b
    BY OnwardGood
  <2>3. \A v \in Ids : docs'[v] = docs[v] \/ (v = u /\ docs'[v].number = b.number)
    <3> HIDE DEF u, b
    <3> QED BY <1>1, <1>3, <2>1, StoredInv
  <2>4. req'[r] = Onward(q) /\ \A p \in Requests : p # r => req'[p] = req[p]
    BY <2>1 DEF Inv, WorkInv
  <2> QED BY <2>2, <2>3, <2>4
<1> QED BY <1>2, <1>3

\* It is written before anybody else takes one.
LEMMA SaveNumberedNumbers ==
    ASSUME Inv, NumberInv, NEW r \in Requests, SaveNumbered(r)
    PROVE  NumberInv'
<1> DEFINE old == req[r]
           u == old.id
           b == old.body
           q == NumberWritten(old)
<1>1. /\ Asked(r, "numbered") /\ counter' = b.number /\ StoreDoc(r, q)
      /\ UNCHANGED <<codes, sessions, signed, raced, chosen, left>>
  BY DEF SaveNumbered
<1> SUFFICES ASSUME ~raced PROVE NumberInv'
  BY <1>1 DEF NumberInv
<1>2. /\ ~Idle(r) /\ Good(old) /\ old \in Work /\ u \in Ids
      /\ old.steps \in NumberedPaths /\ CanSign(old)
  BY <1>1, AskedGood DEF Inv
<1>3. b \in Body /\ b.number # 0
  BY <1>2 DEF Good, Work
<1>4. /\ \A p, o \in Requests : Numbering(p) /\ Numbering(o) => p = o
      /\ \A p \in Requests : Numbering(p) => req[p].body.number = counter + 1
      /\ \A p \in Requests : ~Idle(p) /\ ~Numbering(p) => Given(req[p].body.number)
      /\ \A v \in There : Given(docs[v].number)
      /\ \A v, w \in Ids : \A n \in Drawn : Owns(v, n) /\ Owns(w, n) => v = w
  BY DEF NumberInv
<1>5. Numbering(r) /\ \A p \in Requests : Numbering(p) => p = r
  BY <1>2, <1>4 DEF Numbering
<1>6. counter \in Nat /\ b.number = counter + 1 /\ counter' = counter + 1
  BY <1>1, <1>4, <1>5, NumbersTyped
<1> DEFINE Known(n) == n <= counter + 1 \/ n \in chosen
<1>7. /\ \A p \in Requests : ~Idle(p) => Known(req[p].body.number)
      /\ \A v \in There : Known(docs[v].number)
  BY <1>4, <1>5, <1>6, NumbersTyped DEF Given
<1>8. q \in Work /\ q.steps \in SavePaths /\ CanSign(q) /\ q.id = u /\ q.body = b
  BY <1>2, NumberWrittenGood
<1>9. /\ \A p \in Requests : p # r => req'[p] = req[p]
      /\ \/ req'[r] = None
         \/ /\ req'[r].steps \notin NumberedPaths /\ req'[r].id = u /\ req'[r].body = b
      /\ \A v \in Ids : docs'[v] = docs[v] \/ (v = u /\ docs'[v].number = b.number)
  <2> HIDE DEF q
  <2> QED BY <1>1, <1>2, <1>3, <1>8, StoreDocMoves, LateNotNumbered
<1> HIDE DEF u, b, old, q
<1>10. \A p \in Requests : ~Numbering(p)'
  BY <1>5, <1>9 DEF Numbering, Idle
<1>11. \A p \in Requests : ~Idle(p)' => Given(req[p].body.number)'
  <2> SUFFICES ASSUME NEW p \in Requests, ~Idle(p)' PROVE Given(req[p].body.number)'
    OBVIOUS
  <2>1. CASE p = r
    BY <1>6, <1>9, <2>1 DEF Idle, Given
  <2>2. CASE p # r
    BY <1>1, <1>6, <1>7, <1>9, <2>2 DEF Idle, Given
  <2> QED BY <2>1, <2>2
<1>12. \A v \in There' : Given(docs[v].number)'
  BY <1>1, <1>6, <1>7, <1>9 DEF There, Given
<1>13. ASSUME NEW v \in Ids, NEW n, Owns(v, n)' PROVE Owns(v, n) /\ Known(n)
  <2>1. CASE v \in There' /\ docs'[v].number = n
    <3>1. CASE docs'[v] = docs[v]
      BY <1>7, <2>1, <3>1 DEF Owns, There
    <3>2. CASE v = u /\ docs'[v].number = b.number
      BY <1>2, <1>6, <2>1, <3>2 DEF Owns, u, b, old
    <3> QED BY <1>9, <3>1, <3>2
  <2>2. CASE \E p \in Requests : ~Idle(p)' /\ req'[p].id = v /\ req'[p].body.number = n
    <3>1. PICK p \in Requests : ~Idle(p)' /\ req'[p].id = v /\ req'[p].body.number = n
      BY <2>2
    <3>2. CASE p = r
      <4>1. u = v /\ b.number = n
        BY <1>9, <3>1, <3>2 DEF Idle
      <4> QED BY <1>2, <1>6, <4>1 DEF Owns, u, b, old
    <3>3. CASE p # r
      BY <1>7, <1>9, <3>1, <3>3 DEF Owns, Idle
    <3> QED BY <3>2, <3>3
  <2> QED BY <1>13, <2>1, <2>2 DEF Owns
<1>14. ASSUME NEW v \in Ids, NEW w \in Ids, NEW n \in Drawn', Owns(v, n)', Owns(w, n)'
       PROVE  v = w
  <2>1. Owns(v, n) /\ Owns(w, n) /\ Known(n) /\ n \in Nat \ {0} /\ n \notin chosen
    BY <1>1, <1>6, <1>13, <1>14 DEF Drawn
  <2>2. n \in Drawn
    BY <1>6, <2>1 DEF Drawn
  <2> QED BY <1>4, <2>1, <2>2
<1>15. \A v, w \in Ids : \A n \in Drawn' : Owns(v, n)' /\ Owns(w, n)' => v = w
  BY <1>14
<1> QED BY <1>10, <1>11, <1>12, <1>15 DEF NumberInv

\* The other steps of a request.
LEMMA MovedNumbers ==
    ASSUME Inv, NumberInv, NEW r \in Requests, ~Idle(r), req[r].steps \notin NumberedPaths, NEW q,
           \/ q = None
           \/ q.steps \notin NumberedPaths /\ q.id = req[r].id /\ q.body = req[r].body,
           req' = [req EXCEPT ![r] = q], UNCHANGED <<counter, raced, chosen>>,
           \A u \in Ids :
               docs'[u] = docs[u] \/ (u = req[r].id /\ docs'[u].number = req[r].body.number)
    PROVE  NumberInv'
<1>1. req'[r] = q /\ \A p \in Requests : p # r => req'[p] = req[p]
  BY DEF Inv, WorkInv
<1>2. \A p \in Requests : Same(p)
  BY <1>1 DEF Same
<1>3. \A u \in Ids : SameNumber(u)
  BY DEF SameNumber, Numbering
<1> QED BY <1>2, <1>3, SameNumbers

LEMMA StepNumbers ==
    ASSUME Inv, NumberInv, NEW r \in Requests, Save(r) \/ Spend(r) \/ Sign(r) \/ Drop(r)
    PROVE  NumberInv'
<1> DEFINE old == req[r]
<1>1. CASE Spend(r) \/ Sign(r)
  <2>1. /\ Asked(r, "spend") \/ Asked(r, "sign")
        /\ req' = [req EXCEPT ![r] = Onward(old)] /\ UNCHANGED <<docs, counter, raced, chosen>>
    BY <1>1 DEF Spend, Sign, Goes
  <2>2. ~Idle(r) /\ old \in Work /\ CanSign(old) /\ old.steps \in LatePaths
    BY <2>1, AskedGood DEF Inv
  <2>3. \/ Onward(old) = None
        \/ /\ Onward(old).steps \in LatePaths
           /\ Onward(old).body = old.body /\ Onward(old).id = old.id
    BY <2>2, OnwardGood
  <2> QED BY <2>1, <2>2, <2>3, LateNotNumbered, MovedNumbers
<1>3. CASE Save(r)
  <2>1. /\ Asked(r, "save") /\ old.body.number # 0 /\ StoreDoc(r, old)
        /\ UNCHANGED <<counter, raced, chosen>>
    BY <1>3 DEF Save
  <2>2. ~Idle(r) /\ old \in Work /\ CanSign(old) /\ old.steps \in SavePaths
    BY <2>1, AskedGood DEF Inv
  <2>3. \E q : req' = [req EXCEPT ![r] = q]
    BY <2>1 DEF StoreDoc
  <2>4. PICK q : req' = [req EXCEPT ![r] = q]
    BY <2>3
  <2>5. q = req'[r]
    BY <2>4 DEF Inv, WorkInv
  <2>6. /\ \/ q = None
           \/ q.steps \in LatePaths /\ q.id = old.id /\ q.body = old.body
        /\ \A v \in Ids : docs'[v] = docs[v] \/ (v = old.id /\ docs'[v].number = old.body.number)
    <3> HIDE DEF old
    <3>1. req'[r] = None \/ (req'[r].steps \in LatePaths /\ req'[r].id = req[r].id
                                 /\ req'[r].body = req[r].body)
      BY <2>1, <2>2, StoreDocMoves DEF old
    <3>2. \A v \in Ids : docs'[v] = docs[v] \/ (v = req[r].id /\ docs'[v].number = req[r].body.number)
      BY <2>1, <2>2, StoreDocMoves DEF old
    <3> QED BY <2>5, <3>1, <3>2 DEF old
  <2> QED BY <2>1, <2>2, <2>4, <2>6, LateNotNumbered, MovedNumbers
<1>2. CASE Drop(r)
  <2>1. Asked(r, "drop") /\ UNCHANGED <<docs, counter, codes, signed, raced, chosen, left>>
    BY <1>2 DEF Drop
  <2>2. PICK s \in old.drop : req' = [req EXCEPT ![r] = Dropped(old, s)]
    BY <1>2 DEF Drop
  <2>3. ~Idle(r) /\ old \in Work /\ old.steps \in LatePaths
    BY <2>1, AskedGood DEF Inv
  <2>4. \/ Dropped(old, s) = None
        \/ /\ Dropped(old, s).steps = old.steps
           /\ Dropped(old, s).id = old.id /\ Dropped(old, s).body = old.body
    BY <2>3 DEF Dropped, Work
  <2>5. \A u \in Ids : docs'[u] = docs[u]
    BY <2>1
  <2> QED BY <2>1, <2>2, <2>3, <2>4, <2>5, LateNotNumbered, MovedNumbers
<1> QED BY <1>1, <1>2, <1>3

LEMMA LogoutNumbers ==
    ASSUME Inv, NumberInv, NEW r \in Requests, Logout(r)
    PROVE  NumberInv'
<1>1. PICK s \in sessions, device \in Devices :
          LET drop == {t \in sessions : t.user = s.user /\ t.device = device} IN
          /\ Comes
          /\ Idle(r)
          /\ req' = [req EXCEPT ![r] = [op |-> "logout", id |-> s.user, body |-> EmptyBody,
                                        base |-> None, steps |-> <<"drop">>, key |-> None,
                                        role |-> None, device |-> device, drop |-> drop]]
          /\ UNCHANGED <<docs, counter, codes, sessions, signed, raced, chosen>>
  BY DEF Logout
<1> DEFINE q == [op |-> "logout", id |-> s.user, body |-> EmptyBody, base |-> None,
                 steps |-> <<"drop">>, key |-> None, role |-> None, device |-> device,
                 drop |-> {t \in sessions : t.user = s.user /\ t.device = device}]
<1>2. /\ req' = [req EXCEPT ![r] = q] /\ Idle(r)
      /\ UNCHANGED <<docs, counter, codes, sessions, signed, raced, chosen>>
  BY <1>1
<1>3. <<"drop">> \notin NumberedPaths
  BY LateNotNumbered DEF LatePaths
<1>4. q.steps = <<"drop">> /\ q.body.number = 0
  BY DEF EmptyBody
<1> HIDE DEF q
<1>5. req'[r] = q /\ \A p \in Requests : p # r => req'[p] = req[p]
  BY <1>2 DEF Inv, WorkInv
<1> SUFFICES ASSUME ~raced PROVE NumberInv'
  BY <1>2 DEF NumberInv
<1>6. /\ \A p, o \in Requests : Numbering(p) /\ Numbering(o) => p = o
      /\ \A p \in Requests : Numbering(p) => req[p].body.number = counter + 1
      /\ \A p \in Requests : ~Idle(p) /\ ~Numbering(p) => Given(req[p].body.number)
      /\ \A v \in There : Given(docs[v].number)
      /\ \A v, w \in Ids : \A n \in Drawn : Owns(v, n) /\ Owns(w, n) => v = w
  BY DEF NumberInv
<1>7. \A p \in Requests : Numbering(p)' => p # r /\ Numbering(p)
  BY <1>3, <1>4, <1>5 DEF Numbering, Idle
<1>8. \A p, o \in Requests : Numbering(p)' /\ Numbering(o)' => p = o
  BY <1>6, <1>7
<1>9. \A p \in Requests : Numbering(p)' => req'[p].body.number = counter' + 1
  BY <1>2, <1>5, <1>6, <1>7
<1>10. 0 <= counter
  BY NumbersTyped
<1>11. \A p \in Requests : ~Idle(p)' /\ ~Numbering(p)' => Given(req[p].body.number)'
  BY <1>2, <1>4, <1>5, <1>6, <1>10 DEF Numbering, Idle, Given
<1>12. \A v \in There' : Given(docs[v].number)'
  BY <1>2, <1>6 DEF There, Given
<1>13. ASSUME NEW v \in Ids, NEW n \in Drawn, Owns(v, n)' PROVE Owns(v, n)
  <2>1. CASE v \in There' /\ docs'[v].number = n
    BY <1>2, <2>1 DEF Owns, There
  <2>2. CASE \E p \in Requests : ~Idle(p)' /\ req'[p].id = v /\ req'[p].body.number = n
    <3>1. PICK p \in Requests : ~Idle(p)' /\ req'[p].id = v /\ req'[p].body.number = n
      BY <2>2
    <3>2. n # 0
      BY NumbersTyped DEF Drawn
    <3>3. p # r
      BY <1>4, <1>5, <3>1, <3>2
    <3> QED BY <1>5, <3>1, <3>3 DEF Owns, Idle
  <2> QED BY <1>13, <2>1, <2>2 DEF Owns
<1>14. \A v, w \in Ids : \A n \in Drawn' : Owns(v, n)' /\ Owns(w, n)' => v = w
  BY <1>2, <1>6, <1>13 DEF Drawn
<1> QED BY <1>8, <1>9, <1>11, <1>12, <1>14 DEF NumberInv

\* Where no request moves, or all of them are gone.
LEMMA QuietNumbers ==
    ASSUME Inv, NumberInv, UNCHANGED <<counter, raced, chosen>>,
           \A r \in Requests : req'[r] \in {req[r], None},
           \A u \in Ids : \/ docs'[u] = docs[u]
                          \/ docs[u] # None /\ docs'[u].number = docs[u].number
    PROVE  NumberInv'
<1>1. \A r \in Requests : Same(r)
  BY DEF Same
<1>2. \A u \in Ids : SameNumber(u)
  BY DEF SameNumber
<1> QED BY <1>1, <1>2, SameNumbers

LEMMA NextNumbers ==
    ASSUME Inv, NumberInv, [Next]_vars
    PROVE  NumberInv'
<1>1. CASE UserStep /\ UNCHANGED noticeVars
  <2>1. ASSUME NEW r \in Requests,
               \/ SignIn(r) \/ Verification(r) \/ Approval(r) \/ PasswordRequest(r)
               \/ UserRequest(r) \/ AllowUserManageOrders(r)
        PROVE  NumberInv'
    BY <1>1, <2>1, HandlerInv, HandlesNumbers, LogoutNumbers
  <2>2. CASE SendCode \/ CodeExpires
    <3>1. UNCHANGED <<docs, req, counter, raced, chosen>>
      BY <2>2 DEF SendCode, SendAddressCode, SendDeleteCode, CodeMailed, CodeExpires
    <3> QED BY <3>1, QuietNumbers
  <2>3. ASSUME NEW r \in Requests,
               \/ TakeNumber(r) \/ SaveNumbered(r) \/ Save(r) \/ Spend(r) \/ Sign(r) \/ Drop(r)
        PROVE  NumberInv'
    BY <2>3, TakeNumberNumbers, SaveNumberedNumbers, StepNumbers
  <2>4. CASE Restart
    <3>1. /\ UNCHANGED <<docs, counter, raced, chosen>>
          /\ \A r \in Requests : req'[r] = None
      BY <2>4 DEF Restart
    <3> QED BY <3>1, QuietNumbers
  <2> QED BY <1>1, <2>1, <2>2, <2>3, <2>4 DEF UserStep, HandlerStep
<1>2. CASE NoticeStep
  <2>1. ASSUME NEW u \in Ids, BalanceMoves(u) PROVE NumberInv'
    <3>1. UNCHANGED <<req, counter, raced, chosen>>
      BY <2>1 DEF BalanceMoves
    <3>2. \A v \in Ids : \/ docs'[v] = docs[v]
                         \/ docs[v] # None /\ docs'[v].number = docs[v].number
      <4> SUFFICES ASSUME NEW v \in Ids
                   PROVE  \/ docs'[v] = docs[v]
                          \/ docs[v] # None /\ docs'[v].number = docs[v].number
        OBVIOUS
      <4>1. CASE docs[v] # None
        BY <2>1, <4>1, BalanceInv
      <4>2. CASE docs[v] = None
        BY <2>1, <4>2, BalanceInv
      <4> QED BY <4>1, <4>2
    <3> QED BY <3>1, <3>2, QuietNumbers
  <2>2. CASE \/ CheckUserSubscriptionEnding \/ CheckUserSubscriptionEnded \/ OnDemand \/ MarkExpires
             \/ \E w \in Workers : WorkerStep(w)
    <3>1. UNCHANGED <<docs, req, counter, raced, chosen>>
      BY <2>2, MailsInv
    <3> QED BY <3>1, QuietNumbers
  <2> QED BY <1>2, <2>1, <2>2 DEF NoticeStep, WorkerStep
<1>3. CASE UNCHANGED vars
  <2>1. UNCHANGED <<docs, req, counter, raced, chosen>>
    BY <1>3 DEF vars, userVars
  <2> QED BY <2>1, QuietNumbers
<1> QED BY <1>1, <1>2, <1>3 DEF Next

LEMMA InitNumbers ==
    ASSUME Init
    PROVE  NumberInv
<1>1. /\ \A u, v \in There : u = v
      /\ \A u \in There : docs[u].number = 1
  BY InitInv
<1>2. counter = 1 /\ \A r \in Requests : Idle(r)
  BY DEF Init, Idle
<1>3. ASSUME NEW u \in Ids, NEW v \in Ids, NEW n, Owns(u, n), Owns(v, n) PROVE u = v
  <2>1. u \in There /\ v \in There
    BY <1>2, <1>3 DEF Owns
  <2> QED BY <1>1, <2>1
<1> QED BY <1>1, <1>2, <1>3 DEF NumberInv, Numbering, Given

\* As long as nobody reads the counter between another's reading and writing of it
\* (getNewPlatformId), two users have the same platform number only if the body of a request once
\* brought it to one who did not have it: a number that is drawn is counted before the document
\* with it is stored, and no document comes back with one that another drew.
THEOREM NumbersAreGivenOnce == Spec => []NumbersDiffer
<1>1. Init => Inv /\ NumberInv
  BY InitInv, InitNumbers
<1>2. (Inv /\ NumberInv) /\ [Next]_vars => (Inv /\ NumberInv)'
  BY NextInv, NextNumbers
<1>3. Inv /\ NumberInv => NumbersDiffer
  <2> SUFFICES ASSUME Inv, NumberInv, ~raced, NEW u \in There, NEW v \in There,
                      docs[u].number = docs[v].number, docs[u].number \notin chosen
               PROVE  u = v
    BY DEF NumbersDiffer
  <2> DEFINE n == docs[u].number
  <2>1. u \in Ids /\ v \in Ids /\ n # 0 /\ n \notin chosen
    BY DEF There, Inv, WorkInv
  <2>2. n \in Nat /\ n <= counter /\ counter \in Nat
    BY NumbersTyped DEF NumberInv, Given
  <2>3. n \in Drawn
    BY <2>1, <2>2 DEF Drawn
  <2>4. Owns(u, n) /\ Owns(v, n)
    BY DEF Owns
  <2> HIDE DEF n
  <2> QED BY <2>1, <2>3, <2>4 DEF NumberInv
<1> QED BY <1>1, <1>2, <1>3, PTL DEF Spec

-----------------------------------------------------------------------------
(* What a handler changes *)

ChangesOwn ==
    \A r \in Requests, u \in There :
        Writes(r, u) /\ req[r].base = docs[u] =>
            \A f \in Fields \ Own(req[r].op, req[r].body) : docs'[u][f] = docs[u][f]

\* Only the two stores change a document, each that of its own request.
LEMMA WritesStore ==
    ASSUME Inv, [Next]_vars, NEW r \in Requests, NEW u \in There, Writes(r, u)
    PROVE  /\ Save(r) \/ SaveNumbered(r)
           /\ req[r].id = u /\ docs'[u] = Complete(docs[u], req[r].body)
<1>1. ~Idle(r) /\ req[r].id = u /\ req'[r] # req[r] /\ docs'[u] # docs[u] /\ u \in Ids
  BY DEF Writes, There
<1>2. CASE UserStep /\ UNCHANGED noticeVars
  <2>1. ASSUME NEW p \in Requests,
               \/ SignIn(p) \/ Verification(p) \/ Approval(p) \/ PasswordRequest(p)
               \/ UserRequest(p) \/ AllowUserManageOrders(p)
        PROVE  UNCHANGED docs
    BY <1>2, <2>1, HandlerInv DEF Handles, Takes, Logout
  <2>2. CASE SendCode \/ CodeExpires \/ Restart
    BY <1>1, <2>2 DEF SendCode, SendAddressCode, SendDeleteCode, CodeMailed, CodeExpires, Restart
  <2>3. ASSUME NEW p \in Requests, TakeNumber(p) \/ Spend(p) \/ Sign(p) \/ Drop(p)
        PROVE  UNCHANGED docs
    BY <2>3 DEF TakeNumber, Spend, Sign, Drop
  <2>4. ASSUME NEW p \in Requests, Save(p) \/ SaveNumbered(p)
        PROVE  p = r /\ docs'[u] = Complete(docs[u], req[r].body)
    <3>1. \E q : req' = [req EXCEPT ![p] = q]
      BY <2>4 DEF Save, SaveNumbered, StoreDoc
    <3>2. p = r
      BY <1>1, <3>1 DEF Inv, WorkInv
    <3>3. docs' = docs \/ docs' = [docs EXCEPT ![req[p].id] = Complete(@, req[p].body)]
      BY <2>4 DEF Save, SaveNumbered, StoreDoc
    <3>4. docs' = [docs EXCEPT ![u] = Complete(@, req[r].body)]
      BY <1>1, <3>2, <3>3
    <3> QED BY <1>1, <3>2, <3>4 DEF Inv, TypeOK
  <2> QED BY <1>1, <1>2, <2>1, <2>2, <2>3, <2>4 DEF UserStep, HandlerStep
<1>3. CASE NoticeStep
  <2>1. UNCHANGED req
    BY <1>3, MailsInv DEF NoticeStep, WorkerStep, BalanceMoves
  <2> QED BY <1>1, <2>1
<1>4. CASE UNCHANGED vars
  BY <1>1, <1>4 DEF vars, userVars
<1> QED BY <1>2, <1>3, <1>4 DEF Next

LEMMA NextChangesOwn ==
    ASSUME Inv, [Next]_vars
    PROVE  ChangesOwn
<1> SUFFICES ASSUME NEW r \in Requests, NEW u \in There, Writes(r, u), req[r].base = docs[u],
                    NEW f \in Fields \ Own(req[r].op, req[r].body)
             PROVE  docs'[u][f] = docs[u][f]
  BY DEF ChangesOwn
<1>1. (Save(r) \/ SaveNumbered(r)) /\ req[r].id = u /\ docs'[u] = Complete(docs[u], req[r].body)
  BY WritesStore
<1>2. docs[u] # None
  BY DEF There
<1>3. Asked(r, "save") \/ Asked(r, "numbered")
  BY <1>1 DEF Save, SaveNumbered
<1>4. Good(req[r]) /\ Saves(req[r].steps)
  BY <1>1, <1>3, AskedGood DEF Inv, Saves
<1>5. Faithful(req[r].op, docs[u], req[r].body)
  BY <1>2, <1>4 DEF Good
<1>6. Complete(docs[u], req[r].body) = Stored(docs[u], req[r].body)
  BY <1>2 DEF Complete
<1> QED BY <1>1, <1>5, <1>6 DEF Faithful

\* A handler that nobody overtook changes nothing but what it is there to change - one that edits a
\* document what its body says, and the four fields that are not merged: setUser() fills in what
\* the copy lacks - the login's copy has no password - from the document it replaces.
THEOREM HandlersChangeTheirOwn == Spec => ChangesOnlyItsOwn
<1>1. Init => Inv
  BY InitInv
<1>2. Inv /\ [Next]_vars => Inv'
  BY NextInv
<1>3. Inv /\ [Next]_vars => [ChangesOwn]_vars
  BY NextChangesOwn
<1>4. Spec => [][ChangesOwn]_vars
  BY <1>1, <1>2, <1>3, PTL DEF Spec
<1> QED BY <1>4 DEF ChangesOnlyItsOwn, ChangesOwn
=============================================================================
