------------------------------ MODULE MCAccess ------------------------------
(* A small instance of Access for TLC. *)
EXTENDS Access, TLC

CONSTANTS e1, e2, p1

\* Bodies that say one thing each, and one that is enough for a new user.
SentBodies ==
    {EmptyBody, [EmptyBody EXCEPT !.email = e2, !.approved = FALSE]}
        \union {[EmptyBody EXCEPT !.email = e1], [EmptyBody EXCEPT !.password = p1],
                [EmptyBody EXCEPT !.roles = {"admin"}], [EmptyBody EXCEPT !.manage = TRUE],
                [EmptyBody EXCEPT !.bought = TRUE], [EmptyBody EXCEPT !.deleted = TRUE],
                [EmptyBody EXCEPT !.approved = TRUE, !.number = 1]}
        \union {[EmptyBody EXCEPT !.verified = v] : v \in BOOLEAN}
=============================================================================
