----------------------------- MODULE OrderLife -----------------------------
(***************************************************************************)
(* What opening an order promises, without semaphores, pauses, jobs or     *)
(* stale writes: the status machine of ORDER_STATUS up to OPENED, with the *)
(* purchase on the exchange between WAIT_OPEN and OPENED.  Some orders run *)
(* into trouble, several at a time; of these nothing is promised any more. *)
(***************************************************************************)
CONSTANT Orders
VARIABLE life

Lives == {"none", "waiting", "bought", "opened", "cancelled", "troubled"}

Init == life = [o \in Orders |-> "none"]

Move(o, from, to) ==
    /\ life[o] = from
    /\ life' = [life EXCEPT ![o] = to]

Create(o) == Move(o, "none", "waiting")
Buy(o)    == Move(o, "waiting", "bought")
Open(o)   == Move(o, "bought", "opened")
Cancel(o) == Move(o, "waiting", "cancelled")

Trouble(orders) ==
    life' = [o \in Orders |-> IF o \in orders THEN "troubled" ELSE life[o]]

Next ==
    \/ \E o \in Orders : Create(o) \/ Buy(o) \/ Open(o) \/ Cancel(o)
    \/ \E orders \in SUBSET Orders : Trouble(orders)

Spec == Init /\ [][Next]_life

=============================================================================
