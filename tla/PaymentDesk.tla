---------------------------- MODULE PaymentDesk ----------------------------
(***************************************************************************)
(* The papers of the money that comes in and goes out, in MongoDB: payments *)
(* (WalletDeposits), requests for a payout (WalletWithdrawals) and the      *)
(* profiles a payout goes to (WithdrawalsProfile).  Each request of the API *)
(* is one call of the database; Account adds the payments themselves.       *)
(***************************************************************************)
EXTENDS Integers, Sequences

CONSTANTS Users, Sums, MaxRequests

VARIABLES
    payments,        \* sequence of [user, sum, status, deleted]
    payouts,         \* the same
    profiles,        \* sequence of [user, status]
    left             \* requests still to come (bound)

deskVars == <<payments, payouts, profiles>>

PaymentStatus == {"pending", "paid", "rejected", "cancelled"}

PayoutStatus == {"pending", "approved", "rejected", "cancelled", "paid"}

ProfileStatus == {"ACTIVE", "INACTIVE", "PENDING", "DELETED"}

DeskInit ==
    /\ payments = <<>> /\ payouts = <<>> /\ profiles = <<>>
    /\ left = MaxRequests

UserPayment == [user : Users, sum : Nat, status : PaymentStatus, deleted : BOOLEAN]

PayoutProfile == [user : Users, status : ProfileStatus]

DeskTypeOK ==
    /\ payments \in Seq(UserPayment)
    /\ payouts \in Seq([user : Users, sum : Int, status : PayoutStatus, deleted : BOOLEAN])
    /\ profiles \in Seq(PayoutProfile)
    /\ left \in 0..MaxRequests

Comes == left > 0 /\ left' = left - 1

-----------------------------------------------------------------------------
(* Payments *)

\* addPayment(): recorded as paid, whatever the provider says.
Recorded(u, sum) == Append(payments, [user |-> u, sum |-> sum, status |-> "paid", deleted |-> FALSE])

\* The filter names the request and the user, so only the own payment is found.
SetPayment(i, status) == payments' = [payments EXCEPT ![i].status = status]

CancelPaymentRequest == \E i \in DOMAIN payments :
    Comes /\ SetPayment(i, "cancelled") /\ UNCHANGED <<payouts, profiles>>

ChangePaymentRequestStatus == \E i \in DOMAIN payments, status \in PaymentStatus :
    Comes /\ SetPayment(i, status) /\ UNCHANGED <<payouts, profiles>>

\* A deleted payment is only marked; no list shows it any more.
DeletePaymentRequest == \E i \in DOMAIN payments :
    /\ Comes
    /\ payments' = [payments EXCEPT ![i].deleted = TRUE]
    /\ UNCHANGED <<payouts, profiles>>

\* getPaymentsList()
Listed(u) == {i \in DOMAIN payments : payments[i].user = u /\ ~payments[i].deleted}

-----------------------------------------------------------------------------
(* Payouts.  No balance and no sum is looked at, and no balance is changed. *)

AddPayoutRequest == \E u \in Users, sum \in Sums :
    /\ Comes
    /\ payouts' = Append(payouts,
                         [user |-> u, sum |-> sum, status |-> "pending", deleted |-> FALSE])
    /\ UNCHANGED <<payments, profiles>>

\* updateOne() of MongodbService puts its data under $set, and the three updates of a payout
\* bring a $set of their own: MongoDB refuses the field and the request answers its error.
Refused == Comes /\ payouts # <<>> /\ UNCHANGED deskVars

CancelPayoutRequest == Refused

ChangePayoutRequestStatus == Refused

DeletePayoutRequest == Refused

-----------------------------------------------------------------------------
(* Payout profiles *)

AddPayoutProfile == \E u \in Users :
    /\ Comes
    /\ profiles' = Append(profiles, [user |-> u, status |-> "PENDING"])
    /\ UNCHANGED <<payments, payouts>>

\* The caller's own profile; any status may be asked for, PENDING when none is.
ChangePayoutProfile == \E i \in DOMAIN profiles, status \in ProfileStatus :
    /\ Comes
    /\ profiles' = [profiles EXCEPT ![i].status = status]
    /\ UNCHANGED <<payments, payouts>>

PaymentRequest == CancelPaymentRequest \/ DeletePaymentRequest \/ ChangePaymentRequestStatus

PayoutRequest ==
    AddPayoutRequest \/ CancelPayoutRequest \/ DeletePayoutRequest \/ ChangePayoutRequestStatus

ProfileRequest == AddPayoutProfile \/ ChangePayoutProfile

DeskNext == PaymentRequest \/ PayoutRequest \/ ProfileRequest
=============================================================================
