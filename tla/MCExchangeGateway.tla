-------------------------- MODULE MCExchangeGateway --------------------------
(* Small instances of ExchangeGateway for TLC. *)
EXTENDS ExchangeGateway, TLC

Writing == Calls \union {Checker, Refresher}

CONSTANTS k1, k2

\* Nothing on exchanges; an empty list; keys with a verdict, and keys without a status.
SentBodies ==
    LET Entry(k, status) == [NewDoc EXCEPT !.exchanges = "there", !.keys = k, !.status = status]
    IN  {NewDoc, [NewDoc EXCEPT !.exchanges = "empty"],
         Entry(k1, "active"), Entry(k1, "broken"), Entry(k2, None)}
=============================================================================
