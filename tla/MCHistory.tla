------------------------------ MODULE MCHistory ------------------------------
(* A small instance of History: fundings and trades, all of them or one currency. *)
EXTENDS History

CONSTANT walk1

Leg(c, t) == [currency |-> c, type |-> t]
Legs(c) == {Leg(c, "CREDIT"), Leg(c, "DEBIT")}  \* the user's and the house's
Funding == [user |-> "user", purpose |-> "FUNDING", legs |-> Legs("NGN")]
Trade == [user |-> "user", purpose |-> "TRADE", legs |-> Legs("NGN") \cup Legs("USD")]

MCPostings == {Funding, Trade}
MCQueries ==
  { [user |-> "user", currency |-> c, type |-> Any, purpose |-> Any] : c \in {Any, "USD"} }
=============================================================================
