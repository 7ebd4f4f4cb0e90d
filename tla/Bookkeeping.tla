---------------------------- MODULE Bookkeeping ----------------------------
(***************************************************************************)
(* The vocabulary shared by the abstract ledger and by the wallet service: *)
(* accounts, client requests, the money terms of one operation, and the    *)
(* double-entry legs they stand for.                                       *)
(***************************************************************************)
EXTENDS Integers, FiniteSets, FiniteSetsExt

CONSTANTS
  Users,       \* the owners of user wallets
  House,       \* HOUSE_USER_ID, the counterparty of every operation
  Currencies,  \* the supported currencies
  Keys,        \* idempotency keys
  Procs,       \* request attempts: one handler invocation each
  None,        \* null
  Requests,    \* the requests clients send
  QuoteBook,   \* the quotes issued: quote id -> [user, terms]
  Converted,   \* what a conversion may yield at the rates of the moment
  Opening      \* balances when the run starts, the outcome of earlier traffic

Ops == {"get", "fund", "convert", "trade"}
Quotes == DOMAIN QuoteBook

\* What one operation moves: the user gives `in` of `from` and gets `out` of `to`.
\* A funding has no `from` side.
Terms == [from : Currencies \cup {None}, to : Currencies \cup {None}, in : Nat, out : Nat]
NoTerms == [from |-> None, to |-> None, in |-> 0, out |-> 0]

Request == [op : Ops, user : Users, key : Keys \cup {None},
            from : Currencies \cup {None}, to : Currencies \cup {None},
            amount : Nat, quote : Quotes \cup {None}]

\* One balance row per wallet and currency, the house wallet included.
Accounts == (Users \cup {House}) \X Currencies

ASSUME NamesAssumption ==
  /\ House \notin Users /\ None \notin Users
  /\ None \notin Currencies /\ None \notin Procs /\ None \notin Keys
  /\ None \notin Quotes /\ None \notin Requests

\* What the DTOs guarantee of each request.
ASSUME RequestsAssumption ==
  \A r \in Requests :
    /\ r \in Request
    /\ r.op # "get" => r.key \in Keys
    /\ r.op = "fund" => r.to \in Currencies
    /\ r.op = "convert" => r.from \in Currencies /\ r.to \in Currencies
    /\ r.op = "trade" => r.quote \in Quotes

ASSUME ConvertedAssumption == Converted \subseteq Nat
ASSUME OpeningAssumption == Opening \in [Accounts -> Nat]

\* createQuote only issues quotes between two currencies, for positive amounts.
ASSUME QuotesAssumption ==
  \A q \in Quotes :
    /\ QuoteBook[q].user \in Users
    /\ QuoteBook[q].terms \in Terms
    /\ QuoteBook[q].terms.from \in Currencies
    /\ QuoteBook[q].terms.to \in Currencies
    /\ QuoteBook[q].terms.from # QuoteBook[q].terms.to
    /\ QuoteBook[q].terms.in > 0 /\ QuoteBook[q].terms.out > 0

\* A request the handlers accept: two different currencies, a positive amount.
Valid(r) ==
  /\ r.op \in {"fund", "convert"} => r.amount > 0
  /\ r.op = "convert" => r.from # r.to

\* The terms a valid request can be booked at. Only a conversion's depend on the rates.
TermsOf(r) ==
  CASE r.op = "fund" -> {[from |-> None, to |-> r.to, in |-> 0, out |-> r.amount]}
    [] r.op = "convert" ->
         {[from |-> r.from, to |-> r.to, in |-> r.amount, out |-> x]
            : x \in Converted \ {0}}
    [] r.op = "trade" -> {QuoteBook[r.quote].terms}
    [] OTHER -> {}

\* Seeded bug: the house legs are forgotten.
DeltaWithoutHouse(u, t, a) ==
  CASE a = <<u, t.from>> -> -t.in
    [] a = <<u, t.to>> -> t.out
    [] OTHER -> 0

\* The double-entry legs of an operation of user u at terms t: what each account
\* gains. The house takes the other side of both of the user's legs.
Delta(u, t, a) ==
  CASE a = <<u, t.from>> -> -t.in
    [] a = <<House, t.from>> -> t.in
    [] a = <<u, t.to>> -> t.out
    [] a = <<House, t.to>> -> -t.out
    [] OTHER -> 0

\* The accounts an operation locks and updates.
Touched(u, t) == {u, House} \X ({t.from, t.to} \ {None})

JournalEntry == [by : Procs, user : Users, key : Keys, op : Ops,
                 quote : Quotes \cup {None}, terms : Terms]

\* Seeded bug: the journal is booked to the owner of the house legs.
EntryOfHouse(p, r, t) ==
  [by |-> p, user |-> House, key |-> r.key, op |-> r.op, quote |-> r.quote, terms |-> t]

Entry(p, r, t) ==
  [by |-> p, user |-> r.user, key |-> r.key, op |-> r.op, quote |-> r.quote, terms |-> t]

Refusals == {"invalid", "insufficient", "exhausted", "tooSmall", "noRates", "quoteGone",
             "busy"}
Answers == {"ok", "replay", "failed"} \cup Refusals
=============================================================================
