------------------------------- MODULE Ledger -------------------------------
(***************************************************************************)
(* What the exchange promises its clients, with no locks, transactions or  *)
(* failures: a request is asked, is booked at most once per user and       *)
(* idempotency key in one atomic double-entry posting, and is answered in  *)
(* agreement with the book.                                                *)
(***************************************************************************)
EXTENDS Bookkeeping

VARIABLES
  bal,      \* the balance of every account
  journal,  \* the postings made
  asked,    \* the request of every attempt
  answer    \* the answer the client of every attempt received

vars == <<bal, journal, asked, answer>>

Booked(u, k) == \E j \in journal : j.user = u /\ j.key = k
BookedBy(p) == \E j \in journal : j.by = p

Init ==
  /\ bal = Opening
  /\ journal = {}
  /\ asked = [p \in Procs |-> None]
  /\ answer = [p \in Procs |-> "none"]

Ask(p) ==
  /\ asked[p] = None
  /\ \E r \in Requests : asked' = [asked EXCEPT ![p] = r]
  /\ UNCHANGED <<bal, journal, answer>>

\* One posting moves money between the user and the house, once per key, once per
\* quote, and overdraws nobody.
Post(p) ==
  LET r == asked[p] IN
  /\ r # None
  /\ answer[p] = "none"
  /\ Valid(r)
  /\ ~Booked(r.user, r.key)
  /\ r.op = "trade" => /\ QuoteBook[r.quote].user = r.user
                       /\ \A j \in journal : j.op = "trade" => j.quote # r.quote
  /\ \E t \in TermsOf(r) :
       /\ \A a \in Accounts : bal[a] + Delta(r.user, t, a) >= 0
       /\ bal' = [a \in Accounts |-> bal[a] + Delta(r.user, t, a)]
       /\ journal' = journal \cup {Entry(p, r, t)}
  /\ UNCHANGED <<asked, answer>>

\* "ok" only with the attempt's own posting, "replay" only when the key was booked,
\* a refusal only when the attempt moved nothing. "failed" leaves the client in doubt.
Justified(p, o) ==
  LET r == asked[p] IN
  CASE o = "ok" -> r.op = "get" \/ BookedBy(p)
    [] o = "replay" -> Booked(r.user, r.key)
    [] o \in Refusals -> ~BookedBy(p)
    [] OTHER -> TRUE

Answer(p) ==
  /\ asked[p] # None
  /\ answer[p] = "none"
  /\ \E o \in Answers :
       /\ Justified(p, o)
       /\ answer' = [answer EXCEPT ![p] = o]
  /\ UNCHANGED <<bal, journal, asked>>

Next == \E p \in Procs : Ask(p) \/ Post(p) \/ Answer(p)

Spec == Init /\ [][Next]_vars
=============================================================================
