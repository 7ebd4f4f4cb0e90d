------------------------------- MODULE Quotes -------------------------------
(***************************************************************************)
(* QuoteService on the clock, on top of getRates: a quote states when it   *)
(* expires, its key in Redis has a TTL in whole seconds that starts later, *)
(* and a quote taken by a stranger is put back under what is left of it,   *)
(* rounded up. Nothing compares expiresAt when a quote is redeemed.        *)
(***************************************************************************)
EXTENDS Rates

CONSTANTS
  Owner, Stranger,  \* the user quotes are issued to, and any other
  TicksPerSecond,
  QuoteTTL          \* FX_QUOTE_TTL_SECONDS, in seconds

ASSUME QuotesAssumption ==
  /\ TicksPerSecond \in Nat \ {0} /\ QuoteTTL \in Nat \ {0}
  /\ Owner # Stranger

VARIABLES
  \* of each handler: one createQuote or one consumeQuote
  at,
  waiting,     \* since when it waits at its await; 0 when it does not
  target,      \* the user who asks and the quote it is about
  \* of each quote; its id is the handler that issues it
  expires,     \* expiresAt, which the client is shown; NoTime before
  deadline,    \* when the key fx:quote:<id> expires; 0 once it is deleted
  redeemedAt   \* when it was in Redis for the owner to take; NoTime before

quoteVars == <<at, waiting, target, expires, deadline, redeemedAt>>
vars == <<ratesVars, quoteVars>>
untouched == <<now, caller, fresh, fallback>>  \* by an action here that may fail

NoTime == -1
QuoteEnded == {"idle", "done", "failed", "crashed"}
Redeeming == {"getdel", "get", "del", "restore"}
Lifetime == QuoteTTL * TicksPerSecond

\* A handler that waits for its own call of getRates is timed there.
Active(p) == at[p] \notin QuoteEnded \cup {"rates"}

Init ==
  /\ RatesInit
  /\ at = [p \in Callers |-> "idle"]
  /\ waiting = [p \in Callers |-> 0]
  /\ target = [p \in Callers |-> [user |-> Owner, quote |-> p]]
  /\ expires = [p \in Callers |-> NoTime]
  /\ deadline = [p \in Callers |-> 0]
  /\ redeemedAt = [p \in Callers |-> NoTime]

Reach(p, l) ==
  /\ at' = [at EXCEPT ![p] = l]
  /\ waiting' = [waiting EXCEPT ![p] = IF l \in QuoteEnded THEN 0 ELSE now]

----------------------------------------------------------------------------
(* createQuote. *)

\* What validation refuses changes nothing; the rest asks for rates.
AskQuote(p) ==
  /\ at[p] = "idle"
  /\ Reach(p, "rates") /\ CallGetRates(p)
  /\ UNCHANGED <<target, expires, deadline, redeemedAt>>

\* Seeded bug: an answer without rates is not looked for.
PriceQuoteBlindly(p) ==
  /\ at[p] = "rates" /\ pc[p] = "done"
  /\ expires' = [expires EXCEPT ![p] = now + Lifetime]
  /\ Reach(p, "set")
  /\ UNCHANGED <<ratesVars, target, deadline, redeemedAt>>

\* The price is fixed, and expiresAt computed, before the key is set. No rates, a
\* missing one or an amount too small to pay anything end the request, as does one
\* for the rates alone.
PriceQuote(p) ==
  /\ at[p] = "rates" /\ pc[p] = "done"
  /\ \/ /\ answer[p].rates # NoRates
        /\ expires' = [expires EXCEPT ![p] = now + Lifetime]
        /\ Reach(p, "set")
     \/ Reach(p, "failed") /\ UNCHANGED expires
  /\ UNCHANGED <<ratesVars, target, deadline, redeemedAt>>

\* SET ... EX ttlSeconds: the key may outlive expiresAt by the time this took.
SetQuote(p) ==
  LET Stored == deadline' = [deadline EXCEPT ![p] = now + Lifetime] IN
  /\ at[p] = "set"
  /\ \/ Stored /\ Reach(p, "done") /\ UNCHANGED faults
     \/ Fault("redis") /\ (Stored \/ UNCHANGED deadline) /\ Reach(p, "failed")
  /\ UNCHANGED <<untouched, target, expires, redeemedAt>>

----------------------------------------------------------------------------
(* consumeQuote. *)

Q(p) == target[p].quote
Held(q) == now < deadline[q]
Delete(q) == deadline' = [deadline EXCEPT ![q] = 0]

\* A client redeems a quote that has been issued.
Redeem(p) ==
  /\ at[p] = "idle"
  /\ \E q \in Callers, u \in {Owner, Stranger} :
       /\ at[q] = "done" /\ expires[q] # NoTime
       /\ target' = [target EXCEPT ![p] = [user |-> u, quote |-> q]]
  /\ Reach(p, "getdel")
  /\ UNCHANGED <<ratesVars, expires, deadline, redeemedAt>>

\* What was read at time t is the owner's to use; a stranger's goes back.
TakeUp(p, t) ==
  \/ /\ target[p].user = Owner
     /\ redeemedAt' = [redeemedAt EXCEPT ![Q(p)] = t]
     /\ Reach(p, "done")
  \/ target[p].user # Owner /\ Reach(p, "restore") /\ UNCHANGED redeemedAt

\* A key that has expired or was redeemed yields null.
Getdel(p) ==
  /\ at[p] = "getdel"
  /\ \/ ~Held(Q(p)) /\ Reach(p, "done") /\ UNCHANGED <<deadline, redeemedAt>>
     \/ Held(Q(p)) /\ Delete(Q(p)) /\ TakeUp(p, now)
  /\ UNCHANGED <<ratesVars, target, expires>>

\* GETDEL is unknown to the driver, or fails with or without effect: GET and DEL follow.
\* A handler on which GETDEL has failed ends "failed" unless it finds the quote.
GetdelFails(p) ==
  /\ at[p] = "getdel"
  /\ \/ "getdel" \in Faults /\ UNCHANGED <<deadline, faults>>
     \/ Fault("redis") /\ (Delete(Q(p)) \/ UNCHANGED deadline)
  /\ Reach(p, "get")
  /\ UNCHANGED <<untouched, target, expires, redeemedAt>>

Get(p) ==
  /\ at[p] = "get"
  /\ Reach(p, IF Held(Q(p)) THEN "del" ELSE "failed")
  /\ UNCHANGED <<ratesVars, target, expires, deadline, redeemedAt>>

Del(p) ==
  /\ at[p] = "del"
  /\ Delete(Q(p)) /\ TakeUp(p, waiting[p])
  /\ UNCHANGED <<ratesVars, target, expires>>

\* GET or DEL fails too.
ConsumeFails(p) ==
  /\ at[p] \in {"get", "del"} /\ Fault("redis")
  /\ (at[p] = "del" /\ Delete(Q(p))) \/ UNCHANGED deadline
  /\ Reach(p, "failed")
  /\ UNCHANGED <<untouched, target, expires, redeemedAt>>

\* Seeded bug: Math.floor.
RemainingFloored(q, t) == (expires[q] - t) \div TicksPerSecond

\* What is left of the quote at time t, in seconds rounded up.
Remaining(q, t) ==
  (expires[q] - t + TicksPerSecond - 1) \div TicksPerSecond

\* Seeded bug: the quote is put back under a full TTL.
RestoreInFull(p) ==
  /\ at[p] = "restore"
  /\ deadline' = [deadline EXCEPT ![Q(p)] = now + Lifetime]
  /\ Reach(p, "done")
  /\ UNCHANGED <<ratesVars, target, expires, redeemedAt>>

\* The remaining time is taken from the clock at some moment since the reply to the
\* read, and counts from when SET arrives. A failure is logged: "failed" is then the
\* fate of the quote, the caller is told null as ever.
Restore(p) ==
  /\ at[p] = "restore"
  /\ \E t \in waiting[p]..now :
       LET n == Remaining(Q(p), t)
           Stored == deadline' = [deadline EXCEPT ![Q(p)] = now + n * TicksPerSecond] IN
       \/ n <= 0 /\ Reach(p, "done") /\ UNCHANGED <<deadline, faults>>
       \/ n > 0 /\ Stored /\ Reach(p, "done") /\ UNCHANGED faults
       \/ n > 0 /\ Fault("redis") /\ (Stored \/ UNCHANGED deadline) /\ Reach(p, "failed")
  /\ UNCHANGED <<untouched, target, expires, redeemedAt>>

CrashHandler(p) ==
  /\ Active(p) /\ Fault("crash")
  /\ Reach(p, "crashed")
  /\ UNCHANGED <<untouched, target, expires, deadline, redeemedAt>>

\* Time passes, but neither an await here nor one of getRates outlasts Latency, and
\* the price is fixed as soon as the rates are there.
Tick ==
  /\ \A p \in Callers :
       /\ Active(p) => now - waiting[p] < Latency
       /\ ~(at[p] = "rates" /\ pc[p] = "done")
  /\ RatesTick
  /\ UNCHANGED quoteVars

----------------------------------------------------------------------------
CreateQuote(p) == AskQuote(p) \/ PriceQuote(p) \/ SetQuote(p)
ConsumeQuote(p) ==
  Redeem(p) \/ Getdel(p) \/ GetdelFails(p) \/ Get(p) \/ Del(p) \/ ConsumeFails(p)
    \/ Restore(p)

Next ==
  \/ \E p \in Callers :
       \/ GetRates(p) /\ UNCHANGED quoteVars
       \/ CreateQuote(p) \/ ConsumeQuote(p) \/ CrashHandler(p)
  \/ Tick

Spec == Init /\ [][Next]_vars

----------------------------------------------------------------------------
(* Properties. *)

\* Every variable has the type its key or local has, and a quote was priced with rates.
TypeOK ==
  /\ RatesTypeOK
  /\ at \in [Callers -> QuoteEnded \cup {"rates", "set"} \cup Redeeming]
  /\ waiting \in [Callers -> Times]
  /\ target \in [Callers -> [user : {Owner, Stranger}, quote : Callers]]
  /\ expires \in [Callers -> Nat \cup {NoTime}]
  /\ deadline \in [Callers -> Nat]
  /\ redeemedAt \in [Callers -> Times \cup {NoTime}]
  /\ \A p \in Callers : expires[p] # NoTime => answer[p].rates # NoRates

\* "The quote is binding for `ttlSeconds` -- after that the user must request a new
\* one": it may be redeemed late by what rounding up to a second and one slow command
\* add, and never by more, however often it is taken and put back.
RedeemedSoonAfterExpiry ==
  \A q \in Callers :
    redeemedAt[q] # NoTime =>
      redeemedAt[q] < expires[q] + TicksPerSecond - 1 + Latency

\* Nobody but its owner uses a quote up: until it expires an issued quote is in Redis,
\* redeemed, in the hands of a stranger who will put it back, or lost to a failure.
QuoteLastsUntilExpiry ==
  \A q \in Callers :
    at[q] = "done" /\ expires[q] # NoTime /\ now < expires[q] =>
      \/ Held(q) \/ redeemedAt[q] # NoTime
      \/ \E p \in Callers :
           Q(p) = q /\ p # q /\ at[p] \in {"get", "del", "restore", "failed", "crashed"}
=============================================================================
