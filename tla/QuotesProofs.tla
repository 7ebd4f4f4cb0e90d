---------------------------- MODULE QuotesProofs ----------------------------
(***************************************************************************)
(* What TLAPS proves of Quotes and of the Rates under it, for any callers, *)
(* TTLs, latencies, clocks and failures.                                   *)
(***************************************************************************)
EXTENDS Quotes, TLAPS

USE RatesAssumption, QuotesAssumption DEF caller, ratesVars, quoteVars, untouched, vars

----------------------------------------------------------------------------
(* The rates. *)

\* An await lasts as long as Latency at most; what it holds meanwhile ages with it.
CallOK(p) ==
  /\ Waiting(p) => since[p] <= now /\ now - since[p] <= Latency
  /\ answer[p].rates <= now
  /\ pc[p] = "setFresh" => answer[p].rates = since[p]
  /\ pc[p] = "setFallback" =>
       answer[p].rates # NoRates /\ since[p] - answer[p].rates <= Latency
  /\ Answered(p, "provider") =>
       fallback # NoRates /\ fallback >= answer[p].rates - 2 * Latency

RatesInv ==
  /\ RatesTypeOK
  /\ fresh.rates <= now /\ fallback <= now
  /\ fresh.rates # NoRates => fresh.until - fresh.rates <= FreshTTL + Latency
  /\ \A p \in Callers : CallOK(p)

\* What the quotes do besides calling getRates: a failure may be theirs.
Aside == UNCHANGED <<now, caller, fresh, fallback>> /\ faults' \in 0..MaxFaults

\* No key, no call: nothing is known, and nothing claimed.
LEMMA RatesInvStarts == RatesInit => RatesInv
BY DEF RatesInit, RatesInv, RatesTypeOK, CallOK, Waiting, RatesEnded, Answered, Times, NoRates

\* Every call of getRates but the caller's own keeps what it knows.
LEMMA CallKeepsTypes ==
  ASSUME RatesTypeOK, NEW p \in Callers, CallGetRates(p) \/ GetRates(p)
  PROVE  RatesTypeOK'
<1> USE DEF RatesTypeOK, CallGetRates, GetRates, GetFresh, Fetch, FetchRetried, FetchFails,
            SetFresh, SetFallback, GetFallback, CrashCaller, Go, Return
<1>1. now' = now /\ now \in Times /\ now \in Nat
  BY DEF Times
<1>2. faults' \in 0..MaxFaults
  BY DEF Fault
<1>3. tries' \in [Callers -> 0..MaxRetries]
  <2>1. tries[p] \in 0..MaxRetries
    OBVIOUS
  <2>2. tries[p] < MaxRetries => tries[p] + 1 \in 0..MaxRetries
    BY <2>1
  <2> QED BY <2>2
<1>4. /\ pc' \in [Callers -> RatesEnded \cup
               {"getFresh", "fetch", "setFresh", "setFallback", "getFallback"}]
      /\ since' \in [Callers -> Times]
  <2>1. 0 \in Times
    BY DEF Times
  <2>2. PICK l : Go(p, l) /\ l \in RatesEnded \cup
                  {"getFresh", "fetch", "setFresh", "setFallback", "getFallback"}
    BY DEF RatesEnded
  <2>3. pc' = [pc EXCEPT ![p] = l]
    BY <2>2
  <2>4. since' = [since EXCEPT ![p] = IF l \in RatesEnded THEN 0 ELSE now]
    BY <2>2
  <2>5. since' \in [Callers -> Times]
    BY <1>1, <2>1, <2>4
  <2> HIDE DEF RatesTypeOK
  <2>6. pc' \in [Callers -> RatesEnded \cup
                   {"getFresh", "fetch", "setFresh", "setFallback", "getFallback"}]
    BY <2>2, <2>3 DEF RatesTypeOK
  <2> QED BY <2>5, <2>6
<1>5. answer' \in [Callers ->
         [from : {"none", "cache", "provider", "fallback", "unavailable", "failed"},
          rates : Times \cup {NoRates}]]
  BY <1>1 DEF Fetched
<1>6. fresh' \in [rates : Times \cup {NoRates}, until : Nat]
  <2>1. now + FreshTTL \in Nat
    BY <1>1
  <2> QED BY <2>1 DEF Fetched
<1>7. fallback' \in Times \cup {NoRates}
  BY DEF Fetched
<1> QED BY <1>1, <1>2, <1>3, <1>4, <1>5, <1>6, <1>7

\* A call of getRates, at each of its awaits, keeps what is known of all calls and both keys.
LEMMA CallKeepsRates ==
  ASSUME RatesInv, NEW p \in Callers, CallGetRates(p) \/ GetRates(p)
  PROVE  RatesInv'
<1> USE DEF RatesInv
<1>1. RatesTypeOK'
  BY CallKeepsTypes
<1>2. now' = now /\ now \in Int /\ \A q \in Callers : q # p =>
        pc'[q] = pc[q] /\ since'[q] = since[q] /\ answer'[q] = answer[q]
  BY DEF CallGetRates, GetRates, GetFresh, Fetch, FetchRetried, FetchFails, SetFresh,
         SetFallback, GetFallback, CrashCaller, Go, Return, RatesTypeOK, Times
<1>3. \/ fallback' = fallback
      \/ /\ pc[p] = "setFallback" /\ fallback' = answer[p].rates /\ Waiting(p)
  BY DEF CallGetRates, GetRates, GetFresh, Fetch, FetchRetried, FetchFails, SetFresh,
         SetFallback, GetFallback, CrashCaller, Fetched, Waiting, RatesEnded
<1>4. fallback' # fallback => fallback' # NoRates /\ fallback' >= now - 2 * Latency
  BY <1>2, <1>3 DEF CallOK, RatesTypeOK, Times, NoRates
<1>5. fresh'.rates <= now' /\ fallback' <= now'
  <2>1. \/ fresh' = fresh
        \/ fresh' = [rates |-> Fetched(p), until |-> now + FreshTTL]
    BY DEF CallGetRates, GetRates, GetFresh, Fetch, FetchRetried, FetchFails, SetFresh,
           SetFallback, GetFallback, CrashCaller
  <2> QED BY <1>2, <1>3, <2>1 DEF CallOK, Fetched
<1>8. fresh'.rates # NoRates => fresh'.until - fresh'.rates <= FreshTTL + Latency
  <2>1. CASE fresh' = fresh
    BY <2>1
  <2>2. CASE SetFresh(p) /\ fresh' = [rates |-> Fetched(p), until |-> now + FreshTTL]
    BY <2>2 DEF SetFresh, Fetched, CallOK, Waiting, RatesEnded, RatesTypeOK, Times
  <2> QED BY <2>1, <2>2 DEF CallGetRates, GetRates, GetFresh, Fetch, FetchRetried,
             FetchFails, SetFresh, SetFallback, GetFallback, CrashCaller
<1>6. ASSUME NEW q \in Callers, q # p PROVE CallOK(q)'
  <2>1. answer[q].rates \in Int /\ fallback \in Int /\ fallback' \in Int
    BY <1>1 DEF RatesTypeOK, Times, NoRates
  <2> QED BY <1>2, <1>4, <1>6, <2>1 DEF CallOK, Waiting, Answered, NoRates
<1>7. CallOK(p)'
  <2>1. /\ answer[p].rates \in Int /\ answer[p].rates <= now /\ now \in Nat
        /\ fallback \in Int /\ fresh.rates \in Int
    BY DEF CallOK, RatesTypeOK, Times, NoRates
  <2>2. CASE CallGetRates(p) \/ FetchRetried(p) \/ FetchFails(p) \/ CrashCaller(p)
    BY <2>1, <2>2 DEF CallOK, CallGetRates, FetchRetried, FetchFails, CrashCaller, Go,
       Answered, Waiting, RatesEnded, RatesTypeOK
  <2>3. CASE GetFresh(p)
    BY <2>1, <2>3 DEF CallOK, GetFresh, Go, Return,
       Answered, Waiting, RatesEnded, RatesTypeOK, NoRates
  <2>4. CASE Fetch(p)
    BY <2>1, <2>4 DEF CallOK, Fetch, Go, Answered, Waiting, RatesEnded, RatesTypeOK
  <2>5. CASE SetFresh(p)
    BY <2>1, <2>5 DEF CallOK, SetFresh, Go, Answered, Waiting, RatesEnded, RatesTypeOK,
       NoRates, Times
  <2>6. CASE SetFallback(p)
    BY <2>1, <2>6 DEF CallOK, SetFallback, Go, Return, Fetched, Answered, Waiting,
       RatesEnded, RatesTypeOK
  <2>7. CASE GetFallback(p)
    BY <2>1, <2>7 DEF CallOK, GetFallback, Go, Return, Answered, Waiting,
       RatesEnded, RatesTypeOK, NoRates
  <2> QED BY <2>2, <2>3, <2>4, <2>5, <2>6, <2>7 DEF GetRates
<1> QED BY <1>1, <1>5, <1>6, <1>7, <1>8

\* Time that passes, and steps outside getRates, keep it too.
LEMMA OthersKeepRates ==
  ASSUME RatesInv, RatesTick \/ Aside
  PROVE  RatesInv'
<1>1. CASE RatesTick
  <2>1. RatesTypeOK'
    BY <1>1 DEF RatesTick, RatesInv, RatesTypeOK, Times
  <2>2. ASSUME NEW p \in Callers PROVE CallOK(p)'
    <3>1. answer[p].rates \in Int /\ since[p] \in Int /\ now \in Int /\ CallOK(p)
      BY DEF RatesInv, RatesTypeOK, Times, NoRates
    <3> QED BY <1>1, <3>1 DEF RatesTick, CallOK, Waiting, Answered
  <2>3. fresh.rates <= now + 1 /\ fallback <= now + 1
    BY DEF RatesInv, RatesTypeOK, Times, NoRates
  <2> QED BY <1>1, <2>1, <2>2, <2>3 DEF RatesTick, RatesInv
<1>2. CASE Aside
  BY <1>2 DEF Aside, RatesInv, RatesTypeOK, CallOK, Waiting, Answered
<1> QED BY <1>1, <1>2

----------------------------------------------------------------------------
(* The quotes. *)

\* By what a key in Redis may outlive the quote.
Slack == TicksPerSecond - 1 + Latency

\* A handler waits for Latency at most; one that redeems is about a quote that has been
\* issued, by another.
HandlerOK(p) ==
  /\ Active(p) => waiting[p] <= now /\ now - waiting[p] <= Latency
  /\ at[p] \in Redeeming => Q(p) # p /\ at[Q(p)] = "done" /\ expires[Q(p)] # NoTime
  /\ at[p] = "set" => expires[p] = waiting[p] + Lifetime
  /\ at[p] = "del" => waiting[p] < expires[Q(p)] + Slack
  /\ at[p] \in {"idle", "rates"} \cup Redeeming => expires[p] = NoTime

\* An issued quote is kept, taken, or on its way back.
QuoteOK(q) ==
  /\ expires[q] = NoTime => deadline[q] = 0 /\ redeemedAt[q] = NoTime
  /\ expires[q] # NoTime =>
       deadline[q] <= expires[q] + Slack /\ redeemedAt[q] < expires[q] + Slack
       /\ answer[q].rates # NoRates /\ pc[q] = "done"
  /\ at[q] = "done" /\ expires[q] # NoTime =>
       \/ deadline[q] >= expires[q] \/ redeemedAt[q] # NoTime \/ expires[q] <= now
       \/ \E p \in Callers :
            Q(p) = q /\ p # q /\ at[p] \in {"get", "del", "restore", "failed", "crashed"}

QuoteTypes ==
  /\ at \in [Callers -> QuoteEnded \cup {"rates", "set"} \cup Redeeming]
  /\ waiting \in [Callers -> Times]
  /\ target \in [Callers -> [user : {Owner, Stranger}, quote : Callers]]
  /\ expires \in [Callers -> Nat \cup {NoTime}]
  /\ deadline \in [Callers -> Nat]
  /\ redeemedAt \in [Callers -> Times \cup {NoTime}]

QuotesInv ==
  /\ RatesInv /\ QuoteTypes
  /\ \A p \in Callers : HandlerOK(p) /\ QuoteOK(p)

\* Rounding up adds less than a second.
LEMMA RemainingIsRoundedUp ==
  ASSUME NEW x \in Int
  PROVE  LET n == (x + TicksPerSecond - 1) \div TicksPerSecond IN
         /\ n \in Int /\ n * TicksPerSecond \in Int
         /\ n * TicksPerSecond <= x + TicksPerSecond - 1 /\ n * TicksPerSecond >= x
         /\ n <= 0 => x <= 0
OBVIOUS

\* The constants of a quote are numbers, and the slack covers a slow command.
LEMMA LifetimeType == Lifetime \in Nat /\ Slack \in Nat /\ Slack >= Latency
<1>1. QuoteTTL * TicksPerSecond \in Nat
  OBVIOUS
<1> QED BY <1>1 DEF Lifetime, Slack

\* No quote has been asked for.
LEMMA QuotesInvStarts == Init => QuotesInv
<1> SUFFICES ASSUME Init PROVE QuotesInv
  OBVIOUS
<1>1. RatesInv
  BY RatesInvStarts DEF Init
<1>2. QuoteTypes
  BY DEF Init, QuoteTypes, QuoteEnded, Times, NoTime
<1>3. \A p \in Callers : HandlerOK(p) /\ QuoteOK(p)
  BY DEF Init, HandlerOK, QuoteOK, Active, QuoteEnded, Redeeming
<1> QED BY <1>1, <1>2, <1>3 DEF QuotesInv

\* A step of getRates, or of the clock.
LEMMA RatesStepKeeps ==
  ASSUME QuotesInv, Tick \/ \E p \in Callers : GetRates(p) /\ UNCHANGED quoteVars
  PROVE  QuotesInv'
<1>1. RatesInv' /\ UNCHANGED quoteVars
  BY CallKeepsRates, OthersKeepRates DEF QuotesInv, Tick
<1>2. QuoteTypes'
  BY <1>1 DEF QuotesInv, QuoteTypes
<1>3. now \in Int /\ now' \in Int /\ now' >= now
  BY <1>1 DEF Tick, RatesTick, GetRates, GetFresh, Fetch, FetchRetried, FetchFails, SetFresh,
     SetFallback, GetFallback, CrashCaller, QuotesInv, RatesInv, RatesTypeOK, Times
<1>4. ASSUME NEW p \in Callers PROVE HandlerOK(p)'
  <2>1. waiting[p] \in Int /\ HandlerOK(p)
    BY DEF QuotesInv, QuoteTypes, Times
  <2>2. Active(p) => now' = now \/ (now' = now + 1 /\ now - waiting[p] < Latency)
    BY DEF Tick, RatesTick, GetRates, GetFresh, Fetch, FetchRetried, FetchFails, SetFresh,
       SetFallback, GetFallback, CrashCaller
  <2> QED BY <1>1, <1>3, <2>1, <2>2 DEF HandlerOK, Active, Q
<1>5. ASSUME NEW q \in Callers PROVE QuoteOK(q)'
  <2>1. expires[q] \in Int /\ QuoteOK(q)
    BY DEF QuotesInv, QuoteTypes, NoTime
  <2>2. pc[q] = "done" => pc'[q] = "done" /\ answer'[q] = answer[q]
    BY DEF Tick, RatesTick, GetRates, GetFresh, Fetch, FetchRetried, FetchFails, SetFresh,
       SetFallback, GetFallback, CrashCaller, Waiting, RatesEnded, Go, Return,
       QuotesInv, RatesInv, RatesTypeOK
  <2> QED BY <1>1, <1>3, <2>1, <2>2 DEF QuoteOK, Q
<1> QED BY <1>1, <1>2, <1>4, <1>5 DEF QuotesInv

\* What a step of a handler that leaves the quotes to others has to show: of itself, and
\* of the quotes its step is about.
LEMMA StepFrame ==
  ASSUME QuotesInv, RatesInv', QuoteTypes', NEW p \in Callers,
         now' = now, \A q \in Callers : q # p => pc'[q] = pc[q] /\ answer'[q] = answer[q],
         \A q \in Callers : q # p =>
           /\ at'[q] = at[q] /\ waiting'[q] = waiting[q] /\ target'[q] = target[q]
           /\ expires'[q] = expires[q],
         at[p] \notin QuoteEnded \/ at[p] = "idle",
         at[p] \notin {"idle", "rates"} => expires'[p] = expires[p],
         HandlerOK(p)', \A q \in Callers : QuoteOK(q)'
  PROVE  QuotesInv'
<1>1. ASSUME NEW q \in Callers, q # p PROVE HandlerOK(q)'
  <2>1. HandlerOK(q) /\ HandlerOK(p) /\ QuoteOK(p) /\ Q(q) \in Callers
    BY DEF QuotesInv, QuoteTypes, Q
  <2>2. at[q] \in Redeeming => at'[Q(q)] = "done" /\ expires'[Q(q)] = expires[Q(q)]
    BY <2>1 DEF HandlerOK, QuoteEnded
  <2> QED BY <1>1, <2>1, <2>2 DEF HandlerOK, Active, Q, Redeeming
<1> QED BY <1>1 DEF QuotesInv

\* Every await of createQuote keeps what is known of the quotes.
LEMMA CreateKeeps ==
  ASSUME QuotesInv, NEW p \in Callers, CreateQuote(p)
  PROVE  QuotesInv'
<1> USE DEF QuotesInv
<1>1. CallGetRates(p) \/ Aside
  BY DEF CreateQuote, AskQuote, PriceQuote, SetQuote, Aside, Fault, RatesInv, RatesTypeOK
<1>2. RatesInv'
  BY <1>1, CallKeepsRates, OthersKeepRates
<1>3. now \in Nat /\ now \in Times /\ 0 \in Times /\ now' = now /\ now + Lifetime \in Nat
  BY <1>1, LifetimeType DEF RatesInv, RatesTypeOK, Times, Aside, CallGetRates
<1>4. QuoteTypes'
  BY <1>3 DEF CreateQuote, AskQuote, PriceQuote, SetQuote, Reach, QuoteTypes, QuoteEnded,
     Redeeming
<1>5. /\ \A q \in Callers : q # p =>
           /\ pc'[q] = pc[q] /\ answer'[q] = answer[q]
           /\ at'[q] = at[q] /\ waiting'[q] = waiting[q] /\ expires'[q] = expires[q]
           /\ deadline'[q] = deadline[q]
      /\ UNCHANGED <<target, redeemedAt>>
      /\ at[p] \in {"idle", "rates", "set"}
  BY DEF CreateQuote, AskQuote, PriceQuote, SetQuote, Reach, CallGetRates, Go, QuoteTypes,
     RatesInv, RatesTypeOK
<1>6. HandlerOK(p)'
  <2>1. HandlerOK(p)
    OBVIOUS
  <2>2. CASE AskQuote(p)
    BY <1>3, <2>1, <2>2 DEF AskQuote, HandlerOK, Reach, Active, Q, Redeeming, QuoteEnded, QuoteTypes
  <2>3. CASE PriceQuote(p)
    BY <1>3, <2>1, <2>3 DEF PriceQuote, HandlerOK, Reach, Active, Q, Redeeming, QuoteEnded, QuoteTypes
  <2>4. CASE SetQuote(p)
    BY <1>3, <2>1, <2>4 DEF SetQuote, HandlerOK, Reach, Active, Q, Redeeming, QuoteEnded, QuoteTypes
  <2> QED BY <2>2, <2>3, <2>4 DEF CreateQuote
<1>7. ASSUME NEW q \in Callers, q # p PROVE QuoteOK(q)'
  <2>1. QuoteOK(q)
    OBVIOUS
  <2>2. \A r \in Callers :
          at[r] \in {"get", "del", "restore", "failed", "crashed"} => at'[r] = at[r]
    BY <1>5
  <2> QED BY <1>3, <1>5, <1>7, <2>1, <2>2 DEF QuoteOK, Q
<1>8. QuoteOK(p)'
  <2>1. QuoteOK(p) /\ HandlerOK(p)
    OBVIOUS
  <2>2. CASE AskQuote(p)
    BY <1>3, <2>1, <2>2 DEF AskQuote, HandlerOK, QuoteOK, Reach, QuoteTypes
  <2>3. CASE PriceQuote(p)
    BY <1>3, <2>1, <2>3, LifetimeType
    DEF PriceQuote, HandlerOK, QuoteOK, Reach, QuoteTypes, NoTime
  <2>4. CASE SetQuote(p)
    <3>1. /\ pc' = pc /\ answer' = answer /\ expires' = expires /\ redeemedAt' = redeemedAt
          /\ deadline'[p] \in {deadline[p], now + Lifetime}
          /\ at'[p] = "done" => deadline'[p] = now + Lifetime
      BY <2>4 DEF SetQuote, Reach, QuoteTypes
    <3>2. /\ expires[p] = waiting[p] + Lifetime /\ waiting[p] <= now
          /\ now - waiting[p] <= Latency /\ waiting[p] \in Nat /\ expires[p] # NoTime
      BY <2>1, <2>4, LifetimeType
      DEF SetQuote, HandlerOK, Active, QuoteEnded, QuoteTypes, Times, NoTime
    <3> QED BY <1>3, <2>1, <3>1, <3>2, LifetimeType DEF QuoteOK
  <2> QED BY <2>2, <2>3, <2>4 DEF CreateQuote
<1>9. at[p] \notin {"idle", "rates"} => expires'[p] = expires[p]
  BY DEF CreateQuote, AskQuote, PriceQuote, SetQuote
<1> QED BY <1>2, <1>3, <1>4, <1>5, <1>6, <1>7, <1>8, <1>9, StepFrame DEF QuoteEnded

\* Every await of consumeQuote, and a crash, keeps what is known of the quotes.
LEMMA ConsumeKeeps ==
  ASSUME QuotesInv, NEW p \in Callers, ConsumeQuote(p) \/ CrashHandler(p)
  PROVE  QuotesInv'
<1> USE DEF QuotesInv
<1>1. Aside /\ pc' = pc /\ answer' = answer /\ expires' = expires
  BY DEF ConsumeQuote, CrashHandler, Redeem, Getdel, GetdelFails, Get, Del, ConsumeFails,
     Restore, Aside, Fault, RatesInv, RatesTypeOK
<1>2. RatesInv'
  BY <1>1, OthersKeepRates
<1>3. now \in Nat /\ now \in Times /\ 0 \in Times /\ now' = now
  BY <1>1 DEF RatesInv, RatesTypeOK, Times, Aside
<1>4. /\ at[p] \notin QuoteEnded \/ at[p] = "idle"
      /\ \A q \in Callers : q # p =>
           at'[q] = at[q] /\ waiting'[q] = waiting[q] /\ target'[q] = target[q]
      /\ at[p] # "idle" => target' = target
  BY DEF ConsumeQuote, CrashHandler, Redeem, Getdel, GetdelFails, Get, Del, ConsumeFails,
     Restore, TakeUp, Reach, Active, QuoteEnded, QuoteTypes
<1>5. HandlerOK(p) /\ QuoteOK(p) /\ Q(p) \in Callers /\ HandlerOK(Q(p)) /\ QuoteOK(Q(p))
  BY DEF QuoteTypes, Q
\* The step, seen from the quote it is about.
<1>6. \/ /\ at[p] \notin Redeeming /\ UNCHANGED <<deadline, redeemedAt>>
      \/ /\ at[p] \in Redeeming
         /\ \/ UNCHANGED <<deadline, redeemedAt>>
               /\ \/ at[p] = "getdel" \/ at'[p] \in {"get", "del", "restore", "failed", "crashed"}
                  \/ at[p] = "restore" /\ expires[Q(p)] <= now
            \/ /\ deadline' = [deadline EXCEPT ![Q(p)] = 0] /\ UNCHANGED redeemedAt
               /\ at'[p] \in {"get", "restore", "failed"}
            \/ /\ deadline' = [deadline EXCEPT ![Q(p)] = 0]
               /\ \E t \in Times : /\ redeemedAt' = [redeemedAt EXCEPT ![Q(p)] = t]
                                  /\ t < expires[Q(p)] + Slack
            \/ /\ \E d \in Nat : /\ deadline' = [deadline EXCEPT ![Q(p)] = d]
                                /\ d <= expires[Q(p)] + Slack /\ d >= expires[Q(p)]
               /\ UNCHANGED redeemedAt
  <2>1. CASE Redeem(p) \/ CrashHandler(p)
    BY <2>1 DEF Redeem, CrashHandler, Redeeming, Reach, QuoteTypes
  <2>2. CASE Getdel(p)
    <3>1. Held(Q(p)) => now < expires[Q(p)] + Slack
      BY <1>3, <1>5, <2>2, LifetimeType DEF Getdel, HandlerOK, QuoteOK, Held, QuoteTypes,
         Redeeming, NoTime
    <3> QED BY <1>3, <1>5, <2>2, <3>1
        DEF Getdel, Delete, TakeUp, Redeeming, Reach, QuoteTypes
  <2>3. CASE GetdelFails(p) \/ Get(p) \/ ConsumeFails(p)
    BY <1>5, <2>3 DEF GetdelFails, Get, ConsumeFails, Delete, Redeeming, Reach, QuoteTypes
  <2>4. CASE Del(p)
    BY <1>5, <2>4 DEF Del, Delete, TakeUp, Redeeming, Reach, QuoteTypes, HandlerOK
  <2>5. CASE Restore(p)
    <3>1. PICK t \in waiting[p]..now :
            LET n == Remaining(Q(p), t)
                Stored == deadline' = [deadline EXCEPT ![Q(p)] = now + n * TicksPerSecond] IN
            \/ n <= 0 /\ Reach(p, "done") /\ UNCHANGED deadline
            \/ n > 0 /\ Stored /\ Reach(p, "done")
            \/ n > 0 /\ (Stored \/ UNCHANGED deadline) /\ Reach(p, "failed")
      BY <2>5 DEF Restore
    <3> DEFINE n == Remaining(Q(p), t)
    <3>2. /\ waiting[p] \in Nat /\ t \in Nat /\ t <= now /\ now - t <= Latency
          /\ expires[Q(p)] \in Nat
      BY <1>3, <1>5, <2>5, <3>1
      DEF Restore, HandlerOK, Active, QuoteEnded, QuoteTypes, Times, Redeeming
    <3>3. /\ n \in Int /\ n * TicksPerSecond \in Int
          /\ n * TicksPerSecond <= expires[Q(p)] - t + TicksPerSecond - 1
          /\ n * TicksPerSecond >= expires[Q(p)] - t
          /\ n <= 0 => expires[Q(p)] - t <= 0
      <4>1. expires[Q(p)] - t \in Int
        BY <3>2
      <4>2. n = (expires[Q(p)] - t + TicksPerSecond - 1) \div TicksPerSecond
        BY DEF Remaining
      <4> HIDE DEF n
      <4> QED BY <4>1, <4>2, RemainingIsRoundedUp
    <3>4. at[p] = "restore" /\ UNCHANGED redeemedAt /\ at[p] \in Redeeming
      BY <2>5 DEF Restore, Redeeming
    <3>5. \/ n <= 0 /\ UNCHANGED deadline
          \/ n > 0 /\ deadline' = [deadline EXCEPT ![Q(p)] = now + n * TicksPerSecond]
          \/ n > 0 /\ UNCHANGED deadline /\ at'[p] = "failed"
      BY <3>1 DEF Reach, QuoteTypes
    <3> HIDE DEF n
    <3>6. n > 0 => now + n * TicksPerSecond \in Nat
      BY <1>3, <3>2, <3>3
    <3>7. /\ now + n * TicksPerSecond <= expires[Q(p)] + Slack
          /\ now + n * TicksPerSecond >= expires[Q(p)]
          /\ n <= 0 => expires[Q(p)] <= now
      BY <1>3, <3>2, <3>3 DEF Slack
    <3>8. CASE n <= 0 /\ UNCHANGED deadline
      BY <3>4, <3>7, <3>8
    <3>9. CASE n > 0 /\ deadline' = [deadline EXCEPT ![Q(p)] = now + n * TicksPerSecond]
      BY <3>4, <3>6, <3>7, <3>9
    <3>10. CASE n > 0 /\ UNCHANGED deadline /\ at'[p] = "failed"
      BY <3>4, <3>10
    <3> QED BY <3>5, <3>8, <3>9, <3>10
  <2> QED BY <2>1, <2>2, <2>3, <2>4, <2>5 DEF ConsumeQuote
<1>7. QuoteTypes'
  <2>1. /\ at' \in [Callers -> QuoteEnded \cup {"rates", "set"} \cup Redeeming]
        /\ waiting' \in [Callers -> Times]
    BY <1>3 DEF ConsumeQuote, CrashHandler, Redeem, Getdel, GetdelFails, Get, Del, ConsumeFails,
       Restore, TakeUp, Reach, QuoteTypes, QuoteEnded, Redeeming
  <2>2. target' \in [Callers -> [user : {Owner, Stranger}, quote : Callers]]
    BY DEF ConsumeQuote, CrashHandler, Redeem, Getdel, GetdelFails, Get, Del, ConsumeFails,
       Restore, QuoteTypes
  <2>3. deadline' \in [Callers -> Nat] /\ redeemedAt' \in [Callers -> Times \cup {NoTime}]
    BY <1>6 DEF QuoteTypes
  <2> QED BY <1>1, <2>1, <2>2, <2>3 DEF QuoteTypes
<1>8. HandlerOK(p)'
  <2>1. CASE Redeem(p)
    BY <1>1, <1>3, <1>5, <2>1
    DEF Redeem, HandlerOK, Reach, Active, Q, Redeeming, QuoteEnded, QuoteTypes
  <2>2. CASE Get(p)
    <3>1. Held(Q(p)) => now < expires[Q(p)] + Slack
      BY <1>3, <1>5, <2>2, LifetimeType DEF Get, HandlerOK, QuoteOK, Held, QuoteTypes,
         Redeeming, NoTime
    <3> QED BY <1>1, <1>3, <1>5, <2>2, <3>1
        DEF Get, HandlerOK, Reach, Active, Q, Redeeming, QuoteEnded, QuoteTypes
  <2>3. CASE Getdel(p) \/ GetdelFails(p) \/ Del(p) \/ ConsumeFails(p) \/ Restore(p) \/ CrashHandler(p)
    <3>1. /\ at[p] \in Redeeming \/ at'[p] = "crashed"
          /\ at'[p] \in {"get", "restore", "failed", "done", "crashed"}
          /\ waiting'[p] = IF at'[p] \in QuoteEnded THEN 0 ELSE now
          /\ target' = target
      BY <2>3 DEF Getdel, GetdelFails, Del, ConsumeFails, Restore, CrashHandler, TakeUp, Reach,
         Redeeming, QuoteTypes
    <3>2. at[p] \in Redeeming => at'[Q(p)] = "done"
      BY <1>4, <1>5 DEF HandlerOK
    <3> QED BY <1>1, <1>3, <1>5, <3>1, <3>2 DEF HandlerOK, Active, Q, Redeeming, QuoteEnded
  <2> QED BY <2>1, <2>2, <2>3 DEF ConsumeQuote
<1>9. ASSUME NEW q \in Callers PROVE QuoteOK(q)'
  <2>1. QuoteOK(q) /\ deadline[q] \in Nat /\ expires[q] \in Int
    BY DEF QuoteTypes, NoTime
  <2>2. at'[q] = "done" /\ expires[q] # NoTime => at[q] = "done"
    <3>1. at[p] \notin Redeeming => at'[p] # "done"
      BY DEF ConsumeQuote, CrashHandler, Redeem, Getdel, GetdelFails, Get, Del, ConsumeFails,
         Restore, Reach, Redeeming, QuoteTypes
    <3> QED BY <1>4, <1>5, <3>1 DEF HandlerOK
  <2> DEFINE Back(r) == at[r] \in {"get", "del", "restore", "failed", "crashed"}
  <2>3. \A r \in Callers : Q(r) = q /\ r # q /\ Back(r) =>
          \/ r = p /\ at[p] \in Redeeming
          \/ Q(r)' = q /\ Back(r)'
    BY <1>4 DEF Q, Redeeming, QuoteEnded
  <2>4. CASE \/ at[p] \notin Redeeming
             \/ Q(p) # q
    <3>1. deadline'[q] = deadline[q] /\ redeemedAt'[q] = redeemedAt[q]
      BY <1>6, <2>4 DEF QuoteTypes
    <3> QED BY <1>1, <1>3, <2>1, <2>2, <2>3, <2>4, <3>1 DEF QuoteOK
  <2>5. CASE at[p] \in Redeeming /\ Q(p) = q
    <3>1. Q(p)' = q /\ p # q /\ at[q] = "done" /\ expires[q] # NoTime
      BY <1>4, <1>5, <2>5 DEF HandlerOK, Q, Redeeming
    <3>2. CASE UNCHANGED <<deadline, redeemedAt>> /\ at[p] = "getdel"
      BY <1>1, <1>3, <2>1, <2>2, <2>3, <3>1, <3>2 DEF QuoteOK
    <3>3. CASE UNCHANGED <<deadline, redeemedAt>> /\ Back(p)'
      BY <1>1, <1>3, <2>1, <2>2, <3>1, <3>3 DEF QuoteOK
    <3>4. CASE UNCHANGED <<deadline, redeemedAt>> /\ expires[q] <= now
      BY <1>1, <1>3, <2>1, <2>2, <3>1, <3>4 DEF QuoteOK
    <3>5. CASE deadline' = [deadline EXCEPT ![q] = 0] /\ UNCHANGED redeemedAt /\ Back(p)'
      <4>1. deadline'[q] = 0 /\ 0 <= expires[q] + Slack
        BY <3>1, <3>5, LifetimeType DEF QuoteTypes, NoTime
      <4> QED BY <1>1, <1>3, <2>1, <2>2, <3>1, <3>5, <4>1 DEF QuoteOK
    <3>6. CASE /\ deadline' = [deadline EXCEPT ![q] = 0]
               /\ \E t \in Times : /\ redeemedAt' = [redeemedAt EXCEPT ![q] = t]
                                  /\ t < expires[q] + Slack
      <4>1. deadline'[q] = 0 /\ 0 <= expires[q] + Slack
            /\ redeemedAt'[q] # NoTime /\ redeemedAt'[q] < expires[q] + Slack
        BY <3>1, <3>6, LifetimeType DEF QuoteTypes, NoTime, Times
      <4> QED BY <1>1, <1>3, <2>1, <2>2, <3>1, <4>1 DEF QuoteOK
    <3>7. CASE /\ \E d \in Nat : /\ deadline' = [deadline EXCEPT ![q] = d]
                                /\ d <= expires[q] + Slack /\ d >= expires[q]
               /\ UNCHANGED redeemedAt
      <4>1. deadline'[q] >= expires[q] /\ deadline'[q] <= expires[q] + Slack
        BY <3>7 DEF QuoteTypes
      <4> QED BY <1>1, <1>3, <2>1, <2>2, <3>1, <3>7, <4>1 DEF QuoteOK
    <3> QED BY <1>6, <2>5, <3>2, <3>3, <3>4, <3>5, <3>6, <3>7
  <2> QED BY <2>4, <2>5
<1> QED BY <1>1, <1>2, <1>3, <1>4, <1>7, <1>8, <1>9, StepFrame

\* Every step keeps what is known of rates and quotes.
LEMMA QuotesInvHolds == Spec => []QuotesInv
<1>1. QuotesInv /\ [Next]_vars => QuotesInv'
  <2> SUFFICES ASSUME QuotesInv, [Next]_vars PROVE QuotesInv'
    OBVIOUS
  <2>1. CASE Tick \/ \E p \in Callers : GetRates(p) /\ UNCHANGED quoteVars
    BY <2>1, RatesStepKeeps
  <2>2. CASE \E p \in Callers : CreateQuote(p)
    BY <2>2, CreateKeeps
  <2>3. CASE \E p \in Callers : ConsumeQuote(p) \/ CrashHandler(p)
    BY <2>3, ConsumeKeeps
  <2>4. CASE UNCHANGED vars
    <3>1. RatesInv'
      BY <2>4 DEF QuotesInv, RatesInv, RatesTypeOK, CallOK, Waiting, Answered
    <3>2. QuoteTypes'
      BY <2>4 DEF QuotesInv, QuoteTypes
    <3> QED BY <2>4, <3>1, <3>2 DEF QuotesInv, HandlerOK, QuoteOK, Active, Q
  <2> QED BY <2>1, <2>2, <2>3, <2>4 DEF Next
<1> QED BY <1>1, QuotesInvStarts, PTL DEF Spec

----------------------------------------------------------------------------
(* The theorems. *)

\* Every variable keeps its type, and every quote was priced with rates.
THEOREM TypesHold == Spec => []TypeOK
<1>1. QuotesInv => TypeOK
  BY DEF QuotesInv, RatesInv, QuoteTypes, QuoteOK, TypeOK
<1> QED BY <1>1, QuotesInvHolds, PTL

\* Nobody redeems a quote later than rounding and one slow command allow.
THEOREM RedeemedInTime == Spec => []RedeemedSoonAfterExpiry
<1>1. QuotesInv => RedeemedSoonAfterExpiry
  <2> SUFFICES ASSUME QuotesInv, NEW q \in Callers, redeemedAt[q] # NoTime
               PROVE  redeemedAt[q] < expires[q] + TicksPerSecond - 1 + Latency
    BY DEF RedeemedSoonAfterExpiry
  <2>1. QuoteOK(q) /\ expires[q] \in Int
    BY DEF QuotesInv, QuoteTypes, NoTime
  <2> QED BY <2>1 DEF QuoteOK, Slack
<1> QED BY <1>1, QuotesInvHolds, PTL

\* Until it expires a quote is not lost to anybody but its owner or a failure.
THEOREM QuotesLast == Spec => []QuoteLastsUntilExpiry
<1>1. QuotesInv => QuoteLastsUntilExpiry
  <2> SUFFICES ASSUME QuotesInv, NEW q \in Callers,
                      at[q] = "done", expires[q] # NoTime, now < expires[q]
               PROVE  \/ Held(q) \/ redeemedAt[q] # NoTime
                      \/ \E p \in Callers :
                           /\ Q(p) = q /\ p # q
                           /\ at[p] \in {"get", "del", "restore", "failed", "crashed"}
    BY DEF QuoteLastsUntilExpiry
  <2>1. QuoteOK(q) /\ expires[q] \in Int /\ deadline[q] \in Int /\ now \in Int
    BY DEF QuotesInv, RatesInv, RatesTypeOK, QuoteTypes, NoTime, Times
  <2> QED BY <2>1 DEF QuoteOK, Held
<1> QED BY <1>1, QuotesInvHolds, PTL

\* The fallback keeps up with what fetches have returned.
THEOREM FallbackHolds == Spec => []FallbackKeepsUp
<1>1. QuotesInv => FallbackKeepsUp
  BY DEF QuotesInv, RatesInv, CallOK, FallbackKeepsUp
<1> QED BY <1>1, QuotesInvHolds, PTL

\* Only a call of getRates returns rates.
LEMMA WhoReturns ==
  ASSUME QuotesInv, [Next]_vars, NEW p \in Callers, pc[p] # "done", pc'[p] = "done"
  PROVE  GetFresh(p) \/ SetFallback(p) \/ GetFallback(p)
<1> USE DEF QuotesInv, RatesInv, RatesTypeOK
<1>1. PICK q \in Callers : GetRates(q)
  BY DEF Next, CreateQuote, AskQuote, PriceQuote, SetQuote, CallGetRates, Go, ConsumeQuote,
     CrashHandler, Redeem, Getdel, GetdelFails, Get, Del, ConsumeFails, Restore, Tick, RatesTick
<1>2. q = p
  BY <1>1 DEF GetRates, GetFresh, Fetch, FetchRetried, FetchFails, SetFresh, SetFallback,
     GetFallback, CrashCaller, Go, Return
<1> QED BY <1>1, <1>2 DEF GetRates, Fetch, FetchRetried, FetchFails, SetFresh, CrashCaller,
    Go, Return

\* Rates from the cache or the provider are recent when they are returned.
THEOREM RatesRecent == Spec => RatesAreRecent
<1>1. QuotesInv /\ [Next]_vars =>
        [ \A p \in Callers :
            pc[p] # "done" /\ pc'[p] = "done" /\ answer'[p].from \in {"cache", "provider"}
              => now - answer'[p].rates <= FreshTTL + Latency ]_ratesVars
  <2> SUFFICES ASSUME QuotesInv, [Next]_vars, NEW p \in Callers, pc[p] # "done",
                      pc'[p] = "done", answer'[p].from \in {"cache", "provider"}
               PROVE  now - answer'[p].rates <= FreshTTL + Latency
    OBVIOUS
  <2>1. /\ answer[p].rates \in Int /\ now \in Int /\ fresh.rates \in Int /\ since[p] \in Int
        /\ fresh.until \in Int /\ CallOK(p)
        /\ fresh.rates # NoRates => fresh.until - fresh.rates <= FreshTTL + Latency
    BY DEF QuotesInv, RatesInv, RatesTypeOK, Times, NoRates
  <2>2. CASE GetFresh(p)
    <3>1. p \in DOMAIN answer /\ p \in DOMAIN pc
      BY DEF QuotesInv, RatesInv, RatesTypeOK
    <3>2. FreshHit /\ answer'[p].rates = fresh.rates
      BY <2>2, <3>1 DEF GetFresh, Return, Go
    <3> QED BY <2>1, <3>2 DEF FreshHit
  <2>3. CASE SetFallback(p)
    <3>1. answer'[p].rates = answer[p].rates
      BY <2>3 DEF SetFallback, Return, Fetched, Go, QuotesInv, RatesInv, RatesTypeOK
    <3>2. pc[p] = "setFallback" /\ Waiting(p)
      BY <2>3 DEF SetFallback, Waiting, RatesEnded
    <3> QED BY <2>1, <3>1, <3>2 DEF CallOK
  <2>4. CASE GetFallback(p)
    BY <2>4 DEF GetFallback, Return, QuotesInv, RatesInv, RatesTypeOK
  <2> QED BY <2>2, <2>3, <2>4, WhoReturns
<1> QED BY <1>1, QuotesInvHolds, PTL DEF Spec, RatesAreRecent

\* A fetch that has succeeded leaves rates for everybody after it.
THEOREM RatesStayAvailable == Spec => NeverUnavailableAgain
<1>1. QuotesInv /\ [Next]_vars =>
        [ \A p \in Callers :
            pc[p] # "done" /\ pc'[p] = "done" /\ answer'[p].from = "unavailable"
              => ~ \E q \in Callers : Answered(q, "provider") ]_ratesVars
  <2> SUFFICES ASSUME QuotesInv, [Next]_vars, NEW p \in Callers, pc[p] # "done",
                      pc'[p] = "done", answer'[p].from = "unavailable",
                      NEW q \in Callers, Answered(q, "provider")
               PROVE  FALSE
    OBVIOUS
  <2>1. fallback # NoRates
    BY DEF QuotesInv, RatesInv, CallOK
  <2>2. p \in DOMAIN answer /\ p \in DOMAIN pc
    BY DEF QuotesInv, RatesInv, RatesTypeOK
  <2>3. ~ GetFresh(p)
    BY <2>2 DEF GetFresh, Return, Go
  <2>4. ~ SetFallback(p)
    BY <2>2 DEF SetFallback, Return, Go
  <2>5. ~ GetFallback(p)
    BY <2>1, <2>2 DEF GetFallback, Return
  <2> QED BY <2>3, <2>4, <2>5, WhoReturns
<1> QED BY <1>1, QuotesInvHolds, PTL DEF Spec, NeverUnavailableAgain
=============================================================================
