-------------------------------- MODULE Rates --------------------------------
(***************************************************************************)
(* FxService.getRates: rates are served from a fresh key with a TTL, else  *)
(* fetched from the provider and stored under a fresh and a fallback key,  *)
(* else taken from the fallback. Callers overlap without any coordination. *)
(* Rates are told apart by the time at which the provider answered.        *)
(***************************************************************************)
EXTENDS Integers

CONSTANTS
  Callers,     \* calls of getRates, over all instances
  FreshTTL,    \* CACHE_TTL_SECONDS, in ticks
  Latency,     \* ticks one await may take: a command, or one attempt to fetch
  MaxRetries,  \* FX_RETRY_MAX
  MaxTime,     \* bound on the clock in a run
  Faults,      \* which failures a run admits, a subset of RatesFaultKinds
  MaxFaults    \* bound on the failures of a run

RatesFaultKinds ==
  { "provider",  \* an attempt to fetch fails, or what it brings is no success
    "redis",     \* a command fails, with or without effect
    "getdel",    \* GETDEL is unknown to the driver, and always fails
    "crash" }    \* an instance dies

ASSUME RatesAssumption ==
  /\ FreshTTL \in Nat /\ Latency \in Nat \ {0} /\ Latency <= FreshTTL
  /\ MaxRetries \in Nat /\ MaxTime \in Nat /\ MaxFaults \in Nat

VARIABLES
  now,
  \* of each caller
  pc,
  since,     \* when it began to wait for what it is waiting for
  tries,     \* retries used by axios-retry
  answer,    \* the rates it has fetched or returned, and where they came from
  \* in Redis
  fresh,     \* fx:rates:fresh and its deadline
  fallback,  \* fx:rates:fallback
  faults     \* the failures so far

caller == <<pc, since, tries, answer>>
ratesVars == <<now, caller, fresh, fallback, faults>>

NoRates == -1
Times == 0..MaxTime
RatesEnded == {"idle", "done", "crashed"}
Waiting(p) == pc[p] \notin RatesEnded

RatesInit ==
  /\ now = 0
  /\ pc = [p \in Callers |-> "idle"]
  /\ since = [p \in Callers |-> 0]
  /\ tries = [p \in Callers |-> 0]
  /\ answer = [p \in Callers |-> [from |-> "none", rates |-> NoRates]]
  /\ fresh = [rates |-> NoRates, until |-> 0]
  /\ fallback = NoRates
  /\ faults = 0

\* One more failure, of a kind the run admits.
Fault(kind) == kind \in Faults /\ faults < MaxFaults /\ faults' = faults + 1

Go(p, l) ==
  /\ pc' = [pc EXCEPT ![p] = l]
  /\ since' = [since EXCEPT ![p] = IF l \in RatesEnded THEN 0 ELSE now]

Return(p, source, r) ==
  /\ Go(p, "done")
  /\ answer' = [answer EXCEPT ![p] = [from |-> source, rates |-> r]]

----------------------------------------------------------------------------
CallGetRates(p) ==
  /\ pc[p] = "idle"
  /\ Go(p, "getFresh")
  /\ UNCHANGED <<now, tries, answer, fresh, fallback, faults>>

FreshHit == fresh.rates # NoRates /\ now < fresh.until

\* GET of the fresh key: nothing catches its failure.
GetFresh(p) ==
  /\ pc[p] = "getFresh"
  /\ \/ FreshHit /\ Return(p, "cache", fresh.rates) /\ UNCHANGED faults
     \/ ~FreshHit /\ Go(p, "fetch") /\ UNCHANGED <<answer, faults>>
     \/ Fault("redis") /\ Return(p, "failed", NoRates)
  /\ UNCHANGED <<now, tries, fresh, fallback>>

\* The provider answers.
Fetch(p) ==
  /\ pc[p] = "fetch"
  /\ answer' = [answer EXCEPT ![p].rates = now]
  /\ Go(p, "setFresh")
  /\ UNCHANGED <<now, tries, fresh, fallback, faults>>

\* A network error, a 429 or a 5xx is retried, a bounded number of times.
FetchRetried(p) ==
  /\ pc[p] = "fetch" /\ tries[p] < MaxRetries
  /\ Fault("provider")
  /\ tries' = [tries EXCEPT ![p] = @ + 1]
  /\ Go(p, "fetch")
  /\ UNCHANGED <<now, answer, fresh, fallback>>

\* The retries are used up, or the error is not one to retry.
FetchFails(p) ==
  /\ pc[p] = "fetch"
  /\ Fault("provider")
  /\ Go(p, "getFallback")
  /\ UNCHANGED <<now, tries, answer, fresh, fallback>>

Fetched(p) == answer[p].rates

\* Seeded bug: SET without EX.
SetFreshForGood(p) ==
  /\ pc[p] = "setFresh"
  /\ fresh' = [rates |-> Fetched(p), until |-> MaxTime + 1]
  /\ Go(p, "setFallback")
  /\ UNCHANGED <<now, tries, answer, fallback, faults>>

\* SET of the fresh key. Its failure is taken for one of the fetch.
SetFresh(p) ==
  LET Stored == fresh' = [rates |-> Fetched(p), until |-> now + FreshTTL] IN
  /\ pc[p] = "setFresh"
  /\ \/ Stored /\ Go(p, "setFallback") /\ UNCHANGED faults
     \/ Fault("redis") /\ (Stored \/ UNCHANGED fresh) /\ Go(p, "getFallback")
  /\ UNCHANGED <<now, tries, answer, fallback>>

\* Seeded bug: SET NX.
SetFallbackOnce(p) ==
  /\ pc[p] = "setFallback"
  /\ fallback' = IF fallback = NoRates THEN Fetched(p) ELSE fallback
  /\ Return(p, "provider", Fetched(p))
  /\ UNCHANGED <<now, tries, fresh, faults>>

\* SET of the fallback key, without a TTL.
SetFallback(p) ==
  /\ pc[p] = "setFallback"
  /\ \/ /\ fallback' = Fetched(p)
        /\ Return(p, "provider", Fetched(p)) /\ UNCHANGED faults
     \/ /\ Fault("redis")
        /\ fallback' \in {fallback, Fetched(p)}
        /\ Go(p, "getFallback") /\ UNCHANGED answer
  /\ UNCHANGED <<now, tries, fresh>>

\* Seeded bug: the fresh key is read again.
GetFreshAgain(p) ==
  /\ pc[p] = "getFallback"
  /\ IF FreshHit THEN Return(p, "fallback", fresh.rates)
     ELSE Return(p, "unavailable", NoRates)
  /\ UNCHANGED <<now, tries, fresh, fallback, faults>>

GetFallback(p) ==
  /\ pc[p] = "getFallback"
  /\ \/ fallback # NoRates /\ Return(p, "fallback", fallback) /\ UNCHANGED faults
     \/ fallback = NoRates /\ Return(p, "unavailable", NoRates) /\ UNCHANGED faults
     \/ Fault("redis") /\ Return(p, "failed", NoRates)
  /\ UNCHANGED <<now, tries, fresh, fallback>>

CrashCaller(p) ==
  /\ Waiting(p) /\ Fault("crash")
  /\ Go(p, "crashed")
  /\ UNCHANGED <<now, tries, answer, fresh, fallback>>

\* Time passes, but no await outlasts Latency.
RatesTick ==
  /\ now < MaxTime
  /\ \A p \in Callers : Waiting(p) => now - since[p] < Latency
  /\ now' = now + 1
  /\ UNCHANGED <<caller, fresh, fallback, faults>>

\* The awaits of a call that has begun.
GetRates(p) ==
  \/ GetFresh(p) \/ Fetch(p) \/ FetchRetried(p) \/ FetchFails(p)
  \/ SetFresh(p) \/ SetFallback(p) \/ GetFallback(p) \/ CrashCaller(p)

RatesNext == (\E p \in Callers : CallGetRates(p) \/ GetRates(p)) \/ RatesTick

RatesSpec == RatesInit /\ [][RatesNext]_ratesVars

----------------------------------------------------------------------------
(* Properties. *)

Answered(p, source) == pc[p] = "done" /\ answer[p].from = source

\* Every variable has the type its key or local has.
RatesTypeOK ==
  /\ now \in Times
  /\ pc \in [Callers -> RatesEnded \cup
               {"getFresh", "fetch", "setFresh", "setFallback", "getFallback"}]
  /\ since \in [Callers -> Times]
  /\ tries \in [Callers -> 0..MaxRetries]
  /\ answer \in [Callers ->
       [from : {"none", "cache", "provider", "fallback", "unavailable", "failed"},
        rates : Times \cup {NoRates}]]
  /\ fresh \in [rates : Times \cup {NoRates}, until : Nat]
  /\ fallback \in Times \cup {NoRates}
  /\ faults \in 0..MaxFaults

\* Rates that do not come from the fallback are no older, when they are returned,
\* than the TTL of the fresh key and one slow command, though an older fetch may
\* overwrite a newer one and start its TTL anew.
RatesAreRecent ==
  [][ \A p \in Callers :
        pc[p] # "done" /\ pc'[p] = "done" /\ answer'[p].from \in {"cache", "provider"}
          => now - answer'[p].rates <= FreshTTL + Latency ]_ratesVars

\* "Using fallback (last known) FX rates": two fetches may store the fallback in either
\* order, but it never falls behind rates a fetch has returned by more than the two
\* commands that store them.
FallbackKeepsUp ==
  \A p \in Callers :
    Answered(p, "provider") => fallback >= answer[p].rates - 2 * Latency

\* Once a fetch has succeeded, nobody is told again that rates are "temporarily
\* unavailable", however long the provider stays away.
NeverUnavailableAgain ==
  [][ \A p \in Callers :
        pc[p] # "done" /\ pc'[p] = "done" /\ answer'[p].from = "unavailable"
          => ~ \E q \in Callers : Answered(q, "provider") ]_ratesVars
=============================================================================
