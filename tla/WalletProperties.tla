-------------------------- MODULE WalletProperties --------------------------
(***************************************************************************)
(* What WalletService must and must not do, and the ledger it implements.  *)
(***************************************************************************)
EXTENDS WalletService

\* Every variable has the type its column, key or local has.
HandlerTypes ==
  /\ pc \in [Procs -> Labels]
  /\ res \in [Procs -> Answers \cup {"none"}]
  /\ req \in [Procs -> Requests \cup {None}]
  /\ terms \in [Procs -> Terms]
  /\ view \in [Procs -> Snapshots \cup {None}]
RedisTypes ==
  /\ holder \in [Users -> Procs \cup {None}]
  /\ live \subseteq Quotes
  /\ cache \in [Users -> Snapshots \cup {None}]
StoredTypes ==
  /\ wallets \subseteq Users
  /\ rows \subseteq Accounts
  /\ bal \in [Accounts -> Int]
  /\ journal \subseteq JournalEntry
  /\ outbox \subseteq Procs
  /\ orders \subseteq Orders
TxTypes ==
  /\ seen \in [Procs -> [Accounts -> Int]]
  /\ rowOwner \in [Accounts -> Procs \cup {None}]
  /\ keyOwner \in [JournalKeys -> Procs \cup {None}]
TypeOK == HandlerTypes /\ RedisTypes /\ StoredTypes /\ TxTypes

----------------------------------------------------------------------------
(* The book. *)

\* A transaction about to commit still holds every row it will update, and what it
\* read there many awaits ago is still what is committed: no update is lost, even
\* when the Redlock has long expired.
NoLostUpdate ==
  \A p \in Procs :
    pc[p] = "commit" =>
      \A a \in Touched(U(p), terms[p]) : rowOwner[a] = p /\ seen[p][a] = bal[a]

\* Neither a user nor the house is ever overdrawn.
NoOverdraft == \A a \in Accounts : bal[a] >= 0

\* README: "the system can always reconstruct balances" from the ledger.
LedgerReconstructsBalances ==
  \A a \in Accounts :
    bal[a] = Opening[a] + MapThenSumSet(LAMBDA j : Delta(j.user, j.terms, a), journal)

\* A step that changes a balance is one posting: exactly one new journal row and its
\* outbox row appear with it, its key was free, and every account moves by its leg.
BalancesMoveByPosting ==
  [][ bal' # bal =>
        \E p \in Procs :
          /\ pc[p] = "commit" /\ ~HasEntry(U(p), req[p].key)
          /\ journal' = journal \cup {Entry(p, req[p], terms[p])}
          /\ outbox' = outbox \cup {p}
          /\ \A a \in Accounts : bal'[a] = bal[a] + Delta(U(p), terms[p], a) ]_vars

\* Double entry: in each currency a step moves money between one user and the house
\* and leaves every other account alone.
EveryStepBalances ==
  [][ \A c \in Currencies : bal' # bal =>
        \E u \in Users :
          /\ bal'[<<u, c>>] + bal'[<<House, c>>] = bal[<<u, c>>] + bal[<<House, c>>]
          /\ \A v \in Users \ {u} : bal'[<<v, c>>] = bal[<<v, c>>] ]_vars

\* A quote pays out at most once, whatever retries and keys it is redeemed with.
QuoteRedeemedOnce ==
  \A j, k \in journal : j.op = "trade" /\ k.op = "trade" /\ j.quote = k.quote => j = k

\* A trade has a FILLED order exactly when it has been booked, and an attempt that was
\* booked is never recorded as REJECTED besides.
OrdersMatchLedger ==
  \A p \in Procs :
    LET traded == \E j \in journal : j.by = p /\ j.op = "trade" IN
    /\ <<p, "FILLED">> \in orders <=> traded
    /\ <<p, "REJECTED">> \in orders => ~traded

\* The client's view: the abstract ledger, whose answers are those sent.
LedgerView == INSTANCE Ledger WITH
  asked <- req,
  answer <- [p \in Procs |-> IF pc[p] = "done" THEN res[p] ELSE "none"]

\* The service implements the ledger: atomic postings, one per key and per quote,
\* and no answer that contradicts them.
ImplementsLedger == LedgerView!Spec

----------------------------------------------------------------------------
(* The inductive invariant: where a handler is tells what it holds. *)

\* Which request can be at which await, and that its terms are known by then.
TermsKnown(p) == terms[p] \in TermsOf(req[p])
HandlerAt(p) ==
  /\ IF pc[p] = "idle" THEN req[p] = None ELSE req[p] \in Requests
  /\ pc[p] = "validate" => req[p].op # "get"
  /\ pc[p] \in Reading => req[p].op = "get"
  /\ pc[p] \in Before \cup Critical => Valid(req[p]) /\ req[p].op # "get"
  /\ pc[p] \in Redeeming => req[p].op = "trade"
  /\ pc[p] \in {"getQuote", "delQuote"} => "getdel" \in Faults
  /\ pc[p] = "recheck" => req[p].op = "fund"
  /\ pc[p] = "rates" => req[p].op = "convert"
  /\ pc[p] \in {"lockFrom", "lockHouseFrom"} => req[p].op # "fund"
  /\ pc[p] = "fillCache" => view[p] \in Snapshots
  /\ pc[p] = "checkKey" /\ req[p].op = "fund" => TermsKnown(p)
  /\ pc[p] = "lock" /\ req[p].op # "convert" => TermsKnown(p)
  /\ pc[p] \in {"recheck", "findWallet", "createWallet", "connect"} \cup InTx =>
       TermsKnown(p)
HandlerInv == \A p \in Procs : HandlerAt(p)

\* Only open transactions own rows, and what they read there is still committed.
OwnsRow(p, a) == pc[p] \in InTx \cup {"rollback"} /\ seen[p][a] = bal[a]
RowInv == \A p \in Procs, a \in Accounts : rowOwner[a] = p => OwnsRow(p, a)

\* A transaction owns the rows of the steps behind it, and what it read there covers
\* what it will take.
HeldAt(p) ==
  /\ pc[p] \in InTx \ {"lockFrom"} /\ req[p].op # "fund" =>
       rowOwner[From(p)] = p /\ seen[p][From(p)] >= terms[p].in
  /\ pc[p] \in {"lockHouseFrom", "lockHouseTo", "record", "commit"} =>
       rowOwner[To(p)] = p
  /\ pc[p] \in {"lockHouseTo", "record", "commit"} /\ req[p].op # "fund" =>
       rowOwner[HouseFrom(p)] = p
  /\ pc[p] \in {"record", "commit"} =>
       rowOwner[HouseTo(p)] = p /\ seen[p][HouseTo(p)] >= terms[p].out
HeldInv == \A p \in Procs : HeldAt(p)

\* The journal key a transaction has inserted is its own and not yet booked.
KeyOf(p) == <<U(p), req[p].key>>
OwnsKey(p, k) ==
  pc[p] \in {"commit", "rollback"} /\ k = KeyOf(p) /\ ~HasEntry(k[1], k[2])
KeyInv ==
  /\ \A p \in Procs, k \in JournalKeys : keyOwner[k] = p => OwnsKey(p, k)
  /\ \A p \in Procs : pc[p] = "commit" => keyOwner[KeyOf(p)] = p

\* What a handler is about to answer agrees with what it has booked.
Bookings(p) == {j \in journal : j.by = p}
AnswerAt(p) ==
  /\ Bookings(p) # {} => /\ pc[p] \in {"invalidate", "unlock"} \cup Ended
                         /\ res[p] \in {"ok", "failed"}
  /\ pc[p] \in After => res[p] \in Answers
  /\ pc[p] = "invalidate" => res[p] = "ok"
  /\ pc[p] \in {"rollback", "reject"} => res[p] \notin {"ok", "replay"}
  /\ pc[p] \in {"invalidate", "unlock"} /\ res[p] = "ok" => Bookings(p) # {}
  /\ pc[p] = "unlock" /\ res[p] = "replay" => HasEntry(U(p), req[p].key)
AnswerInv == \A p \in Procs : AnswerAt(p)

\* Where GETDEL works, a quote is in Redis, in the hands of one handler, or spent.
Carries(p, q) ==
  /\ pc[p] \in {"restoreQuote", "lock", "findWallet", "createWallet", "connect"} \cup InTx
  /\ req[p].op = "trade" /\ req[p].quote = q
Spent(q) == \E j \in journal : j.op = "trade" /\ j.quote = q
QuotesAccounted ==
  \A q \in Quotes :
    /\ Spent(q) => q \notin live /\ \A p \in Procs : ~Carries(p, q)
    /\ \A p \in Procs :
         Carries(p, q) => /\ q \notin live
                          /\ pc[p] # "restoreQuote" => QuoteBook[q].user = U(p)
    /\ \A p, r \in Procs : Carries(p, q) /\ Carries(r, q) => p = r

QuoteInv == "getdel" \notin Faults => QuotesAccounted

Inv == TypeOK /\ HandlerInv /\ RowInv /\ HeldInv /\ KeyInv /\ NoOverdraft
       /\ AnswerInv /\ QuoteInv

----------------------------------------------------------------------------
(* The wallet lock. *)

\* README: the Redlock prevents "two servers processing the same wallet
\* simultaneously".
OneHolderPerWallet ==
  \A p, q \in Procs :
    pc[p] \in Critical /\ pc[q] \in Critical /\ U(p) = U(q) => p = q

\* LockService.acquire: the lock is released "regardless of success or failure", so one
\* that is held is held by a handler at work under it, or was left by a crash.
LockEndsWithItsHandler ==
  \A u \in Users :
    holder[u] # None =>
      /\ U(holder[u]) = u
      /\ pc[holder[u]] \in Critical \cup {"crashed"}

\* fundWallet looks for its key again under the lock so that a retry never collides
\* with the original "on the (userId, idempotencyKey) unique constraint".
FundNeverCollides ==
  \A p \in Procs :
    pc[p] = "record" /\ req[p].op = "fund" => ~HasEntry(U(p), req[p].key)

\* README: when the key already exists "the previous result is returned", so a
\* handler that ends when its key is booked does not answer with a failure.
RetryOf(op) ==
  \A p \in Procs :
    pc[p] # "done" /\ pc'[p] = "done" /\ req[p].op = op /\ HasEntry(U(p), req[p].key)
      => res'[p] \in {"ok", "replay", "busy"}

\* A conversion's retry is answered with the result of the original.
ConvertRetryReplays == [][RetryOf("convert")]_vars

\* A trade's retry is answered with the result of the original.
TradeRetryReplays == [][RetryOf("trade")]_vars

\* The lock order "avoids deadlocks with funding and convert flows".
NoDeadlock == \A p \in Procs : ~Deadlocked(p)

----------------------------------------------------------------------------
(* Progress. *)

\* Every connection of instance i is kept by a rejected trade that waits for a second
\* one to save its order on.
PoolJammed(i) ==
  Cardinality({p \in Procs : Instance[p] = i /\ pc[p] = "reject"}) >= PoolMax

\* Every request is answered, unless the instance that serves it dies or its pool has
\* jammed for good: DB_POOL_MAX trades rejected at once wait for each other's
\* connections, and no timeout frees them.
EveryRequestAnswered ==
  \A p \in Procs :
    pc[p] \in {"validate", "readCache"} ~>
      pc[p] \in Ended \/ []PoolJammed(Instance[p])
=============================================================================
