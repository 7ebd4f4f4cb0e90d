---------------------------- MODULE WalletService ----------------------------
(***************************************************************************)
(* WalletService: getWallet, fundWallet, convertFunds and executeTrade, as *)
(* the awaits of the handlers interleave over Postgres (READ COMMITTED and *)
(* SELECT ... FOR UPDATE), the Redlock per wallet, the quotes and the      *)
(* balance cache in Redis, and the connection pool of each instance. A     *)
(* process is one HTTP request on some instance.                           *)
(***************************************************************************)
EXTENDS Bookkeeping

CONSTANTS
  Faults,    \* which failures a run admits, a subset of FaultKinds
  Instance,  \* the instance that serves each request
  PoolMax    \* DB_POOL_MAX: the connections an instance may have open

FaultKinds ==
  { "crash",  \* an instance dies
    "db",     \* a statement or the connection fails
    "redis",  \* a Redis command fails
    "getdel", \* GETDEL fails, and the GET that replaces it does not
    "fx",     \* no rates can be had
    "slow" }  \* a handler outlives the TTL of its Redlock

ASSUME FaultsAssumption == Faults \subseteq FaultKinds
ASSUME PoolAssumption == PoolMax \in Nat \ {0} /\ DOMAIN Instance = Procs

VARIABLES
  \* of each handler
  pc, req,
  terms,     \* currencies and amounts, once known
  seen,      \* the amounts its transaction has read
  view,      \* the balances getWallet has read
  res,       \* the outcome it will answer, or has answered
  \* in Redis
  holder,    \* who holds the lock wallet:<user>
  live,      \* the quotes that can still be redeemed
  cache,     \* wallet:balances:<user>
  \* committed in Postgres
  wallets, rows, bal, journal, outbox, orders,
  \* held by open transactions
  rowOwner,  \* row locks, and uncommitted inserts of balance rows
  keyOwner   \* uncommitted inserts of journal rows, by (user, idempotency key)

local == <<req, terms, view>>
redis == <<holder, live, cache>>
stored == <<wallets, rows, bal, journal, outbox, orders>>
tx == <<seen, rowOwner, keyOwner>>
vars == <<pc, res, local, redis, stored, tx>>

JournalKeys == Users \X Keys
NothingRead == [a \in Accounts |-> 0]
HouseRows == {House} \X Currencies

Redeeming == {"consumeQuote", "getQuote", "delQuote", "restoreQuote"}
Before == {"checkKey", "lock"} \cup Redeeming  \* validated
UnderLock == {"recheck", "rates", "findWallet", "createWallet", "connect"}
RowSteps == {"lockFrom", "lockTo", "insertTo", "lockHouseFrom", "lockHouseTo"}
InTx == RowSteps \cup {"record", "commit"}
After == {"invalidate", "rollback", "reject", "unlock"}
Reading == {"readCache", "readWallet", "createOwn", "fillCache"}
Ended == {"done", "crashed"}
Critical == UnderLock \cup InTx \cup After
Labels == {"idle", "validate"} \cup Before \cup Critical \cup Reading \cup Ended

Orders == Procs \X {"FILLED", "REJECTED"}
Snapshots == [Currencies -> Int]

U(p) == req[p].user
HasEntry(u, k) == \E j \in journal : j.user = u /\ j.key = k
BalancesOf(u) == [c \in Currencies |-> bal[<<u, c>>]]
From(p) == <<U(p), terms[p].from>>
To(p) == <<U(p), terms[p].to>>
HouseFrom(p) == <<House, terms[p].from>>
HouseTo(p) == <<House, terms[p].to>>

\* Seeded bug: the query runner is not released.
ConnectedForGood == InTx \cup {"invalidate", "rollback", "reject", "unlock", "done"}

\* A query runner keeps its connection from connect() to release().
Connected == InTx \cup {"invalidate", "rollback", "reject"}

\* The requests that keep a connection of instance i.
Borrowers(i) == {p \in Procs : Instance[p] = i /\ pc[p] \in Connected}

\* A query outside a query runner borrows a connection for itself, and waits without
\* a timeout while all of them are out.
PoolFree(p) == Cardinality(Borrowers(Instance[p])) < PoolMax

Go(p, l) == pc' = [pc EXCEPT ![p] = l]
Settle(p, l, o) == Go(p, l) /\ res' = [res EXCEPT ![p] = o]
SetTerms(p, t) == terms' = [terms EXCEPT ![p] = t]

Init ==
  /\ pc = [p \in Procs |-> "idle"]
  /\ req = [p \in Procs |-> None]
  /\ terms = [p \in Procs |-> NoTerms]
  /\ seen = [p \in Procs |-> NothingRead]
  /\ view = [p \in Procs |-> None]
  /\ res = [p \in Procs |-> "none"]
  /\ holder = [u \in Users |-> None]
  /\ live = Quotes
  /\ cache = [u \in Users |-> None]
  /\ wallets = {u \in Users : \E c \in Currencies : Opening[<<u, c>>] > 0}
  /\ rows = HouseRows \cup {a \in Accounts : Opening[a] > 0}
  /\ bal = Opening
  /\ journal = {} /\ outbox = {} /\ orders = {}
  /\ rowOwner = [a \in Accounts |-> None]
  /\ keyOwner = [k \in JournalKeys |-> None]

----------------------------------------------------------------------------
(* Before the wallet lock. *)

\* A request arrives.
Start(p) ==
  /\ pc[p] = "idle"
  /\ \E r \in Requests :
       /\ req' = [req EXCEPT ![p] = r]
       /\ Go(p, IF r.op = "get" THEN "readCache" ELSE "validate")
  /\ UNCHANGED <<res, terms, view, redis, stored, tx>>

\* What validation refuses goes no further. The terms of a funding are now known.
Validate(p) ==
  /\ pc[p] = "validate"
  /\ IF Valid(req[p]) THEN Go(p, "checkKey") /\ UNCHANGED res
     ELSE Settle(p, "done", "invalid")
  /\ IF Valid(req[p]) /\ req[p].op = "fund"
     THEN \E t \in TermsOf(req[p]) : SetTerms(p, t)
     ELSE UNCHANGED terms
  /\ UNCHANGED <<req, view, redis, stored, tx>>

\* findByIdempotencyKey before anything is locked: journals are only ever written
\* with status SUCCESS, so one that exists is replayed.
CheckKey(p) ==
  /\ pc[p] = "checkKey" /\ PoolFree(p)
  /\ IF HasEntry(U(p), req[p].key)
     THEN Settle(p, "done", "replay")
     ELSE /\ Go(p, IF req[p].op = "trade" THEN "consumeQuote" ELSE "lock")
          /\ UNCHANGED res
  /\ UNCHANGED <<local, redis, stored, tx>>

\* Seeded bug: the quote is read with GET and stays in Redis.
ConsumeQuoteByGet(p) ==
  LET q == req[p].quote IN
  /\ pc[p] = "consumeQuote"
  /\ \/ q \notin live /\ Settle(p, "done", "quoteGone") /\ UNCHANGED terms
     \/ /\ q \in live
        /\ SetTerms(p, QuoteBook[q].terms) /\ Go(p, "lock") /\ UNCHANGED res
  /\ UNCHANGED <<req, view, redis, stored, tx>>

\* Seeded bug: the quote is redeemed whoever it was issued to.
ConsumeAnyQuote(p) ==
  LET q == req[p].quote IN
  /\ pc[p] = "consumeQuote"
  /\ live' = live \ {q}
  /\ \/ q \notin live /\ Settle(p, "done", "quoteGone") /\ UNCHANGED terms
     \/ /\ q \in live
        /\ SetTerms(p, QuoteBook[q].terms) /\ Go(p, "lock") /\ UNCHANGED res
  /\ UNCHANGED <<req, view, holder, cache, stored, tx>>

\* A quote that was read is redeemed by the user it was issued to; another user's
\* is put back.
TakeQuote(p) ==
  LET q == req[p].quote IN
  \/ /\ QuoteBook[q].user = U(p)
     /\ SetTerms(p, QuoteBook[q].terms) /\ Go(p, "lock") /\ UNCHANGED res
  \/ /\ QuoteBook[q].user # U(p)
     /\ Go(p, "restoreQuote") /\ UNCHANGED <<terms, res>>

\* GETDEL: the quote leaves Redis with the read.
ConsumeQuote(p) ==
  LET q == req[p].quote IN
  /\ pc[p] = "consumeQuote"
  /\ live' = live \ {q}
  /\ \/ q \notin live /\ Settle(p, "done", "quoteGone") /\ UNCHANGED terms
     \/ q \in live /\ TakeQuote(p)
  /\ UNCHANGED <<req, view, holder, cache, stored, tx>>

\* GETDEL fails, with or without effect: GET and DEL take its place.
GetdelFails(p) ==
  /\ "getdel" \in Faults /\ pc[p] = "consumeQuote"
  /\ Go(p, "getQuote")
  /\ live' \in {live, live \ {req[p].quote}}
  /\ UNCHANGED <<res, local, holder, cache, stored, tx>>

GetQuote(p) ==
  /\ pc[p] = "getQuote"
  /\ IF req[p].quote \in live THEN Go(p, "delQuote") /\ UNCHANGED res
     ELSE Settle(p, "done", "quoteGone")
  /\ UNCHANGED <<local, redis, stored, tx>>

DelQuote(p) ==
  /\ pc[p] = "delQuote"
  /\ live' = live \ {req[p].quote}
  /\ TakeQuote(p)
  /\ UNCHANGED <<req, view, holder, cache, stored, tx>>

\* Put back under its remaining TTL, unless that has run out or Redis refuses.
RestoreQuote(p) ==
  /\ pc[p] = "restoreQuote"
  /\ Settle(p, "done", "quoteGone")
  /\ live' \in {live, live \cup {req[p].quote}}
  /\ UNCHANGED <<local, holder, cache, stored, tx>>

\* The Redis commands of consumeQuote fail; the quote may be gone all the same.
QuoteFails(p) ==
  /\ "redis" \in Faults /\ pc[p] \in Redeeming \ {"restoreQuote"}
  /\ Settle(p, "done", "failed")
  /\ live' \in {live, live \ {req[p].quote}}
  /\ UNCHANGED <<local, holder, cache, stored, tx>>

\* Seeded bug: the lock is taken whoever holds it.
AcquireAnyway(p) ==
  /\ pc[p] = "lock"
  /\ holder' = [holder EXCEPT ![U(p)] = p]
  /\ Go(p, CASE req[p].op = "fund" -> "recheck"
             [] req[p].op = "convert" -> "rates"
             [] OTHER -> "findWallet")
  /\ UNCHANGED <<res, local, live, cache, stored, tx>>

\* LockService.acquire gets the Redlock on wallet:<user>.
Acquire(p) ==
  /\ pc[p] = "lock"
  /\ holder[U(p)] = None
  /\ holder' = [holder EXCEPT ![U(p)] = p]
  /\ Go(p, CASE req[p].op = "fund" -> "recheck"
             [] req[p].op = "convert" -> "rates"
             [] OTHER -> "findWallet")
  /\ UNCHANGED <<res, local, live, cache, stored, tx>>

\* ... or gives up after its 50 retries.
Busy(p) ==
  /\ pc[p] = "lock"
  /\ holder[U(p)] # None \/ "redis" \in Faults
  /\ Settle(p, "done", "busy")
  /\ UNCHANGED <<local, redis, stored, tx>>

----------------------------------------------------------------------------
(* Under the wallet lock, before the transaction. *)

\* Seeded bug: fundWallet goes on without looking again.
NoRecheck(p) ==
  /\ pc[p] = "recheck"
  /\ Go(p, "findWallet")
  /\ UNCHANGED <<res, local, redis, stored, tx>>

\* Seeded bug: the replay returns without its finally, and keeps the lock.
RecheckKeepsLock(p) ==
  /\ pc[p] = "recheck" /\ PoolFree(p)
  /\ IF HasEntry(U(p), req[p].key) THEN Settle(p, "done", "replay")
     ELSE Go(p, "findWallet") /\ UNCHANGED res
  /\ UNCHANGED <<local, redis, stored, tx>>

\* fundWallet looks for the key again, now that it holds the lock.
Recheck(p) ==
  /\ pc[p] = "recheck" /\ PoolFree(p)
  /\ IF HasEntry(U(p), req[p].key) THEN Settle(p, "unlock", "replay")
     ELSE Go(p, "findWallet") /\ UNCHANGED res
  /\ UNCHANGED <<local, redis, stored, tx>>

\* convertFunds fetches the rates and floors the amount; zero is too small.
Rates(p) ==
  /\ pc[p] = "rates"
  /\ \/ \E t \in TermsOf(req[p]) : SetTerms(p, t) /\ Go(p, "findWallet") /\ UNCHANGED res
     \/ 0 \in Converted /\ Settle(p, "unlock", "tooSmall") /\ UNCHANGED terms
     \/ "fx" \in Faults /\ Settle(p, "unlock", "noRates") /\ UNCHANGED terms
  /\ UNCHANGED <<req, view, redis, stored, tx>>

FindWallet(p) ==
  /\ pc[p] = "findWallet" /\ PoolFree(p)
  /\ Go(p, IF U(p) \in wallets THEN "connect" ELSE "createWallet")
  /\ UNCHANGED <<res, local, redis, stored, tx>>

\* save() outside any transaction: wallets.userId is unique, and whoever comes
\* second fails before its transaction starts. A save that fails may have saved.
CreateWallet(p) ==
  /\ pc[p] = "createWallet" /\ PoolFree(p)
  /\ \/ /\ U(p) \notin wallets
        /\ wallets' = wallets \cup {U(p)}
        /\ Go(p, "connect") /\ UNCHANGED res
     \/ /\ U(p) \in wallets \/ "db" \in Faults
        /\ wallets' \in {wallets, wallets \cup {U(p)}}
        /\ Settle(p, "unlock", "failed")
  /\ UNCHANGED <<local, redis, rows, bal, journal, outbox, orders, tx>>

FirstRow(p) == IF req[p].op = "fund" THEN "lockTo" ELSE "lockFrom"

\* The query runner connects and begins its transaction.
Connect(p) ==
  /\ pc[p] = "connect" /\ PoolFree(p)
  /\ Go(p, FirstRow(p))
  /\ UNCHANGED <<res, local, redis, stored, tx>>

----------------------------------------------------------------------------
(* The transaction. *)

\* Seeded bug: the row is read without FOR UPDATE.
ReadRow(p, a) ==
  /\ seen' = [seen EXCEPT ![p][a] = bal[a]]
  /\ UNCHANGED <<rowOwner, keyOwner>>

\* SELECT ... FOR UPDATE of an existing row: wait for its owner, then read what is
\* committed.
LockRow(p, a) ==
  /\ rowOwner[a] = None
  /\ rowOwner' = [rowOwner EXCEPT ![a] = p]
  /\ seen' = [seen EXCEPT ![p][a] = bal[a]]
  /\ UNCHANGED keyOwner

\* Seeded bug: the balance is not compared with the amount.
LockFromUnchecked(p) ==
  /\ pc[p] = "lockFrom"
  /\ From(p) \in rows
  /\ LockRow(p, From(p)) /\ Go(p, "lockTo")
  /\ UNCHANGED <<res, local, redis, stored>>

LockFrom(p) ==
  /\ pc[p] = "lockFrom"
  /\ \/ /\ From(p) \notin rows
        /\ Settle(p, "rollback", "insufficient") /\ UNCHANGED tx
     \/ /\ From(p) \in rows
        /\ LockRow(p, From(p))
        /\ IF bal[From(p)] < terms[p].in THEN Settle(p, "rollback", "insufficient")
           ELSE Go(p, "lockTo") /\ UNCHANGED res
  /\ UNCHANGED <<local, redis, stored>>

FirstHouseRow(p) == IF req[p].op = "fund" THEN "lockHouseTo" ELSE "lockHouseFrom"

\* A row another transaction has inserted and not committed is not there yet.
LockTo(p) ==
  /\ pc[p] = "lockTo"
  /\ \/ To(p) \notin rows /\ Go(p, "insertTo") /\ UNCHANGED tx
     \/ To(p) \in rows /\ LockRow(p, To(p)) /\ Go(p, FirstHouseRow(p))
  /\ UNCHANGED <<res, local, redis, stored>>

\* INSERT of the zero balance: waits on an uncommitted one, and fails on the unique
\* (walletId, currency) if that was committed.
InsertTo(p) ==
  /\ pc[p] = "insertTo"
  /\ rowOwner[To(p)] = None
  /\ IF To(p) \in rows THEN Settle(p, "rollback", "failed") /\ UNCHANGED tx
     ELSE LockRow(p, To(p)) /\ Go(p, FirstHouseRow(p)) /\ UNCHANGED res
  /\ UNCHANGED <<local, redis, stored>>

LockHouseFrom(p) ==
  /\ pc[p] = "lockHouseFrom"
  /\ LockRow(p, HouseFrom(p)) /\ Go(p, "lockHouseTo")
  /\ UNCHANGED <<res, local, redis, stored>>

\* Seeded bug: the house may go below zero.
LockHouseToUnchecked(p) ==
  /\ pc[p] = "lockHouseTo"
  /\ LockRow(p, HouseTo(p)) /\ Go(p, "record")
  /\ UNCHANGED <<res, local, redis, stored>>

LockHouseTo(p) ==
  /\ pc[p] = "lockHouseTo"
  /\ LockRow(p, HouseTo(p))
  /\ IF bal[HouseTo(p)] < terms[p].out THEN Settle(p, "rollback", "exhausted")
     ELSE Go(p, "record") /\ UNCHANGED res
  /\ UNCHANGED <<local, redis, stored>>

\* Seeded bug: (userId, idempotencyKey) is not unique in the journal.
RecordAnyKey(p) ==
  /\ pc[p] = "record"
  /\ Go(p, "commit")
  /\ UNCHANGED <<res, local, redis, stored, tx>>

\* recordJournalEntry, with its legs and its outbox row: the insert waits on an
\* uncommitted one of the same key and fails on a committed one.
RecordJournalEntry(p) ==
  LET k == <<U(p), req[p].key>> IN
  /\ pc[p] = "record"
  /\ keyOwner[k] = None
  /\ IF HasEntry(U(p), req[p].key)
     THEN Settle(p, "rollback", "failed") /\ UNCHANGED tx
     ELSE /\ keyOwner' = [keyOwner EXCEPT ![k] = p]
          /\ Go(p, "commit") /\ UNCHANGED <<res, seen, rowOwner>>
  /\ UNCHANGED <<local, redis, stored>>

\* The end of a transaction, however it ends.
EndTx(p) ==
  /\ seen' = [seen EXCEPT ![p] = NothingRead]
  /\ rowOwner' = [a \in Accounts |-> IF rowOwner[a] = p THEN None ELSE rowOwner[a]]
  /\ keyOwner' = [k \in JournalKeys |-> IF keyOwner[k] = p THEN None ELSE keyOwner[k]]

\* The updates write what was read plus or minus the amount.
Write(p, a) ==
  IF a \in Touched(U(p), terms[p]) THEN seen[p][a] + Delta(U(p), terms[p], a) ELSE bal[a]

\* What COMMIT makes visible: balances, the journal row, its outbox row, the order.
Apply(p) ==
  /\ bal' = [a \in Accounts |-> Write(p, a)]
  /\ rows' = rows \cup {To(p)}
  /\ journal' = journal \cup {Entry(p, req[p], terms[p])}
  /\ outbox' = outbox \cup {p}
  /\ orders' = IF req[p].op = "trade" THEN orders \cup {<<p, "FILLED">>} ELSE orders
  /\ EndTx(p)
  /\ UNCHANGED wallets

Commit(p) ==
  /\ pc[p] = "commit"
  /\ Apply(p)
  /\ Settle(p, "invalidate", "ok")
  /\ UNCHANGED <<local, redis>>

\* Seeded bug: a commit in doubt is taken for a failed one, and the trade's order is
\* saved as rejected.
RejectLostCommit(p) ==
  /\ "db" \in Faults /\ pc[p] = "commit"
  /\ Apply(p)
  /\ Settle(p, "rollback", "failed")
  /\ UNCHANGED <<local, redis>>

\* The server commits and the connection breaks: ROLLBACK throws too, so neither the
\* cache is cleared nor a rejected order saved, and the client is told of a failure.
CommitReplyLost(p) ==
  /\ "db" \in Faults /\ pc[p] = "commit"
  /\ Apply(p)
  /\ Settle(p, "unlock", "failed")
  /\ UNCHANGED <<local, redis>>

\* DEL wallet:balances:<user>, its failure swallowed.
Invalidate(p) ==
  /\ pc[p] = "invalidate"
  /\ Go(p, "unlock")
  /\ \/ cache' = [cache EXCEPT ![U(p)] = None]
     \/ "redis" \in Faults /\ UNCHANGED cache
  /\ UNCHANGED <<res, local, holder, live, stored, tx>>

\* Seeded bug: ROLLBACK is forgotten and the connection keeps its locks.
ForgetRollback(p) ==
  /\ pc[p] = "rollback"
  /\ Go(p, IF req[p].op = "trade" THEN "reject" ELSE "unlock")
  /\ UNCHANGED <<res, local, redis, stored, tx>>

Rollback(p) ==
  /\ pc[p] = "rollback"
  /\ EndTx(p)
  /\ Go(p, IF req[p].op = "trade" THEN "reject" ELSE "unlock")
  /\ UNCHANGED <<res, local, redis, stored>>

\* executeTrade's audit row, best effort, saved outside the failed transaction: on a
\* second connection, while the query runner still keeps the first.
SaveRejected(p) ==
  /\ pc[p] = "reject" /\ PoolFree(p)
  /\ Go(p, "unlock")
  /\ \/ orders' = orders \cup {<<p, "REJECTED">>}
     \/ "db" \in Faults /\ UNCHANGED orders
  /\ UNCHANGED <<res, local, redis, wallets, rows, bal, journal, outbox, tx>>

\* Redlock releases only what is still its own; a failed release is logged.
Unlock(p) ==
  /\ pc[p] = "unlock"
  /\ Go(p, "done")
  /\ \/ holder' = [holder EXCEPT ![U(p)] = IF @ = p THEN None ELSE @]
     \/ "redis" \in Faults /\ UNCHANGED holder
  /\ UNCHANGED <<res, local, live, cache, stored, tx>>

----------------------------------------------------------------------------
(* getWallet: cache-aside, without the lock. *)

\* A failed GET is a miss.
ReadCache(p) ==
  /\ pc[p] = "readCache"
  /\ \/ /\ cache[U(p)] # None
        /\ view' = [view EXCEPT ![p] = cache[U(p)]]
        /\ Settle(p, "done", "ok")
     \/ /\ cache[U(p)] = None \/ "redis" \in Faults
        /\ Go(p, "readWallet")
        /\ UNCHANGED <<view, res>>
  /\ UNCHANGED <<req, terms, redis, stored, tx>>

ReadWallet(p) ==
  /\ pc[p] = "readWallet" /\ PoolFree(p)
  /\ IF U(p) \in wallets
     THEN view' = [view EXCEPT ![p] = BalancesOf(U(p))] /\ Go(p, "fillCache")
     ELSE Go(p, "createOwn") /\ UNCHANGED view
  /\ UNCHANGED <<res, req, terms, redis, stored, tx>>

\* As createWallet does.
CreateOwn(p) ==
  /\ pc[p] = "createOwn" /\ PoolFree(p)
  /\ \/ /\ U(p) \notin wallets
        /\ wallets' = wallets \cup {U(p)}
        /\ view' = [view EXCEPT ![p] = [c \in Currencies |-> 0]]
        /\ Go(p, "fillCache") /\ UNCHANGED res
     \/ /\ U(p) \in wallets \/ "db" \in Faults
        /\ wallets' \in {wallets, wallets \cup {U(p)}}
        /\ Settle(p, "done", "failed") /\ UNCHANGED view
  /\ UNCHANGED <<req, terms, redis, rows, bal, journal, outbox, orders, tx>>

\* SET ... EX 3600 of what was read, its failure logged.
FillCache(p) ==
  /\ pc[p] = "fillCache"
  /\ Settle(p, "done", "ok")
  /\ \/ cache' = [cache EXCEPT ![U(p)] = view[p]]
     \/ "redis" \in Faults /\ UNCHANGED cache
  /\ UNCHANGED <<local, holder, live, stored, tx>>

----------------------------------------------------------------------------
(* What the environment does. *)

\* p waits for q: a row lock, an uncommitted row or an uncommitted journal key.
WaitsFor(p, q) ==
  \/ pc[p] = "lockFrom" /\ From(p) \in rows /\ rowOwner[From(p)] = q
  \/ pc[p] = "lockTo" /\ To(p) \in rows /\ rowOwner[To(p)] = q
  \/ pc[p] = "insertTo" /\ rowOwner[To(p)] = q
  \/ pc[p] = "lockHouseFrom" /\ rowOwner[HouseFrom(p)] = q
  \/ pc[p] = "lockHouseTo" /\ rowOwner[HouseTo(p)] = q
  \/ pc[p] = "record" /\ keyOwner[<<U(p), req[p].key>>] = q

\* p is on a cycle of waiting transactions: each waits for at most one.
Deadlocked(p) ==
  \E S \in SUBSET Procs :
    /\ p \in S
    /\ \A x \in S : \E y \in S : WaitsFor(x, y)
    /\ \A y \in S : \E x \in S : WaitsFor(x, y)

\* Postgres aborts a transaction of the cycle.
AbortDeadlocked(p) ==
  /\ Deadlocked(p)
  /\ Settle(p, "rollback", "failed")
  /\ UNCHANGED <<local, redis, stored, tx>>

\* A query outside any transaction fails, or the connection the pool opens for one.
QueryFails(p) ==
  /\ "db" \in Faults /\ PoolFree(p)
  /\ \/ pc[p] \in {"checkKey", "readWallet"} /\ Settle(p, "done", "failed")
     \/ /\ pc[p] \in {"recheck", "findWallet", "connect"}
        /\ Settle(p, "unlock", "failed")
  /\ UNCHANGED <<local, redis, stored, tx>>

\* A statement of the transaction fails, or its connection breaks and takes the
\* transaction with it (ROLLBACK throws then, and nothing is left to reject).
DbFails(p) ==
  /\ "db" \in Faults /\ pc[p] \in InTx
  /\ \/ Settle(p, "rollback", "failed") /\ UNCHANGED tx
     \/ Settle(p, "unlock", "failed") /\ EndTx(p)
  /\ UNCHANGED <<local, redis, stored>>

\* An instance dies, and its handlers with it, one after the other: Postgres rolls a
\* transaction back when it misses its client, the Redlock stays.
Crash(p) ==
  /\ "crash" \in Faults /\ pc[p] \notin {"idle"} \cup Ended
  /\ Go(p, "crashed")
  /\ EndTx(p)
  /\ UNCHANGED <<res, local, redis, stored>>

\* The TTL of a lock runs out: LockService never extends it.
LeaseExpires(u) ==
  /\ holder[u] # None
  /\ "slow" \in Faults \/ pc[holder[u]] \in Ended
  /\ holder' = [holder EXCEPT ![u] = None]
  /\ UNCHANGED <<pc, res, local, live, cache, stored, tx>>

QuoteExpires(q) ==
  /\ q \in live
  /\ live' = live \ {q}
  /\ UNCHANGED <<pc, res, local, holder, cache, stored, tx>>

CacheExpires(u) ==
  /\ cache[u] # None
  /\ cache' = [cache EXCEPT ![u] = None]
  /\ UNCHANGED <<pc, res, local, holder, live, stored, tx>>

----------------------------------------------------------------------------
\* What a handler does of itself, once it runs.
Admit(p) ==
  \/ Validate(p) \/ CheckKey(p)
  \/ ConsumeQuote(p) \/ GetdelFails(p) \/ GetQuote(p) \/ DelQuote(p)
  \/ RestoreQuote(p) \/ QuoteFails(p)
  \/ Acquire(p) \/ Busy(p)
Prepare(p) ==
  Recheck(p) \/ Rates(p) \/ FindWallet(p) \/ CreateWallet(p) \/ Connect(p)
LockRows(p) ==
  LockFrom(p) \/ LockTo(p) \/ InsertTo(p) \/ LockHouseFrom(p) \/ LockHouseTo(p)
Transact(p) == RecordJournalEntry(p) \/ Commit(p) \/ CommitReplyLost(p) \/ Rollback(p)
Finish(p) == Invalidate(p) \/ SaveRejected(p) \/ Unlock(p)
Read(p) == ReadCache(p) \/ ReadWallet(p) \/ CreateOwn(p) \/ FillCache(p)

Step(p) ==
  Admit(p) \/ Prepare(p) \/ LockRows(p) \/ Transact(p) \/ Finish(p) \/ Read(p)

\* What happens to it.
Disturb(p) == AbortDeadlocked(p) \/ QueryFails(p) \/ DbFails(p) \/ Crash(p)

\* The TTLs of Redis.
Expire ==
  \/ \E u \in Users : LeaseExpires(u) \/ CacheExpires(u)
  \/ \E q \in Quotes : QuoteExpires(q)

Next == (\E p \in Procs : Start(p) \/ Step(p) \/ Disturb(p)) \/ Expire

Spec == Init /\ [][Next]_vars

\* A running handler goes on where nothing keeps it waiting, and Postgres detects
\* deadlocks.
Fairness == \A p \in Procs : WF_vars(Step(p)) /\ WF_vars(AbortDeadlocked(p))

FairSpec == Spec /\ Fairness
=============================================================================
