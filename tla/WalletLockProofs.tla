-------------------------- MODULE WalletLockProofs --------------------------
(***************************************************************************)
(* What the Redlock of a wallet gives as long as no handler outlives its   *)
(* TTL, and the orders of trades, on top of the invariant of WalletProofs. *)
(***************************************************************************)
EXTENDS WalletProofs

\* The lists that UNCHANGED names.
USE DEF vars, local, redis, stored, tx

\* A handler between acquire and release is the one Redis has on record.
LockInv == \A p \in Procs : pc[p] \in Critical => holder[U(p)] = p

\* The steps of a funding that has found its key free under the lock.
Looked == {"findWallet", "createWallet", "connect"} \cup InTx

\* What such a funding has found is still so.
FundInv ==
  \A p \in Procs : pc[p] \in Looked /\ req[p].op = "fund" => ~HasEntry(U(p), req[p].key)

\* A handler's request does not change once it is served.
LEMMA RequestStays ==
  ASSUME TypeOK, HandlerInv, NEW p \in Procs, Step(p) \/ Disturb(p)
  PROVE  UNCHANGED req
BY AdmitFrame, PrepareFrame, LockRowsFrame, TransactFrame, FinishFrame, ReadFrame,
   DisturbFrame DEF Step

\* A validated handler serves a known user.
LEMMA CriticalUser ==
  ASSUME TypeOK, HandlerInv, NEW p \in Procs, pc[p] \in Critical \cup Before
  PROVE  U(p) \in Users /\ req[p] \in Requests
<1>1. req[p] \in Requests
  BY DEF HandlerInv, HandlerAt, Critical, UnderLock, InTx, RowSteps, After, Before, Redeeming
<1> QED BY <1>1, RequestsAssumption DEF U, Request

\* Only acquire leads under the lock, and only acquire and release change its holder.
LEMMA EntersByAcquire ==
  ASSUME TypeOK, HandlerInv, NEW p \in Procs, Start(p) \/ Step(p) \/ Disturb(p),
         ~Acquire(p), ~Unlock(p)
  PROVE  UNCHANGED holder /\ (pc'[p] \in Critical => pc[p] \in Critical)
<1> USE DEF TypeOK, HandlerTypes, Go, Settle, Critical, UnderLock, InTx, RowSteps, After
<1>1. CASE Start(p)
  BY <1>1 DEF Start
<1>2. CASE Admit(p)
  BY <1>2 DEF Admit, Validate, CheckKey, ConsumeQuote, TakeQuote, GetdelFails, GetQuote,
              DelQuote, Redeeming, RestoreQuote, QuoteFails, Busy
<1>3. CASE Prepare(p)
  BY <1>3, PrepareFrame DEF Prepare, Recheck, Rates, FindWallet, CreateWallet, Connect
<1>4. CASE LockRows(p)
  BY <1>4, LockRowsFrame DEF LockRows, LockFrom, LockTo, InsertTo, LockHouseFrom, LockHouseTo
<1>5. CASE Transact(p)
  BY <1>5, TransactFrame DEF Transact, RecordJournalEntry, Commit, CommitReplyLost, Rollback
<1>6. CASE Invalidate(p) \/ SaveRejected(p)
  BY <1>6 DEF Invalidate, SaveRejected
<1>7. CASE Read(p)
  BY <1>7, ReadFrame DEF Read, ReadCache, ReadWallet, CreateOwn, FillCache
<1>8. CASE Disturb(p)
  <2>1. CASE AbortDeadlocked(p)
    BY <2>1, DeadlockedInTx DEF AbortDeadlocked
  <2>2. CASE QueryFails(p) \/ DbFails(p) \/ Crash(p)
    BY <2>2 DEF QueryFails, DbFails, Crash
  <2> QED BY <1>8, <2>1, <2>2 DEF Disturb
<1> QED BY <1>1, <1>2, <1>3, <1>4, <1>5, <1>6, <1>7, <1>8 DEF Step, Finish

\* A lock passes on only when its holder has released it or ended.
LEMMA LockInvStep ==
  ASSUME "slow" \notin Faults, Inv, LockInv, [Next]_vars
  PROVE  LockInv'
<1> USE DEF Inv
<1>1. ASSUME NEW p \in Procs, Start(p) \/ Step(p) \/ Disturb(p)
      PROVE  LockInv'
  <2>1. \A q \in Procs \ {p} : pc'[q] = pc[q] /\ req'[q] = req[q] /\ U(q)' = U(q)
    BY <1>1, OthersAlone DEF TypeOK, U
  <2>2. CASE Acquire(p)
    <3>1. /\ pc[p] = "lock" /\ UNCHANGED req /\ holder[U(p)] = None
          /\ holder' = [holder EXCEPT ![U(p)] = p]
      BY <2>2 DEF Acquire
    <3>2. U(p) \in Users /\ U(p)' = U(p)
      BY <3>1, CriticalUser DEF Before, U
    <3>3. \A q \in Procs \ {p} : pc[q] \in Critical => U(q) # U(p)
      BY <3>1, NamesAssumption DEF LockInv
    <3> QED BY <2>1, <3>1, <3>2, <3>3 DEF LockInv, TypeOK, RedisTypes
  <2>3. CASE Unlock(p)
    <3>1. /\ pc[p] = "unlock" /\ UNCHANGED req /\ pc' = [pc EXCEPT ![p] = "done"]
          /\ \/ holder' = [holder EXCEPT ![U(p)] =
                             IF holder[U(p)] = p THEN None ELSE holder[U(p)]]
             \/ UNCHANGED holder
      BY <2>3 DEF Unlock, Go
    <3>2. pc'[p] \notin Critical
      BY <3>1 DEF TypeOK, HandlerTypes, Critical, UnderLock, InTx, RowSteps, After
    <3>3. ASSUME NEW q \in Procs \ {p}, pc[q] \in Critical
          PROVE  holder'[U(q)] = q
      <4>1. holder[U(q)] = q /\ U(q) \in Users
        BY <3>3, CriticalUser DEF LockInv
      <4> QED BY <3>1, <4>1 DEF TypeOK, RedisTypes
    <3> QED BY <2>1, <3>2, <3>3 DEF LockInv
  <2>4. CASE ~Acquire(p) /\ ~Unlock(p)
    <3>1. UNCHANGED holder /\ (pc'[p] \in Critical => pc[p] \in Critical)
      BY <1>1, <2>4, EntersByAcquire
    <3>2. pc'[p] \in Critical => U(p)' = U(p)
      <4>1. CASE Start(p)
        BY <4>1 DEF Start, Go, TypeOK, HandlerTypes, Critical, UnderLock, InTx, RowSteps,
                    After
      <4> QED BY <1>1, <4>1, RequestStays DEF U
    <3> QED BY <2>1, <3>1, <3>2 DEF LockInv
  <2> QED BY <2>2, <2>3, <2>4
<1>2. CASE Expire
  <2>1. UNCHANGED <<pc, req>> /\ \A q \in Procs : U(q)' = U(q)
    BY <1>2, ExpireFrame DEF U
  <2>2. CASE UNCHANGED holder
    BY <2>1, <2>2 DEF LockInv
  <2>3. ASSUME NEW u \in Users, LeaseExpires(u)
        PROVE  LockInv'
    <3>1. pc[holder[u]] \in Ended /\ holder' = [holder EXCEPT ![u] = None]
      BY <2>3 DEF LeaseExpires
    <3>2. \A q \in Procs : pc[q] \in Critical => U(q) # u /\ U(q) \in Users
      BY <3>1, CriticalUser
         DEF LockInv, Critical, UnderLock, InTx, RowSteps, After, Ended
    <3> QED BY <2>1, <3>1, <3>2 DEF LockInv, TypeOK, RedisTypes
  <2> QED BY <1>2, <2>2, <2>3 DEF Expire, CacheExpires, QuoteExpires
<1>3. CASE UNCHANGED vars
  BY <1>3 DEF LockInv, U
<1> QED BY <1>1, <1>2, <1>3 DEF Next

\* While no handler outlives the TTL, the Redlock of a wallet is with the handler at
\* work in it.
THEOREM LockInvariance ==
  ASSUME "slow" \notin Faults
  PROVE  Spec => []LockInv
<1>1. Init => LockInv
  BY DEF Init, LockInv, Critical, UnderLock, InTx, RowSteps, After
<1>2. Inv /\ LockInv /\ [Next]_vars => LockInv'
  BY LockInvStep
<1> QED BY <1>1, <1>2, Invariance, PTL DEF Spec

\* While every handler finishes within the TTL of its Redlock, no two are at work in
\* one wallet, whatever crashes and failed releases come in between.
THEOREM WalletsAreExclusive ==
  ASSUME "slow" \notin Faults
  PROVE  Spec => []OneHolderPerWallet
<1>1. LockInv => OneHolderPerWallet
  BY DEF LockInv, OneHolderPerWallet
<1> QED BY <1>1, LockInvariance, PTL

\* A handler at work under the lock goes on there until it releases or dies.
LEMMA LeavesByUnlock ==
  ASSUME TypeOK, HandlerInv, NEW p \in Procs, Start(p) \/ Step(p) \/ Disturb(p), ~Unlock(p),
         pc[p] \in Critical \cup {"crashed"}
  PROVE  pc'[p] \in Critical \cup {"crashed"} /\ U(p)' = U(p)
<1> USE DEF TypeOK, HandlerTypes, Go, Settle, Critical, UnderLock, InTx, RowSteps, After
<1>1. ~Start(p) /\ ~Admit(p) /\ ~Read(p)
  BY DEF Start, Admit, Validate, CheckKey, ConsumeQuote, GetdelFails, GetQuote, DelQuote,
         RestoreQuote, QuoteFails, Redeeming, Acquire, Busy, Read, ReadCache, ReadWallet,
         CreateOwn, FillCache
<1>2. U(p)' = U(p)
  BY <1>1, RequestStays DEF U
<1>3. CASE Prepare(p)
  BY <1>2, <1>3 DEF Prepare, Recheck, Rates, FindWallet, CreateWallet, Connect, FirstRow
<1>4. CASE LockRows(p)
  BY <1>2, <1>4 DEF LockRows, LockFrom, LockTo, InsertTo, LockHouseFrom, LockHouseTo,
                    FirstHouseRow
<1>5. CASE Transact(p) \/ Invalidate(p) \/ SaveRejected(p)
  BY <1>2, <1>5 DEF Transact, RecordJournalEntry, Commit, CommitReplyLost, Rollback,
                    Invalidate, SaveRejected
<1>6. CASE Disturb(p)
  BY <1>2, <1>6 DEF Disturb, AbortDeadlocked, QueryFails, DbFails, Crash
<1> QED BY <1>1, <1>3, <1>4, <1>5, <1>6 DEF Step, Finish

\* Where Redis takes every release, a lock is let go by every way out of its handler.
LEMMA LockEndsStep ==
  ASSUME "redis" \notin Faults, TypeOK, HandlerInv, LockEndsWithItsHandler, [Next]_vars
  PROVE  LockEndsWithItsHandler'
<1>1. ASSUME NEW p \in Procs, Start(p) \/ Step(p) \/ Disturb(p), NEW u \in Users,
             holder'[u] # None
      PROVE  req'[holder'[u]].user = u /\ pc'[holder'[u]] \in Critical \cup {"crashed"}
  <2>1. \A q \in Procs \ {p} : pc'[q] = pc[q] /\ req'[q] = req[q] /\ U(q)' = U(q)
    BY <1>1, OthersAlone DEF TypeOK, U
  <2>2. CASE Acquire(p)
    <3>1. /\ pc[p] = "lock" /\ UNCHANGED req
          /\ holder' = [holder EXCEPT ![U(p)] = p]
          /\ pc'[p] \in {"recheck", "rates", "findWallet"}
      BY <2>2 DEF Acquire, Go, TypeOK, HandlerTypes
    <3>2. pc'[p] \in Critical /\ U(p)' = U(p)
      BY <3>1 DEF Critical, UnderLock, U
    <3>3. CASE u = U(p)
      BY <3>1, <3>2, <3>3 DEF TypeOK, RedisTypes, U
    <3>4. CASE u # U(p)
      <4>1. holder'[u] = holder[u]
        BY <3>1, <3>4 DEF TypeOK, RedisTypes
      <4>2. holder[u] \in Procs \ {p}
        BY <1>1, <3>1, <4>1
           DEF LockEndsWithItsHandler, U, TypeOK, RedisTypes, Critical, UnderLock, InTx, RowSteps,
               After
      <4> QED BY <1>1, <2>1, <4>1, <4>2 DEF LockEndsWithItsHandler, U
    <3> QED BY <3>3, <3>4
  <2>3. CASE Unlock(p)
    <3>1. holder' = [holder EXCEPT ![U(p)] = IF holder[U(p)] = p THEN None ELSE holder[U(p)]]
      BY <2>3 DEF Unlock
    <3>2. holder'[u] = holder[u] /\ holder[u] # p
      BY <1>1, <3>1 DEF TypeOK, RedisTypes, LockEndsWithItsHandler, U
    <3>3. holder[u] \in Procs \ {p}
      BY <1>1, <3>2 DEF TypeOK, RedisTypes
    <3> QED BY <1>1, <2>1, <3>2, <3>3 DEF LockEndsWithItsHandler, U
  <2>4. CASE ~Acquire(p) /\ ~Unlock(p)
    <3>1. UNCHANGED holder
      BY <1>1, <2>4, EntersByAcquire
    <3>2. holder[u] \in Procs /\ U(holder[u]) = u /\ pc[holder[u]] \in Critical \cup {"crashed"}
      BY <1>1, <3>1 DEF LockEndsWithItsHandler, U, TypeOK, RedisTypes
    <3>3. CASE holder[u] = p
      BY <1>1, <2>4, <3>1, <3>2, <3>3, LeavesByUnlock DEF U
    <3>4. CASE holder[u] # p
      BY <2>1, <3>1, <3>2, <3>4 DEF U
    <3> QED BY <3>3, <3>4
  <2> QED BY <2>2, <2>3, <2>4
<1>2. ASSUME Expire \/ UNCHANGED vars, NEW u \in Users, holder'[u] # None
      PROVE  req'[holder'[u]].user = u /\ pc'[holder'[u]] \in Critical \cup {"crashed"}
  <2>1. UNCHANGED <<pc, req>>
    BY <1>2, ExpireFrame
  <2>2. holder'[u] = holder[u]
    BY <1>2 DEF Expire, LeaseExpires, CacheExpires, QuoteExpires, TypeOK, RedisTypes
  <2> QED BY <1>2, <2>1, <2>2 DEF LockEndsWithItsHandler, U
<1> QED BY <1>1, <1>2 DEF Next, LockEndsWithItsHandler, U

\* As long as Redis takes the releases, a wallet's lock is with a handler at work under
\* it or was left by a crash: every way out of acquire's action releases it.
THEOREM LocksEndWithTheirHandlers ==
  ASSUME "redis" \notin Faults
  PROVE  Spec => []LockEndsWithItsHandler
<1>1. Init => LockEndsWithItsHandler
  BY DEF Init, LockEndsWithItsHandler
<1>2. TypeOK /\ HandlerInv /\ LockEndsWithItsHandler /\ [Next]_vars
        => LockEndsWithItsHandler'
  BY LockEndsStep
<1>3. Inv => TypeOK /\ HandlerInv
  BY DEF Inv
<1> QED BY <1>1, <1>2, <1>3, Invariance, PTL DEF Spec

----------------------------------------------------------------------------
(* Fundings. *)

\* A funding gets past its second look only if its key is free.
LEMMA LooksFirst ==
  ASSUME TypeOK, HandlerInv, NEW p \in Procs, Start(p) \/ Step(p) \/ Disturb(p),
         pc'[p] \in Looked, req'[p].op = "fund"
  PROVE  /\ UNCHANGED req
         /\ pc[p] \in Looked \/ (pc[p] = "recheck" /\ ~HasEntry(U(p), req[p].key))
<1> USE DEF TypeOK, HandlerTypes, Go, Settle, Looked, InTx, RowSteps
<1>1. ~Start(p)
  BY DEF Start
<1>2. UNCHANGED req
  BY <1>1, RequestStays
<1>3. CASE Admit(p)
  BY <1>2, <1>3 DEF Admit, Validate, CheckKey, ConsumeQuote, TakeQuote, GetdelFails, GetQuote,
                    DelQuote, Redeeming, RestoreQuote, QuoteFails, Busy, Acquire
<1>4. CASE Prepare(p)
  BY <1>2, <1>4, PrepareFrame
     DEF Prepare, Recheck, Rates, FindWallet, CreateWallet, Connect,
         HandlerInv, HandlerAt
<1>5. CASE LockRows(p)
  BY <1>2, <1>5 DEF LockRows, LockFrom, LockTo, InsertTo, LockHouseFrom, LockHouseTo
<1>6. CASE Transact(p)
  BY <1>2, <1>6 DEF Transact, RecordJournalEntry, Commit, CommitReplyLost, Rollback
<1>7. CASE Finish(p) \/ Read(p)
  BY <1>7 DEF Finish, Invalidate, SaveRejected, Unlock, Read, ReadCache, ReadWallet,
              CreateOwn, FillCache
<1>8. CASE Disturb(p)
  BY <1>2, <1>8 DEF Disturb, AbortDeadlocked, QueryFails, DbFails, Crash
<1> QED BY <1>1, <1>3, <1>4, <1>5, <1>6, <1>7, <1>8 DEF Step

\* What is booked while a funding is at work is booked for another user.
LEMMA FundInvStep ==
  ASSUME Inv, LockInv, FundInv, [Next]_vars
  PROVE  FundInv'
<1> USE DEF Inv
<1>1. ASSUME NEW p \in Procs, Start(p) \/ Step(p) \/ Disturb(p)
      PROVE  FundInv'
  <2>1. \A q \in Procs \ {p} : pc'[q] = pc[q] /\ req'[q] = req[q]
    BY <1>1, OthersAlone DEF TypeOK
  <2>2. CASE Commit(p) \/ CommitReplyLost(p)
    <3>1. /\ pc[p] = "commit" /\ pc'[p] \in {"invalidate", "unlock"}
          /\ journal' = journal \cup {Entry(p, req[p], terms[p])}
      BY <2>2 DEF Commit, CommitReplyLost, Apply, Settle, Go, TypeOK, HandlerTypes
    <3>2. \A q \in Procs : pc[q] \in Looked /\ U(q) = U(p) => q = p
      BY <3>1 DEF LockInv, Looked, Critical, UnderLock, InTx
    <3>3. Entry(p, req[p], terms[p]).user = U(p)
      BY DEF Entry, U
    <3>4. ASSUME NEW q \in Procs \ {p}, pc[q] \in Looked, req[q].op = "fund"
          PROVE  ~HasEntry(U(q), req[q].key)'
      BY <2>1, <3>1, <3>2, <3>3, <3>4 DEF FundInv, HasEntry, U
    <3>5. pc'[p] \notin Looked
      BY <3>1 DEF Looked, InTx, RowSteps
    <3> QED BY <2>1, <3>4, <3>5 DEF FundInv
  <2>3. CASE ~Commit(p) /\ ~CommitReplyLost(p)
    <3>1. \A u, k : HasEntry(u, k)' = HasEntry(u, k)
      BY <1>1, <2>3, HandlerBooks DEF HasEntry
    <3>2. pc'[p] \in Looked /\ req'[p].op = "fund" => ~HasEntry(U(p)', req'[p].key)
      BY <1>1, LooksFirst DEF FundInv, U
    <3> QED BY <2>1, <3>1, <3>2 DEF FundInv, U
  <2> QED BY <2>2, <2>3
<1>2. CASE Expire \/ UNCHANGED vars
  BY <1>2, ExpireFrame DEF FundInv, HasEntry, U
<1> QED BY <1>1, <1>2 DEF Next

\* While every handler finishes within the TTL of its Redlock, a retried funding never
\* reaches the journal with a key that is booked already.
THEOREM FundingsNeverCollide ==
  ASSUME "slow" \notin Faults
  PROVE  Spec => []FundNeverCollides
<1>1. Init => FundInv
  BY DEF Init, FundInv, Looked, InTx, RowSteps
<1>2. Inv /\ LockInv /\ FundInv /\ [Next]_vars => FundInv'
  BY FundInvStep
<1>3. FundInv => FundNeverCollides
  BY DEF FundInv, FundNeverCollides, Looked, InTx
<1> QED BY <1>1, <1>2, <1>3, Invariance, LockInvariance, PTL DEF Spec

----------------------------------------------------------------------------
(* Orders. *)

Traded(p) == \E j \in journal : j.by = p /\ j.op = "trade"

\* A handler that has saved a rejected order only has its lock to release.
OrderInv ==
  \A p \in Procs :
    /\ <<p, "FILLED">> \in orders <=> Traded(p)
    /\ <<p, "REJECTED">> \in orders => ~Traded(p) /\ pc[p] \in {"unlock"} \cup Ended

\* Only a commit and the audit row of a failed trade change the orders.
LEMMA OrdersFrame ==
  ASSUME TypeOK, HandlerInv, NEW p \in Procs, Start(p) \/ Step(p) \/ Disturb(p),
         ~Commit(p), ~CommitReplyLost(p), ~SaveRejected(p)
  PROVE  UNCHANGED <<orders, journal>>
<1>1. UNCHANGED journal
  BY HandlerBooks
<1>2. CASE Start(p)
  BY <1>2 DEF Start
<1>3. CASE Admit(p) \/ Prepare(p) \/ LockRows(p) \/ Read(p) \/ Disturb(p)
  BY <1>3, AdmitFrame, PrepareFrame, LockRowsFrame, ReadFrame, DisturbFrame
<1>4. CASE RecordJournalEntry(p) \/ Rollback(p) \/ Invalidate(p) \/ Unlock(p)
  BY <1>4 DEF RecordJournalEntry, Rollback, Invalidate, Unlock
<1> QED BY <1>1, <1>2, <1>3, <1>4 DEF Step, Transact, Finish

\* Once it is about to release its lock, a handler ends.
LEMMA UnlockEnds ==
  ASSUME TypeOK, NEW p \in Procs, Start(p) \/ Step(p) \/ Disturb(p),
         pc[p] \in {"unlock"} \cup Ended
  PROVE  pc'[p] \in Ended
<1> USE DEF TypeOK, HandlerTypes, Go, Settle, Ended, InTx, RowSteps, Redeeming
<1>1. CASE Start(p) \/ Admit(p) \/ Prepare(p) \/ LockRows(p) \/ Transact(p) \/ Read(p)
  BY <1>1 DEF Start, Admit, Validate, CheckKey, ConsumeQuote, GetdelFails, GetQuote,
     DelQuote, RestoreQuote, QuoteFails, Acquire, Busy, Prepare, Recheck, Rates,
     FindWallet, CreateWallet, Connect, LockRows, LockFrom, LockTo, InsertTo,
     LockHouseFrom, LockHouseTo, Transact, RecordJournalEntry, Commit, CommitReplyLost, Rollback, Read,
     ReadCache, ReadWallet, CreateOwn, FillCache
<1>2. CASE Finish(p)
  BY <1>2 DEF Finish, Invalidate, SaveRejected, Unlock
<1>3. CASE Disturb(p)
  BY <1>3, DeadlockedInTx DEF Disturb, AbortDeadlocked, QueryFails, DbFails, Crash
<1> QED BY <1>1, <1>2, <1>3 DEF Step

\* A trade is FILLED with its posting, and REJECTED only if there is none.
LEMMA OrderInvStep ==
  ASSUME Inv, OrderInv, [Next]_vars
  PROVE  OrderInv'
<1> USE DEF Inv
<1>1. ASSUME NEW p \in Procs, Start(p) \/ Step(p) \/ Disturb(p)
      PROVE  OrderInv'
  <2>1. \A q \in Procs \ {p} : pc'[q] = pc[q]
    BY <1>1, OthersAlone DEF TypeOK
  <2>2. CASE Commit(p) \/ CommitReplyLost(p)
    <3>1. /\ pc[p] = "commit"
          /\ journal' = journal \cup {Entry(p, req[p], terms[p])}
          /\ orders' = IF req[p].op = "trade" THEN orders \cup {<<p, "FILLED">>} ELSE orders
      BY <2>2 DEF Commit, CommitReplyLost, Apply
    <3>2. Entry(p, req[p], terms[p]).by = p /\ Entry(p, req[p], terms[p]).op = req[p].op
      BY DEF Entry
    <3>3. /\ \A q \in Procs \ {p} : Traded(q)' <=> Traded(q)
          /\ Traded(p)' <=> (Traded(p) \/ req[p].op = "trade")
      BY <3>1, <3>2 DEF Traded
    <3>4. <<p, "REJECTED">> \notin orders
      BY <3>1 DEF OrderInv, Ended
    <3> QED BY <2>1, <3>1, <3>3, <3>4 DEF OrderInv
  <2>3. CASE SaveRejected(p)
    <3>1. /\ pc[p] = "reject" /\ pc' = [pc EXCEPT ![p] = "unlock"] /\ UNCHANGED journal
          /\ orders' \in {orders, orders \cup {<<p, "REJECTED">>}}
      BY <2>3 DEF SaveRejected, Go
    <3>2. Bookings(p) = {}
      BY <3>1 DEF AnswerInv, AnswerAt, Ended
    <3>3. ~Traded(p) /\ \A q \in Procs : Traded(q)' <=> Traded(q)
      BY <3>1, <3>2 DEF Traded, Bookings
    <3>4. pc'[p] = "unlock"
      BY <3>1 DEF TypeOK, HandlerTypes
    <3>5. \A q \in Procs :
            /\ <<q, "FILLED">> \in orders' <=> <<q, "FILLED">> \in orders
            /\ <<q, "REJECTED">> \in orders' => <<q, "REJECTED">> \in orders \/ q = p
      BY <3>1
    <3> QED BY <2>1, <3>3, <3>4, <3>5 DEF OrderInv
  <2>4. CASE ~Commit(p) /\ ~CommitReplyLost(p) /\ ~SaveRejected(p)
    <3>1. UNCHANGED <<orders, journal>>
      BY <1>1, <2>4, OrdersFrame
    <3>2. \A q \in Procs : Traded(q)' <=> Traded(q)
      BY <3>1 DEF Traded
    <3>3. pc[p] \in {"unlock"} \cup Ended => pc'[p] \in Ended
      BY <1>1, UnlockEnds
    <3> QED BY <2>1, <3>1, <3>2, <3>3 DEF OrderInv
  <2> QED BY <2>2, <2>3, <2>4
<1>2. CASE Expire \/ UNCHANGED vars
  BY <1>2, ExpireFrame DEF OrderInv, Traded
<1> QED BY <1>1, <1>2 DEF Next

\* Every booked trade has its FILLED order, and none that was booked, however its
\* COMMIT was answered, is recorded as REJECTED.
THEOREM OrdersAgree == Spec => []OrdersMatchLedger
<1>1. Init => OrderInv
  BY DEF Init, OrderInv, Traded
<1>2. Inv /\ OrderInv /\ [Next]_vars => OrderInv'
  BY OrderInvStep
<1>3. OrderInv => OrdersMatchLedger
  BY DEF OrderInv, OrdersMatchLedger, Traded
<1> QED BY <1>1, <1>2, <1>3, Invariance, PTL DEF Spec
=============================================================================
