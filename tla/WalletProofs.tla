---------------------------- MODULE WalletProofs ----------------------------
(***************************************************************************)
(* What TLAPS proves of WalletService, for any users, currencies, keys,    *)
(* requests, number of concurrent handlers and set of faults.              *)
(***************************************************************************)
EXTENDS WalletProperties, TLAPS

\* The lists that UNCHANGED names.
USE DEF vars, local, redis, stored, tx

\* The terms of a valid request name two different currencies and positive amounts;
\* only a funding has no `from` side.
LEMMA TermsFacts ==
  ASSUME NEW r \in Requests, Valid(r), NEW t \in TermsOf(r)
  PROVE  /\ t \in Terms
         /\ t.to \in Currencies /\ t.to # t.from /\ t.out > 0
         /\ r.op = "fund" => t.from = None /\ t.in = 0
         /\ r.op # "fund" => t.from \in Currencies
<1>1. CASE r.op = "fund"
  <2>1. t = [from |-> None, to |-> r.to, in |-> 0, out |-> r.amount]
    BY <1>1 DEF TermsOf
  <2>2. r.amount \in Nat /\ r.amount > 0 /\ r.to \in Currencies
    BY <1>1, RequestsAssumption DEF Valid, Request
  <2> QED BY <1>1, <2>1, <2>2, NamesAssumption DEF Terms
<1>2. CASE r.op = "convert"
  <2>1. PICK x \in Converted \ {0} :
          t = [from |-> r.from, to |-> r.to, in |-> r.amount, out |-> x]
    BY <1>2 DEF TermsOf
  <2>2. x \in Nat /\ x > 0
    BY ConvertedAssumption
  <2>3. r.amount \in Nat /\ r.from # r.to
    BY <1>2, RequestsAssumption DEF Valid, Request
  <2>4. r.from \in Currencies /\ r.to \in Currencies
    BY <1>2, RequestsAssumption
  <2> QED BY <1>2, <2>1, <2>2, <2>3, <2>4 DEF Terms
<1>3. CASE r.op = "trade"
  <2>1. t = QuoteBook[r.quote].terms /\ r.quote \in Quotes
    BY <1>3, RequestsAssumption DEF TermsOf
  <2> QED BY <1>3, <2>1, QuotesAssumption
<1>4. CASE r.op = "get"
  BY <1>4 DEF TermsOf
<1> QED BY <1>1, <1>2, <1>3, <1>4, RequestsAssumption DEF Request, Ops

\* What the steps before the lock leave alone: the tables and the transactions.
LEMMA AdmitFrame ==
  ASSUME NEW p \in Procs, Admit(p)
  PROVE  UNCHANGED <<req, view, cache, stored, tx>>
BY DEF Admit, Validate, CheckKey, ConsumeQuote, TakeQuote, GetdelFails, GetQuote,
                      DelQuote, Redeeming, RestoreQuote, QuoteFails, Acquire, Busy

\* What the steps under the lock and before the row locks leave alone.
LEMMA PrepareFrame ==
  ASSUME NEW p \in Procs, Prepare(p)
  PROVE  UNCHANGED <<req, view, redis, rows, bal, journal, outbox, orders, tx>>
BY DEF Prepare, Recheck, Rates, FindWallet, CreateWallet, Connect

\* What SELECT ... FOR UPDATE leaves alone: every committed value.
LEMMA LockRowsFrame ==
  ASSUME NEW p \in Procs, LockRows(p)
  PROVE  UNCHANGED <<local, redis, stored, keyOwner>>
BY DEF LockRows, LockFrom, LockTo, InsertTo, LockHouseFrom, LockHouseTo, LockRow

\* What the journal, COMMIT and ROLLBACK leave alone: Redis and the wallets.
LEMMA TransactFrame ==
  ASSUME NEW p \in Procs, Transact(p)
  PROVE  UNCHANGED <<local, redis, wallets>>
BY DEF Transact, RecordJournalEntry, Commit, CommitReplyLost, Rollback, Apply

\* What the steps after the transaction leave alone: balances and journal.
LEMMA FinishFrame ==
  ASSUME NEW p \in Procs, Finish(p)
  PROVE  UNCHANGED <<local, live, wallets, rows, bal, journal, outbox, tx>>
BY DEF Finish, Invalidate, SaveRejected, Unlock

\* What getWallet leaves alone: balances and journal.
LEMMA ReadFrame ==
  ASSUME NEW p \in Procs, Read(p)
  PROVE  UNCHANGED <<req, terms, holder, live, rows, bal, journal, outbox, orders, tx>>
BY DEF Read, ReadCache, ReadWallet, CreateOwn, FillCache

\* What a failure leaves alone: every committed value and Redis.
LEMMA DisturbFrame ==
  ASSUME NEW p \in Procs, Disturb(p)
  PROVE  UNCHANGED <<local, redis, stored>>
BY DEF Disturb, AbortDeadlocked, QueryFails, DbFails, Crash

\* What an expiry in Redis leaves alone: the tables and the handlers.
LEMMA ExpireFrame ==
  ASSUME Expire
  PROVE  UNCHANGED <<pc, res, local, stored, tx>>
BY DEF Expire, LeaseExpires, CacheExpires, QuoteExpires

----------------------------------------------------------------------------
(* Types. *)

\* The awaits of the handlers are labels.
LEMMA LabelFacts ==
  /\ "validate" \in Labels
  /\ "idle" \in Labels /\ "checkKey" \in Labels /\ "consumeQuote" \in Labels
  /\ "getQuote" \in Labels /\ "delQuote" \in Labels
  /\ "restoreQuote" \in Labels /\ "lock" \in Labels /\ "recheck" \in Labels
  /\ "rates" \in Labels /\ "findWallet" \in Labels /\ "createWallet" \in Labels
  /\ "connect" \in Labels
  /\ "lockFrom" \in Labels /\ "lockTo" \in Labels /\ "insertTo" \in Labels
  /\ "lockHouseFrom" \in Labels /\ "lockHouseTo" \in Labels /\ "record" \in Labels
  /\ "commit" \in Labels /\ "invalidate" \in Labels /\ "rollback" \in Labels
  /\ "reject" \in Labels /\ "unlock" \in Labels /\ "readCache" \in Labels
  /\ "readWallet" \in Labels /\ "createOwn" \in Labels /\ "fillCache" \in Labels
  /\ "done" \in Labels /\ "crashed" \in Labels
BY DEF Labels, Before, Redeeming, Critical, UnderLock, InTx, RowSteps, After, Reading, Ended

\* The answers of the handlers are answers.
LEMMA AnswerFacts ==
  /\ "ok" \in Answers /\ "replay" \in Answers /\ "failed" \in Answers
  /\ "invalid" \in Answers /\ "insufficient" \in Answers /\ "exhausted" \in Answers
  /\ "tooSmall" \in Answers /\ "noRates" \in Answers /\ "quoteGone" \in Answers
  /\ "busy" \in Answers
BY DEF Answers, Refusals

\* Going on to another await.
LEMMA GoType ==
  ASSUME HandlerTypes, NEW p \in Procs, NEW l \in Labels, Go(p, l)
  PROVE  pc' \in [Procs -> Labels] /\ pc' = [pc EXCEPT ![p] = l]
BY DEF HandlerTypes, Go

\* Settling an answer and going on.
LEMMA SettleType ==
  ASSUME HandlerTypes, NEW p \in Procs, NEW l \in Labels, NEW o \in Answers,
         Settle(p, l, o)
  PROVE  /\ pc' \in [Procs -> Labels] /\ pc' = [pc EXCEPT ![p] = l]
         /\ res' \in [Procs -> Answers \cup {"none"}]
BY DEF HandlerTypes, Settle, Go

PcTypes == pc \in [Procs -> Labels] /\ res \in [Procs -> Answers \cup {"none"}]

\* An action of a handler moves that handler alone.
LEMMA HandlerMoves ==
  ASSUME HandlerTypes, NEW p \in Procs, Start(p) \/ Step(p) \/ Disturb(p)
  PROVE  PcTypes' /\ \E l \in Labels : pc' = [pc EXCEPT ![p] = l]
<1> DEFINE Moves == PcTypes' /\ \E l \in Labels : pc' = [pc EXCEPT ![p] = l]
<1> USE LabelFacts, AnswerFacts, GoType, SettleType
<1>0. UNCHANGED res => res' \in [Procs -> Answers \cup {"none"}]
  BY DEF HandlerTypes
<1> HIDE DEF Moves
<1>1. CASE Start(p)
  BY <1>0, <1>1 DEF Moves, PcTypes, Start
<1>2. CASE Admit(p)
  <2>0. CASE Validate(p)
    BY <1>0, <2>0 DEF Moves, PcTypes, Validate
  <2>1. CASE CheckKey(p)
    BY <1>0, <2>1 DEF Moves, PcTypes, CheckKey
  <2>2. CASE ConsumeQuote(p)
    BY <1>0, <2>2 DEF Moves, PcTypes, ConsumeQuote, TakeQuote
  <2>3. CASE RestoreQuote(p)
    BY <1>0, <2>3 DEF Moves, PcTypes, RestoreQuote
  <2>4. CASE QuoteFails(p)
    BY <1>0, <2>4 DEF Moves, PcTypes, QuoteFails
  <2>5. CASE Acquire(p)
    BY <1>0, <2>5 DEF Moves, PcTypes, Acquire
  <2>6. CASE Busy(p)
    BY <1>0, <2>6 DEF Moves, PcTypes, Busy
  <2>7. CASE GetdelFails(p)
    BY <1>0, <2>7 DEF Moves, PcTypes, GetdelFails
  <2>8. CASE GetQuote(p)
    BY <1>0, <2>8 DEF Moves, PcTypes, GetQuote
  <2>9. CASE DelQuote(p)
    BY <1>0, <2>9 DEF Moves, PcTypes, DelQuote, TakeQuote
  <2> QED BY <1>2, <2>0, <2>1, <2>2, <2>3, <2>4, <2>5, <2>6, <2>7, <2>8, <2>9 DEF Admit
<1>3. CASE Prepare(p)
  <2>1. CASE Recheck(p)
    BY <1>0, <2>1 DEF Moves, PcTypes, Recheck
  <2>2. CASE Rates(p)
    BY <1>0, <2>2 DEF Moves, PcTypes, Rates
  <2>3. CASE FindWallet(p)
    BY <1>0, <2>3 DEF Moves, PcTypes, FindWallet
  <2>4. CASE CreateWallet(p)
    BY <1>0, <2>4 DEF Moves, PcTypes, CreateWallet
  <2>5. CASE Connect(p)
    BY <1>0, <2>5 DEF Moves, PcTypes, Connect, FirstRow
  <2> QED BY <1>3, <2>1, <2>2, <2>3, <2>4, <2>5 DEF Prepare
<1>4. CASE LockRows(p)
  <2>1. CASE LockFrom(p)
    BY <1>0, <2>1 DEF Moves, PcTypes, LockFrom
  <2>2. CASE LockTo(p)
    BY <1>0, <2>2 DEF Moves, PcTypes, LockTo, FirstHouseRow
  <2>3. CASE InsertTo(p)
    BY <1>0, <2>3 DEF Moves, PcTypes, InsertTo, FirstHouseRow
  <2>4. CASE LockHouseFrom(p)
    BY <1>0, <2>4 DEF Moves, PcTypes, LockHouseFrom
  <2>5. CASE LockHouseTo(p)
    BY <1>0, <2>5 DEF Moves, PcTypes, LockHouseTo
  <2> QED BY <1>4, <2>1, <2>2, <2>3, <2>4, <2>5 DEF LockRows
<1>5. CASE Transact(p)
  <2>1. CASE RecordJournalEntry(p)
    BY <1>0, <2>1 DEF Moves, PcTypes, RecordJournalEntry
  <2>2. CASE Commit(p)
    BY <1>0, <2>2 DEF Moves, PcTypes, Commit
  <2>3. CASE CommitReplyLost(p)
    BY <1>0, <2>3 DEF Moves, PcTypes, CommitReplyLost
  <2>4. CASE Rollback(p)
    BY <1>0, <2>4 DEF Moves, PcTypes, Rollback
  <2> QED BY <1>5, <2>1, <2>2, <2>3, <2>4 DEF Transact
<1>6. CASE Finish(p)
  <2>1. CASE Invalidate(p)
    BY <1>0, <2>1 DEF Moves, PcTypes, Invalidate
  <2>2. CASE SaveRejected(p)
    BY <1>0, <2>2 DEF Moves, PcTypes, SaveRejected
  <2>3. CASE Unlock(p)
    BY <1>0, <2>3 DEF Moves, PcTypes, Unlock
  <2> QED BY <1>6, <2>1, <2>2, <2>3 DEF Finish
<1>7. CASE Read(p)
  <2>1. CASE ReadCache(p)
    BY <1>0, <2>1 DEF Moves, PcTypes, ReadCache
  <2>2. CASE ReadWallet(p)
    BY <1>0, <2>2 DEF Moves, PcTypes, ReadWallet
  <2>3. CASE CreateOwn(p)
    BY <1>0, <2>3 DEF Moves, PcTypes, CreateOwn
  <2>4. CASE FillCache(p)
    BY <1>0, <2>4 DEF Moves, PcTypes, FillCache
  <2> QED BY <1>7, <2>1, <2>2, <2>3, <2>4 DEF Read
<1>8. CASE Disturb(p)
  <2>1. CASE AbortDeadlocked(p)
    BY <1>0, <2>1 DEF Moves, PcTypes, AbortDeadlocked
  <2>2. CASE QueryFails(p)
    BY <1>0, <2>2 DEF Moves, PcTypes, QueryFails
  <2>3. CASE DbFails(p)
    BY <1>0, <2>3 DEF Moves, PcTypes, DbFails
  <2>4. CASE Crash(p)
    BY <1>0, <2>4 DEF Moves, PcTypes, Crash
  <2> QED BY <1>8, <2>1, <2>2, <2>3, <2>4 DEF Disturb
<1> QED BY <1>1, <1>2, <1>3, <1>4, <1>5, <1>6, <1>7, <1>8 DEF Step, Moves

\* Every step keeps the types of the handlers' variables.
LEMMA HandlerTypesStep ==
  ASSUME TypeOK, HandlerInv, [Next]_vars
  PROVE  HandlerTypes'
<1> USE DEF TypeOK, HandlerTypes
<1>1. CASE \E p \in Procs : Start(p) \/ Step(p) \/ Disturb(p)
  <2>1. PICK p \in Procs : Start(p) \/ Step(p) \/ Disturb(p)
    BY <1>1
  <2>2. PcTypes'
    BY <2>1, HandlerMoves
  <2>3. req' \in [Procs -> Requests \cup {None}]
    <3>1. CASE Start(p)
      BY <3>1 DEF Start
    <3>2. CASE Step(p) \/ Disturb(p)
      BY <3>2, AdmitFrame, PrepareFrame, LockRowsFrame, TransactFrame, FinishFrame,
         ReadFrame, DisturbFrame DEF Step
    <3> QED BY <2>1, <3>1, <3>2
  <2>4. terms' \in [Procs -> Terms]
    <3> USE DEF SetTerms
    <3>1. CASE Validate(p)
      <4>1. req[p] \in Requests
        BY <3>1 DEF Validate, HandlerInv, HandlerAt
      <4> QED BY <3>1, <4>1, TermsFacts DEF Validate
    <3>2. CASE ConsumeQuote(p) \/ DelQuote(p)
      <4>1. req[p] \in Requests /\ req[p].op = "trade"
        BY <3>2 DEF ConsumeQuote, DelQuote, HandlerInv, HandlerAt, Redeeming
      <4> QED BY <3>2, <4>1, RequestsAssumption, QuotesAssumption
              DEF ConsumeQuote, DelQuote, TakeQuote
    <3>3. CASE Rates(p)
      <4>1. req[p] \in Requests /\ Valid(req[p])
        BY <3>3 DEF Rates, HandlerInv, HandlerAt, Critical, UnderLock
      <4> QED BY <3>3, <4>1, TermsFacts DEF Rates
    <3>4. CASE Admit(p) /\ ~Validate(p) /\ ~ConsumeQuote(p) /\ ~DelQuote(p)
      BY <3>4 DEF Admit, CheckKey, GetdelFails, GetQuote, RestoreQuote, QuoteFails, Acquire,
                  Busy
    <3>5. CASE Prepare(p) /\ ~Rates(p)
      BY <3>5 DEF Prepare, Recheck, FindWallet, CreateWallet, Connect
    <3>6. CASE Start(p) \/ LockRows(p) \/ Transact(p) \/ Finish(p) \/ Read(p) \/ Disturb(p)
      BY <3>6, LockRowsFrame, TransactFrame, FinishFrame, ReadFrame, DisturbFrame DEF Start
    <3> QED BY <2>1, <3>1, <3>2, <3>3, <3>4, <3>5, <3>6 DEF Step
  <2>5. view' \in [Procs -> Snapshots \cup {None}]
    <3>1. CASE Read(p)
      <4>1. req[p] \in Requests
        BY <3>1 DEF Read, ReadCache, ReadWallet, CreateOwn, FillCache, HandlerInv,
                    HandlerAt
      <4>2. U(p) \in Users
        BY <4>1, RequestsAssumption DEF U, Request
      <4>3. CASE ReadCache(p)
        BY <4>2, <4>3 DEF ReadCache, RedisTypes
      <4>4. CASE ReadWallet(p)
        <5>1. BalancesOf(U(p)) \in Snapshots
          BY <4>2 DEF BalancesOf, Snapshots, StoredTypes, Accounts
        <5> QED BY <4>4, <5>1 DEF ReadWallet
      <4>5. CASE CreateOwn(p)
        <5>1. [c \in Currencies |-> 0] \in Snapshots
          BY DEF Snapshots
        <5> QED BY <4>5, <5>1 DEF CreateOwn
      <4>6. CASE FillCache(p)
        BY <4>6 DEF FillCache
      <4> QED BY <3>1, <4>3, <4>4, <4>5, <4>6 DEF Read
    <3>2. CASE Start(p) \/ Admit(p) \/ Prepare(p) \/ LockRows(p) \/ Transact(p)
               \/ Finish(p) \/ Disturb(p)
      BY <3>2, AdmitFrame, PrepareFrame, LockRowsFrame, TransactFrame, FinishFrame,
         DisturbFrame DEF Start
    <3> QED BY <2>1, <3>1, <3>2 DEF Step
  <2> QED BY <2>2, <2>3, <2>4, <2>5 DEF PcTypes
<1>2. CASE Expire
  BY <1>2, ExpireFrame
<1>3. CASE UNCHANGED vars
  BY <1>3
<1> QED BY <1>1, <1>2, <1>3 DEF Next

\* Every step keeps the types of locks, quotes and cache.
LEMMA RedisTypesStep ==
  ASSUME TypeOK, HandlerInv, [Next]_vars
  PROVE  RedisTypes'
<1> USE DEF TypeOK, RedisTypes
<1>1. ASSUME NEW p \in Procs, Start(p) \/ Step(p) \/ Disturb(p)
      PROVE  RedisTypes'
  <2>1. CASE Admit(p)
    <3>1. req[p] \in Requests /\ req[p].op # "get"
      BY <2>1 DEF Admit, Validate, CheckKey, ConsumeQuote, TakeQuote, GetdelFails, GetQuote,
                      DelQuote, Redeeming, RestoreQuote, QuoteFails, Acquire, Busy,
                  HandlerInv, HandlerAt, Before, Redeeming
    <3>2. pc[p] = "restoreQuote" => req[p].quote \in Quotes
      BY <3>1, RequestsAssumption DEF HandlerInv, HandlerAt, Redeeming
    <3> QED BY <2>1, <3>2 DEF Admit, Validate, CheckKey, ConsumeQuote, TakeQuote, GetdelFails, GetQuote,
                      DelQuote, Redeeming, RestoreQuote, QuoteFails,
                              Acquire, Busy
  <2>2. CASE Finish(p)
    BY <2>2 DEF Finish, Invalidate, SaveRejected, Unlock
  <2>3. CASE Read(p)
    <3>1. pc[p] = "fillCache" => view[p] \in Snapshots
      BY DEF HandlerInv, HandlerAt
    <3> QED BY <2>3, <3>1 DEF Read, ReadCache, ReadWallet, CreateOwn, FillCache
  <2>4. CASE Start(p) \/ Prepare(p) \/ LockRows(p) \/ Transact(p) \/ Disturb(p)
    BY <2>4, PrepareFrame, LockRowsFrame, TransactFrame, DisturbFrame DEF Start
  <2> QED BY <1>1, <2>1, <2>2, <2>3, <2>4 DEF Step
<1>2. CASE Expire
  BY <1>2 DEF Expire, LeaseExpires, CacheExpires, QuoteExpires
<1>3. CASE UNCHANGED vars
  BY <1>3
<1> QED BY <1>1, <1>2, <1>3 DEF Next

\* Where every handler of a money operation is served with known terms.
LEMMA TxTerms ==
  ASSUME TypeOK, HandlerInv, NEW p \in Procs, pc[p] \in InTx
  PROVE  /\ req[p] \in Requests /\ Valid(req[p])
         /\ terms[p] \in TermsOf(req[p])
         /\ U(p) \in Users /\ req[p].key \in Keys /\ req[p].op \in Ops \ {"get"}
         /\ req[p].quote \in Quotes \cup {None}
         /\ To(p) \in Accounts /\ HouseTo(p) \in Accounts
         /\ req[p].op # "fund" => From(p) \in Accounts /\ HouseFrom(p) \in Accounts
<1>1. pc[p] \in Critical /\ pc[p] # "idle"
  BY DEF Critical, InTx, RowSteps
<1>2. req[p] \in Requests /\ Valid(req[p]) /\ req[p].op # "get"
  BY <1>1 DEF HandlerInv, HandlerAt
<1>3. terms[p] \in TermsOf(req[p])
  BY DEF HandlerInv, HandlerAt, TermsKnown
<1>4. /\ U(p) \in Users /\ req[p].key \in Keys /\ req[p].op \in Ops \ {"get"}
      /\ req[p].quote \in Quotes \cup {None}
  BY <1>2, RequestsAssumption DEF U, Request
<1> QED BY <1>2, <1>3, <1>4, TermsFacts DEF To, HouseTo, From, HouseFrom, Accounts

\* Every step keeps the types of the tables.
LEMMA StoredTypesStep ==
  ASSUME TypeOK, HandlerInv, [Next]_vars
  PROVE  StoredTypes'
<1> USE DEF TypeOK, StoredTypes
<1>1. ASSUME NEW p \in Procs, Start(p) \/ Step(p) \/ Disturb(p)
      PROVE  StoredTypes'
  <2>1. ASSUME Apply(p), pc[p] = "commit"
        PROVE  StoredTypes'
    <3>1. pc[p] \in InTx
      BY <2>1 DEF InTx
    <3>2. bal' \in [Accounts -> Int]
      <4>1. \A a \in Accounts : Delta(U(p), terms[p], a) \in Int
        BY <3>1, TxTerms, TermsFacts DEF Delta, Terms
      <4>2. \A a \in Accounts : Write(p, a) \in Int
        BY <4>1 DEF Write, TxTypes
      <4> QED BY <2>1, <4>2 DEF Apply
    <3>3. Entry(p, req[p], terms[p]) \in JournalEntry
      BY <3>1, TxTerms, TermsFacts DEF Entry, JournalEntry, U
    <3> QED BY <2>1, <3>1, <3>2, <3>3, TxTerms DEF Apply, Orders
  <2>2. CASE Prepare(p)
    <3>1. pc[p] = "createWallet" => req[p] \in Requests
      BY DEF HandlerInv, HandlerAt
    <3> QED BY <2>2, <3>1, PrepareFrame, RequestsAssumption
            DEF Prepare, Recheck, Rates, FindWallet, CreateWallet, Connect, U, Request
  <2>3. CASE Read(p)
    <3>1. pc[p] = "createOwn" => req[p] \in Requests
      BY DEF HandlerInv, HandlerAt
    <3> QED BY <2>3, <3>1, ReadFrame, RequestsAssumption
            DEF Read, ReadCache, ReadWallet, CreateOwn, FillCache, U, Request
  <2>4. CASE Transact(p)
    BY <2>1, <2>4 DEF Transact, RecordJournalEntry, Commit, CommitReplyLost, Rollback
  <2>5. CASE Finish(p)
    BY <2>5, FinishFrame DEF Finish, Invalidate, SaveRejected, Unlock, Orders
  <2>6. CASE Start(p) \/ Admit(p) \/ LockRows(p) \/ Disturb(p)
    BY <2>6, AdmitFrame, LockRowsFrame, DisturbFrame DEF Start
  <2> QED BY <1>1, <2>2, <2>3, <2>4, <2>5, <2>6 DEF Step
<1>2. CASE Expire
  BY <1>2, ExpireFrame
<1>3. CASE UNCHANGED vars
  BY <1>3
<1> QED BY <1>1, <1>2, <1>3 DEF Next

\* Every step keeps the types of what transactions hold.
LEMMA TxTypesStep ==
  ASSUME TypeOK, HandlerInv, [Next]_vars
  PROVE  TxTypes'
<1> USE DEF TypeOK, TxTypes
<1>1. ASSUME NEW p \in Procs, Start(p) \/ Step(p) \/ Disturb(p)
      PROVE  TxTypes'
  <2>1. EndTx(p) => TxTypes'
    BY DEF EndTx, NothingRead
  <2>2. ASSUME NEW a \in Accounts, LockRow(p, a)
        PROVE  TxTypes'
    BY <2>2 DEF LockRow, StoredTypes
  <2>3. CASE LockRows(p)
    <3>1. pc[p] \in InTx
      BY <2>3 DEF LockRows, LockFrom, LockTo, InsertTo, LockHouseFrom, LockHouseTo, InTx,
                  RowSteps
    <3>2. /\ To(p) \in Accounts /\ HouseTo(p) \in Accounts
          /\ pc[p] \in {"lockFrom", "lockHouseFrom"} =>
               From(p) \in Accounts /\ HouseFrom(p) \in Accounts
      BY <3>1, TxTerms DEF HandlerInv, HandlerAt
    <3> QED BY <2>2, <2>3, <3>2
            DEF LockRows, LockFrom, LockTo, InsertTo, LockHouseFrom, LockHouseTo
  <2>4. CASE Transact(p)
    BY <2>1, <2>4
    DEF Transact, RecordJournalEntry, Commit, CommitReplyLost, Rollback, Apply
  <2>5. CASE Disturb(p)
    BY <2>1, <2>5 DEF Disturb, AbortDeadlocked, QueryFails, DbFails, Crash
  <2>6. CASE Start(p) \/ Admit(p) \/ Prepare(p) \/ Finish(p) \/ Read(p)
    BY <2>6, AdmitFrame, PrepareFrame, FinishFrame, ReadFrame DEF Start
  <2> QED BY <1>1, <2>3, <2>4, <2>5, <2>6 DEF Step
<1>2. CASE Expire
  BY <1>2, ExpireFrame
<1>3. CASE UNCHANGED vars
  BY <1>3
<1> QED BY <1>1, <1>2, <1>3 DEF Next

----------------------------------------------------------------------------
(* Where a handler is tells which request it serves. *)

\* An action of one handler leaves the locals of the others alone.
LEMMA OthersAlone ==
  ASSUME HandlerTypes, TxTypes, NEW p \in Procs, Start(p) \/ Step(p) \/ Disturb(p),
         NEW q \in Procs, q # p
  PROVE  /\ pc'[q] = pc[q] /\ req'[q] = req[q] /\ terms'[q] = terms[q]
         /\ view'[q] = view[q] /\ seen'[q] = seen[q] /\ res'[q] = res[q]
<1>1. pc'[q] = pc[q]
  BY HandlerMoves DEF HandlerTypes
<1> USE DEF HandlerTypes, TxTypes, SetTerms, EndTx, LockRow, Settle
<1>2. CASE Start(p)
  BY <1>1, <1>2 DEF Start
<1>3. CASE Admit(p)
  BY <1>1, <1>3, AdmitFrame DEF Admit, Validate, CheckKey, ConsumeQuote, TakeQuote, GetdelFails, GetQuote,
                      DelQuote, Redeeming, RestoreQuote, QuoteFails,
                                Acquire, Busy
<1>4. CASE Prepare(p)
  BY <1>1, <1>4, PrepareFrame DEF Prepare, Recheck, Rates, FindWallet, CreateWallet, Connect
<1>5. CASE LockRows(p)
  BY <1>1, <1>5, LockRowsFrame DEF LockRows, LockFrom, LockTo, InsertTo, LockHouseFrom,
                                   LockHouseTo
<1>6. CASE Transact(p)
  BY <1>1, <1>6, TransactFrame DEF Transact, RecordJournalEntry, Commit, CommitReplyLost,
                                   Apply, Rollback
<1>7. CASE Finish(p)
  BY <1>1, <1>7, FinishFrame DEF Finish, Invalidate, SaveRejected, Unlock
<1>8. CASE Read(p)
  BY <1>1, <1>8, ReadFrame DEF Read, ReadCache, ReadWallet, CreateOwn, FillCache
<1>9. CASE Disturb(p)
  BY <1>1, <1>9, DisturbFrame DEF Disturb, AbortDeadlocked, QueryFails, DbFails, Crash
<1> QED BY <1>2, <1>3, <1>4, <1>5, <1>6, <1>7, <1>8, <1>9 DEF Step

\* Only a handler at a row lock or at the insert of a journal can be in a cycle.
LEMMA DeadlockedInTx ==
  ASSUME NEW p \in Procs, Deadlocked(p)
  PROVE  pc[p] \in RowSteps \cup {"record"}
<1>1. \E q \in Procs : WaitsFor(p, q)
  BY DEF Deadlocked
<1> QED BY <1>1 DEF WaitsFor, RowSteps

\* Every step keeps which request can be at which await, and its terms known.
LEMMA HandlerInvStep ==
  ASSUME TypeOK, HandlerInv, [Next]_vars
  PROVE  HandlerInv'
<1> USE DEF HandlerAt, TermsKnown
<1>1. ASSUME NEW p \in Procs, Start(p) \/ Step(p) \/ Disturb(p)
      PROVE  HandlerInv'
  <2> USE DEF Before, Redeeming, Critical, UnderLock, InTx, RowSteps, After, Reading, Go, Settle, SetTerms
  <2>0. HandlerAt(p) /\ HandlerTypes
    BY DEF HandlerInv, TypeOK
  <2>1. ASSUME NEW q \in Procs, q # p
        PROVE  HandlerAt(q)'
    <3>1. /\ pc'[q] = pc[q] /\ req'[q] = req[q]
          /\ terms'[q] = terms[q] /\ view'[q] = view[q]
      BY <1>1, <2>1, OthersAlone DEF TypeOK
    <3> QED BY <3>1 DEF HandlerInv
  <2>2. HandlerAt(p)'
    <3> USE <2>0 DEF HandlerTypes
    <3>1. CASE Start(p)
      BY <3>1 DEF Start
    <3>2. CASE Admit(p)
      <4>0. CASE Validate(p)
        BY <4>0 DEF Validate
      <4>1. CASE CheckKey(p)
        <5>1. req[p].op \in Ops \ {"get"}
          BY <4>1, RequestsAssumption DEF CheckKey, Request
        <5> QED BY <4>1, <5>1 DEF CheckKey, Ops
      <4>2. CASE ConsumeQuote(p) \/ DelQuote(p)
        <5>1. /\ req[p] \in Requests /\ Valid(req[p]) /\ req[p].op = "trade"
              /\ QuoteBook[req[p].quote].terms \in Terms
          BY <4>2, RequestsAssumption, QuotesAssumption DEF ConsumeQuote, DelQuote
        <5>2. QuoteBook[req[p].quote].terms \in TermsOf(req[p])
          BY <5>1 DEF TermsOf
        <5> QED BY <4>2, <5>1, <5>2 DEF ConsumeQuote, DelQuote, TakeQuote
      <4>3. CASE RestoreQuote(p)
        BY <4>3 DEF RestoreQuote
      <4>4. CASE QuoteFails(p)
        BY <4>4 DEF QuoteFails
      <4>5. CASE Acquire(p)
        BY <4>5 DEF Acquire
      <4>6. CASE Busy(p)
        BY <4>6 DEF Busy
      <4>7. CASE GetdelFails(p) \/ GetQuote(p)
        BY <4>7 DEF GetdelFails, GetQuote
      <4> QED BY <3>2, <4>0, <4>1, <4>2, <4>3, <4>4, <4>5, <4>6, <4>7 DEF Admit
    <3>3. CASE Prepare(p)
      <4>1. CASE Recheck(p)
        BY <4>1 DEF Recheck
      <4>2. CASE Rates(p)
        BY <4>2 DEF Rates
      <4>3. CASE FindWallet(p)
        BY <4>3 DEF FindWallet
      <4>4. CASE CreateWallet(p)
        BY <4>4 DEF CreateWallet
      <4>5. CASE Connect(p)
        BY <4>5 DEF Connect, FirstRow
      <4> QED BY <3>3, <4>1, <4>2, <4>3, <4>4, <4>5 DEF Prepare
    <3>4. CASE LockRows(p)
      <4>1. CASE LockFrom(p)
        BY <4>1 DEF LockFrom
      <4>2. CASE LockTo(p)
        BY <4>2 DEF LockTo, FirstHouseRow
      <4>3. CASE InsertTo(p)
        BY <4>3 DEF InsertTo, FirstHouseRow
      <4>4. CASE LockHouseFrom(p)
        BY <4>4 DEF LockHouseFrom
      <4>5. CASE LockHouseTo(p)
        BY <4>5 DEF LockHouseTo
      <4> QED BY <3>4, <4>1, <4>2, <4>3, <4>4, <4>5 DEF LockRows
    <3>5. CASE Transact(p)
      <4>1. CASE RecordJournalEntry(p)
        BY <4>1 DEF RecordJournalEntry
      <4>2. CASE Commit(p)
        BY <4>2 DEF Commit
      <4>3. CASE CommitReplyLost(p)
        BY <4>3 DEF CommitReplyLost
      <4>4. CASE Rollback(p)
        BY <4>4 DEF Rollback
      <4> QED BY <3>5, <4>1, <4>2, <4>3, <4>4 DEF Transact
    <3>6. CASE Finish(p)
      <4>1. CASE Invalidate(p)
        BY <4>1 DEF Invalidate
      <4>2. CASE SaveRejected(p)
        BY <4>2 DEF SaveRejected
      <4>3. CASE Unlock(p)
        BY <4>3 DEF Unlock
      <4> QED BY <3>6, <4>1, <4>2, <4>3 DEF Finish
    <3>7. CASE Read(p)
      <4>1. CASE ReadCache(p)
        BY <4>1 DEF ReadCache
      <4>2. CASE ReadWallet(p)
        <5>1. U(p) \in Users
          BY <4>2, RequestsAssumption DEF ReadWallet, U, Request
        <5>2. BalancesOf(U(p)) \in Snapshots
          BY <5>1 DEF TypeOK, StoredTypes, BalancesOf, Snapshots, Accounts
        <5> QED BY <4>2, <5>2 DEF ReadWallet
      <4>3. CASE CreateOwn(p)
        <5>1. [c \in Currencies |-> 0] \in Snapshots
          BY DEF Snapshots
        <5> QED BY <4>3, <5>1 DEF CreateOwn
      <4>4. CASE FillCache(p)
        BY <4>4 DEF FillCache
      <4> QED BY <3>7, <4>1, <4>2, <4>3, <4>4 DEF Read
    <3>8. CASE Disturb(p)
      <4>1. CASE AbortDeadlocked(p)
        BY <4>1, DeadlockedInTx DEF AbortDeadlocked
      <4>2. CASE QueryFails(p)
        BY <4>2 DEF QueryFails
      <4>3. CASE DbFails(p)
        BY <4>3 DEF DbFails
      <4>4. CASE Crash(p)
        BY <4>4 DEF Crash
      <4> QED BY <3>8, <4>1, <4>2, <4>3, <4>4 DEF Disturb
    <3> QED BY <1>1, <3>1, <3>2, <3>3, <3>4, <3>5, <3>6, <3>7, <3>8 DEF Step
  <2> QED BY <2>1, <2>2 DEF HandlerInv
<1>2. CASE Expire
  BY <1>2, ExpireFrame DEF HandlerInv
<1>3. CASE UNCHANGED vars
  BY <1>3 DEF HandlerInv
<1> QED BY <1>1, <1>2, <1>3 DEF Next

----------------------------------------------------------------------------
(* Row locks. *)

\* Outside a transaction a handler neither owns nor writes anything.
Outside(p) == Start(p) \/ Admit(p) \/ Prepare(p) \/ Finish(p) \/ Read(p)

\* The steps outside a transaction change no balance, and enter it at its first row only.
LEMMA OutsideTx ==
  ASSUME TypeOK, HandlerInv, NEW p \in Procs, Outside(p)
  PROVE  /\ UNCHANGED <<bal, journal, outbox, rows, tx>>
         /\ pc[p] \notin InTx \cup {"rollback"}
         /\ pc'[p] \notin InTx \/ pc'[p] = "lockFrom"
              \/ (pc'[p] = "lockTo" /\ req'[p].op = "fund")
<1> USE DEF TypeOK, HandlerTypes, InTx, RowSteps, Go, Settle
<1>1. CASE Start(p)
  BY <1>1 DEF Start
<1>2. CASE Admit(p)
  BY <1>2, AdmitFrame DEF Admit, Validate, CheckKey, ConsumeQuote, TakeQuote, GetdelFails, GetQuote,
                      DelQuote, Redeeming, RestoreQuote, QuoteFails, Acquire,
                          Busy
<1>3. CASE Prepare(p)
  BY <1>3, PrepareFrame DEF Prepare, Recheck, Rates, FindWallet, CreateWallet, Connect, FirstRow
<1>4. CASE Finish(p)
  BY <1>4, FinishFrame DEF Finish, Invalidate, SaveRejected, Unlock
<1>5. CASE Read(p)
  BY <1>5, ReadFrame DEF Read, ReadCache, ReadWallet, CreateOwn, FillCache
<1> QED BY <1>1, <1>2, <1>3, <1>4, <1>5 DEF Outside

\* At COMMIT a handler owns every row it writes, so what it writes is the committed
\* balance plus its leg.
LEMMA CommitWrites ==
  ASSUME TypeOK, HandlerInv, RowInv, HeldInv, NEW p \in Procs, pc[p] = "commit"
  PROVE  /\ \A a \in Touched(U(p), terms[p]) :
              a \in Accounts /\ rowOwner[a] = p /\ seen[p][a] = bal[a]
         /\ \A a \in Accounts : Write(p, a) = bal[a] + Delta(U(p), terms[p], a)
<1>1. pc[p] \in InTx
  BY DEF InTx
<1>2. terms[p] \in TermsOf(req[p]) /\ U(p) \in Users /\ req[p] \in Requests
  BY <1>1, TxTerms
<1>3. /\ terms[p].to \in Currencies
      /\ req[p].op = "fund" => terms[p].from = None
      /\ req[p].op # "fund" => terms[p].from \in Currencies
  BY <1>1, TxTerms, TermsFacts
<1>4. rowOwner[To(p)] = p /\ rowOwner[HouseTo(p)] = p
  BY DEF HeldInv, HeldAt
<1>5. req[p].op # "fund" => rowOwner[From(p)] = p /\ rowOwner[HouseFrom(p)] = p
  BY <1>1 DEF HeldInv, HeldAt
<1>6. \A a \in Touched(U(p), terms[p]) :
        \/ a = To(p) \/ a = HouseTo(p)
        \/ req[p].op # "fund" /\ (a = From(p) \/ a = HouseFrom(p))
  BY <1>3 DEF Touched, To, HouseTo, From, HouseFrom
<1>7. \A a \in Touched(U(p), terms[p]) : a \in Accounts /\ rowOwner[a] = p
  BY <1>1, <1>4, <1>5, <1>6, TxTerms
<1>8. \A a \in Touched(U(p), terms[p]) : seen[p][a] = bal[a]
  BY <1>7 DEF RowInv, OwnsRow
<1>9. \A a \in Accounts : a \notin Touched(U(p), terms[p]) => Delta(U(p), terms[p], a) = 0
  BY <1>2, NamesAssumption DEF Accounts, Touched, Delta
<1> QED BY <1>7, <1>8, <1>9 DEF Write, TypeOK, StoredTypes

\* Every step keeps the rows with their owners, and what an owner read as it is committed.
LEMMA RowInvStep ==
  ASSUME Inv, [Next]_vars
  PROVE  RowInv'
<1> USE DEF Inv
<1>1. ASSUME NEW p \in Procs, Start(p) \/ Step(p) \/ Disturb(p)
      PROVE  RowInv'
  <2> SUFFICES ASSUME NEW q \in Procs, NEW a \in Accounts, rowOwner'[a] = q
               PROVE  OwnsRow(q, a)'
    BY DEF RowInv
  <2>0. q # p => pc'[q] = pc[q] /\ seen'[q] = seen[q]
    BY <1>1, OthersAlone DEF TypeOK
  <2>1. CASE Outside(p)
    BY <2>0, <2>1, OutsideTx DEF RowInv, OwnsRow
  <2>2. ASSUME EndTx(p)
        PROVE  q # p /\ rowOwner[a] = q
    BY <2>2, NamesAssumption DEF EndTx
  <2>3. CASE LockRows(p)
    <3>1. UNCHANGED bal
      BY <2>3, LockRowsFrame
    <3>2. pc[p] \in InTx /\ pc'[p] \in InTx \cup {"rollback"}
      BY <2>3 DEF LockRows, LockFrom, LockTo, InsertTo, LockHouseFrom, LockHouseTo, Go,
                  Settle, FirstHouseRow, InTx, RowSteps, TypeOK, HandlerTypes
    <3>3. UNCHANGED tx \/ \E b \in Accounts : LockRow(p, b)
      BY <2>3, <3>2, TxTerms
      DEF LockRows, LockFrom, LockTo, InsertTo, LockHouseFrom, LockHouseTo, HandlerInv,
          HandlerAt
    <3>4. CASE UNCHANGED tx
      BY <2>0, <3>1, <3>2, <3>4 DEF RowInv, OwnsRow
    <3>5. ASSUME NEW b \in Accounts, LockRow(p, b)
          PROVE  OwnsRow(q, a)'
      <4>1. CASE a = b
        BY <2>0, <3>1, <3>2, <3>5, <4>1 DEF LockRow, OwnsRow, TypeOK, TxTypes
      <4>2. CASE a # b
        <5>1. rowOwner[a] = q
          BY <3>5, <4>2 DEF LockRow, TypeOK, TxTypes
        <5>2. seen'[q][a] = seen[q][a]
          BY <3>5, <4>2 DEF LockRow, TypeOK, TxTypes
        <5> QED BY <2>0, <3>1, <3>2, <5>1, <5>2 DEF RowInv, OwnsRow
      <4> QED BY <4>1, <4>2
    <3> QED BY <3>3, <3>4, <3>5
  <2>4. CASE RecordJournalEntry(p)
    BY <2>0, <2>4 DEF RecordJournalEntry, RowInv, OwnsRow, Go, Settle, InTx, TypeOK,
                      HandlerTypes
  <2>5. CASE Commit(p) \/ CommitReplyLost(p)
    <3>1. Apply(p) /\ pc[p] = "commit"
      BY <2>5 DEF Commit, CommitReplyLost
    <3>2. q # p /\ rowOwner[a] = q
      BY <2>2, <3>1 DEF Apply
    <3>3. a \notin Touched(U(p), terms[p])
      BY <3>1, <3>2, CommitWrites
    <3>4. bal'[a] = bal[a]
      BY <3>1, <3>3 DEF Apply, Write
    <3> QED BY <2>0, <3>2, <3>4 DEF RowInv, OwnsRow
  <2>6. CASE Rollback(p)
    BY <2>0, <2>2, <2>6 DEF Rollback, RowInv, OwnsRow
  <2>7. CASE Disturb(p)
    <3>1. UNCHANGED bal
      BY <2>7, DisturbFrame
    <3>2. \/ EndTx(p)
          \/ UNCHANGED tx /\ (pc'[p] = "rollback" \/ pc[p] \notin InTx \cup {"rollback"})
      BY <2>7 DEF Disturb, AbortDeadlocked, QueryFails, DbFails, Crash, Settle, Go, TypeOK,
                  HandlerTypes, InTx, RowSteps
    <3> QED BY <2>0, <2>2, <3>1, <3>2 DEF RowInv, OwnsRow
  <2> QED BY <1>1, <2>1, <2>3, <2>4, <2>5, <2>6, <2>7 DEF Step, Outside, Transact
<1>2. CASE Expire
  BY <1>2, ExpireFrame DEF RowInv, OwnsRow
<1>3. CASE UNCHANGED vars
  BY <1>3 DEF RowInv, OwnsRow
<1> QED BY <1>1, <1>2, <1>3 DEF Next

\* No handler takes a row from another.
LEMMA OwnersStay ==
  ASSUME TypeOK, HandlerInv, NEW p \in Procs, Start(p) \/ Step(p) \/ Disturb(p),
         NEW q \in Procs, q # p, NEW a \in Accounts, rowOwner[a] = q
  PROVE  rowOwner'[a] = q
<1> USE NamesAssumption DEF TypeOK, TxTypes, EndTx
<1>1. CASE Outside(p)
  BY <1>1, OutsideTx
<1>2. CASE LockRows(p)
  BY <1>2 DEF LockRows, LockFrom, LockTo, InsertTo, LockHouseFrom, LockHouseTo, LockRow
<1>3. CASE Transact(p)
  BY <1>3 DEF Transact, RecordJournalEntry, Commit, CommitReplyLost, Apply, Rollback
<1>4. CASE Disturb(p)
  BY <1>4 DEF Disturb, AbortDeadlocked, QueryFails, DbFails, Crash
<1> QED BY <1>1, <1>2, <1>3, <1>4 DEF Step, Outside

\* The four rows of an operation are four different rows.
LEMMA RowsDiffer ==
  ASSUME TypeOK, HandlerInv, NEW p \in Procs, pc[p] \in InTx
  PROVE  /\ To(p) # From(p) /\ HouseTo(p) # From(p) /\ HouseFrom(p) # From(p)
         /\ To(p) # HouseTo(p) /\ To(p) # HouseFrom(p) /\ HouseFrom(p) # HouseTo(p)
<1>1. U(p) # House /\ terms[p].to # terms[p].from
  BY TxTerms, TermsFacts, NamesAssumption
<1> QED BY <1>1 DEF To, HouseTo, From, HouseFrom

\* Every step keeps which rows a transaction owns, and that they cover what it takes.
LEMMA HeldInvStep ==
  ASSUME Inv, [Next]_vars
  PROVE  HeldInv'
<1> USE DEF Inv
<1>1. ASSUME NEW p \in Procs, Start(p) \/ Step(p) \/ Disturb(p)
      PROVE  HeldInv'
  <2>1. ASSUME NEW q \in Procs, q # p
        PROVE  HeldAt(q)'
    <3>1. /\ pc'[q] = pc[q] /\ req'[q] = req[q] /\ terms'[q] = terms[q]
          /\ seen'[q] = seen[q]
      BY <1>1, <2>1, OthersAlone DEF TypeOK
    <3>2. CASE pc[q] \notin InTx
      BY <3>1, <3>2 DEF HeldAt, InTx, RowSteps
    <3>3. CASE pc[q] \in InTx
      <4>1. /\ To(q) \in Accounts /\ HouseTo(q) \in Accounts
            /\ req[q].op # "fund" => From(q) \in Accounts /\ HouseFrom(q) \in Accounts
        BY <3>3, TxTerms
      <4>2. \A a \in Accounts : rowOwner[a] = q => rowOwner'[a] = q
        BY <1>1, <2>1, OwnersStay
      <4>3. HeldAt(q)
        BY DEF HeldInv
      <4>4. /\ To(q)' = To(q) /\ HouseTo(q)' = HouseTo(q)
            /\ From(q)' = From(q) /\ HouseFrom(q)' = HouseFrom(q)
        BY <3>1 DEF To, HouseTo, From, HouseFrom, U
      <4> QED BY <3>1, <4>1, <4>2, <4>3, <4>4 DEF HeldAt
    <3> QED BY <3>2, <3>3
  <2>2. HeldAt(p)'
    <3>1. CASE Outside(p)
      BY <3>1, OutsideTx DEF HeldAt, InTx, RowSteps
    <3>2. CASE LockRows(p)
      <4> USE DEF TypeOK, HandlerTypes, Go, Settle
      <4>0. pc[p] \in InTx
        BY <3>2 DEF LockRows, LockFrom, LockTo, InsertTo, LockHouseFrom, LockHouseTo, InTx,
                    RowSteps
      <4>1. /\ UNCHANGED <<req, terms, bal>>
            /\ To(p)' = To(p) /\ HouseTo(p)' = HouseTo(p)
            /\ From(p)' = From(p) /\ HouseFrom(p)' = HouseFrom(p)
        BY <3>2, LockRowsFrame DEF To, HouseTo, From, HouseFrom, U
      <4>2. /\ To(p) \in Accounts /\ HouseTo(p) \in Accounts
            /\ req[p].op # "fund" => From(p) \in Accounts /\ HouseFrom(p) \in Accounts
        BY <4>0, TxTerms
      <4>3. /\ To(p) # From(p) /\ HouseTo(p) # From(p) /\ HouseFrom(p) # From(p)
            /\ To(p) # HouseTo(p) /\ To(p) # HouseFrom(p) /\ HouseFrom(p) # HouseTo(p)
        BY <4>0, RowsDiffer
      <4>4. HeldAt(p)
        BY DEF HeldInv
      <4>5. ASSUME NEW a \in Accounts, LockRow(p, a)
            PROVE  /\ rowOwner'[a] = p /\ seen'[p][a] = bal[a]
                   /\ \A b \in Accounts : b # a => /\ rowOwner'[b] = rowOwner[b]
                                                  /\ seen'[p][b] = seen[p][b]
        BY <4>5 DEF LockRow, TxTypes
      <4>6. \A a \in Accounts : bal[a] \in Int
        BY DEF StoredTypes
      <4>7. terms[p].in \in Int /\ terms[p].out \in Int
        BY <4>0, TxTerms, TermsFacts DEF Terms
      <4>8. CASE LockFrom(p)
        <5>1. req[p].op # "fund" /\ pc[p] = "lockFrom"
          BY <4>8 DEF LockFrom, HandlerInv, HandlerAt
        <5>2. CASE pc'[p] = "rollback"
          BY <5>2 DEF HeldAt, InTx, RowSteps
        <5>3. CASE pc'[p] # "rollback"
          <6>1. /\ pc'[p] = "lockTo" /\ LockRow(p, From(p))
                /\ ~(bal[From(p)] < terms[p].in)
            BY <4>8, <5>3 DEF LockFrom
          <6> QED BY <4>1, <4>2, <4>5, <4>6, <4>7, <5>1, <6>1 DEF HeldAt
        <5> QED BY <5>2, <5>3
      <4>9. CASE LockTo(p)
        <5>1. CASE pc'[p] = "insertTo" /\ UNCHANGED tx
          BY <4>1, <4>4, <4>9, <5>1 DEF HeldAt, LockTo, InTx, RowSteps
        <5>2. CASE LockRow(p, To(p)) /\ pc'[p] = FirstHouseRow(p)
          BY <4>1, <4>2, <4>3, <4>4, <4>5, <4>9, <5>2
          DEF HeldAt, LockTo, InTx, RowSteps, FirstHouseRow
        <5> QED BY <4>9, <5>1, <5>2 DEF LockTo
      <4>10. CASE InsertTo(p)
        <5>1. CASE pc'[p] = "rollback"
          BY <5>1 DEF HeldAt, InTx, RowSteps
        <5>2. CASE LockRow(p, To(p)) /\ pc'[p] = FirstHouseRow(p)
          BY <4>1, <4>2, <4>3, <4>4, <4>5, <4>10, <5>2
          DEF HeldAt, InsertTo, InTx, RowSteps, FirstHouseRow
        <5> QED BY <4>10, <5>1, <5>2 DEF InsertTo
      <4>11. CASE LockHouseFrom(p)
        <5>1. /\ LockRow(p, HouseFrom(p)) /\ pc'[p] = "lockHouseTo"
              /\ pc[p] = "lockHouseFrom" /\ req[p].op # "fund"
          BY <4>11 DEF LockHouseFrom, HandlerInv, HandlerAt
        <5> QED BY <4>1, <4>2, <4>3, <4>4, <4>5, <5>1 DEF HeldAt, InTx, RowSteps
      <4>12. CASE LockHouseTo(p)
        <5>1. CASE pc'[p] = "rollback"
          BY <5>1 DEF HeldAt, InTx, RowSteps
        <5>2. CASE pc'[p] # "rollback"
          <6>1. /\ LockRow(p, HouseTo(p)) /\ pc'[p] = "record"
                /\ pc[p] = "lockHouseTo" /\ ~(bal[HouseTo(p)] < terms[p].out)
            BY <4>12, <5>2 DEF LockHouseTo
          <6> QED BY <4>1, <4>2, <4>3, <4>4, <4>5, <4>6, <4>7, <6>1
              DEF HeldAt, InTx, RowSteps
        <5> QED BY <5>1, <5>2
      <4> QED BY <3>2, <4>8, <4>9, <4>10, <4>11, <4>12 DEF LockRows
    <3>3. CASE RecordJournalEntry(p)
      <4>1. UNCHANGED <<req, terms, seen, rowOwner>>
        BY <3>3 DEF RecordJournalEntry
      <4>2. pc[p] = "record" /\ pc'[p] \in {"commit", "rollback"}
        BY <3>3 DEF RecordJournalEntry, Go, Settle, TypeOK, HandlerTypes
      <4>3. HeldAt(p)
        BY DEF HeldInv
      <4> QED BY <4>1, <4>2, <4>3
          DEF HeldAt, InTx, RowSteps, To, HouseTo, From, HouseFrom, U
    <3>4. CASE pc'[p] \notin InTx
      BY <3>4 DEF HeldAt, InTx, RowSteps
    <3>5. CASE Commit(p) \/ CommitReplyLost(p) \/ Rollback(p) \/ Disturb(p)
      BY <3>4, <3>5 DEF Commit, CommitReplyLost, Rollback, Disturb, AbortDeadlocked, QueryFails, DbFails,
                        Crash, Go, Settle, InTx, RowSteps, TypeOK, HandlerTypes
    <3> QED BY <1>1, <3>1, <3>2, <3>3, <3>5 DEF Step, Outside, Transact
  <2> QED BY <2>1, <2>2 DEF HeldInv
<1>2. CASE Expire
  BY <1>2, ExpireFrame DEF HeldInv, HeldAt, To, HouseTo, From, HouseFrom, U
<1>3. CASE UNCHANGED vars
  BY <1>3 DEF HeldInv, HeldAt, To, HouseTo, From, HouseFrom, U
<1> QED BY <1>1, <1>2, <1>3 DEF Next

----------------------------------------------------------------------------
(* Journal keys. *)

\* Every step keeps a journal key with the one transaction that inserted it.
LEMMA KeyInvStep ==
  ASSUME Inv, [Next]_vars
  PROVE  KeyInv'
<1> USE DEF Inv
<1>1. ASSUME NEW p \in Procs, Start(p) \/ Step(p) \/ Disturb(p)
      PROVE  KeyInv'
  <2>0. ASSUME NEW q \in Procs, q # p
        PROVE  pc'[q] = pc[q] /\ KeyOf(q)' = KeyOf(q)
    BY <1>1, <2>0, OthersAlone DEF TypeOK, KeyOf, U
  <2>1. CASE Outside(p)
    <3>1. UNCHANGED <<keyOwner, journal>> /\ pc[p] \notin {"commit", "rollback"}
          /\ pc'[p] # "commit"
      BY <2>1, OutsideTx DEF InTx, RowSteps
    <3> QED BY <2>0, <3>1 DEF KeyInv, OwnsKey, HasEntry
  <2>2. CASE LockRows(p)
    <3>1. UNCHANGED <<keyOwner, journal>>
      BY <2>2, LockRowsFrame
    <3>2. pc[p] \notin {"commit", "rollback"} /\ pc'[p] # "commit"
      BY <2>2 DEF LockRows, LockFrom, LockTo, InsertTo, LockHouseFrom, LockHouseTo, Go,
                  Settle, FirstHouseRow, TypeOK, HandlerTypes
    <3> QED BY <2>0, <3>1, <3>2 DEF KeyInv, OwnsKey, HasEntry
  <2>3. CASE RecordJournalEntry(p)
    <3>1. UNCHANGED <<journal, req>> /\ pc[p] = "record"
      BY <2>3 DEF RecordJournalEntry
    <3>2. KeyOf(p) \in JournalKeys /\ KeyOf(p)' = KeyOf(p)
      BY <3>1, TxTerms DEF KeyOf, JournalKeys, InTx, U
    <3>3. CASE pc'[p] = "rollback" /\ UNCHANGED keyOwner
      BY <2>0, <3>1, <3>2, <3>3 DEF KeyInv, OwnsKey, HasEntry
    <3>4. CASE /\ pc'[p] = "commit" /\ ~HasEntry(U(p), req[p].key)
               /\ keyOwner[KeyOf(p)] = None
               /\ keyOwner' = [keyOwner EXCEPT ![KeyOf(p)] = p]
      <4>1. \A q \in Procs, k \in JournalKeys : keyOwner'[k] = q => OwnsKey(q, k)'
        <5> SUFFICES ASSUME NEW q \in Procs, NEW k \in JournalKeys, keyOwner'[k] = q
                     PROVE  OwnsKey(q, k)'
          OBVIOUS
        <5>1. CASE k = KeyOf(p)
          <6>1. q = p
            BY <3>2, <3>4, <5>1 DEF TypeOK, TxTypes
          <6> QED BY <3>1, <3>2, <3>4, <5>1, <6>1 DEF OwnsKey, HasEntry, KeyOf
        <5>2. CASE k # KeyOf(p)
          <6>1. keyOwner[k] = q
            BY <3>2, <3>4, <5>2 DEF TypeOK, TxTypes
          <6>2. OwnsKey(q, k) /\ q # p
            BY <3>1, <6>1 DEF KeyInv, OwnsKey
          <6> QED BY <2>0, <3>1, <6>2 DEF OwnsKey, HasEntry
        <5> QED BY <5>1, <5>2
      <4>2. ASSUME NEW q \in Procs, pc'[q] = "commit"
            PROVE  keyOwner'[KeyOf(q)'] = q
        <5>1. CASE q = p
          BY <3>2, <3>4, <5>1 DEF TypeOK, TxTypes
        <5>2. CASE q # p
          <6>1. pc[q] = "commit" /\ KeyOf(q)' = KeyOf(q)
            BY <2>0, <4>2, <5>2
          <6>2. keyOwner[KeyOf(q)] = q /\ KeyOf(q) \in JournalKeys
            BY <6>1, TxTerms DEF KeyInv, KeyOf, JournalKeys, InTx
          <6> QED BY <3>2, <3>4, <6>1, <6>2, NamesAssumption DEF TypeOK, TxTypes
        <5> QED BY <5>1, <5>2
      <4> QED BY <4>1, <4>2 DEF KeyInv
    <3> QED BY <2>3, <3>3, <3>4 DEF RecordJournalEntry, Go, Settle, KeyOf, TypeOK,
                                    HandlerTypes
  <2>4. ASSUME EndTx(p), pc'[p] # "commit",
               \A q \in Procs, k \in JournalKeys :
                 q # p /\ keyOwner[k] = q => HasEntry(k[1], k[2])' = HasEntry(k[1], k[2])
        PROVE  KeyInv'
    <3>1. \A q \in Procs, k \in JournalKeys :
            keyOwner'[k] = q => q # p /\ keyOwner[k] = q
      BY <2>4, NamesAssumption DEF EndTx
    <3>2. \A q \in Procs : pc'[q] = "commit" => keyOwner'[KeyOf(q)'] = q
      <4> SUFFICES ASSUME NEW q \in Procs, pc'[q] = "commit"
                   PROVE  keyOwner'[KeyOf(q)'] = q
        OBVIOUS
      <4>1. q # p /\ pc[q] = "commit" /\ KeyOf(q)' = KeyOf(q)
        BY <2>0, <2>4
      <4>2. KeyOf(q) \in JournalKeys /\ keyOwner[KeyOf(q)] = q
        BY <4>1, TxTerms DEF KeyInv, KeyOf, JournalKeys, InTx
      <4> QED BY <2>4, <4>1, <4>2, NamesAssumption DEF EndTx
    <3> QED BY <2>0, <2>4, <3>1, <3>2 DEF KeyInv, OwnsKey
  <2>5. CASE Commit(p) \/ CommitReplyLost(p)
    <3>1. Apply(p) /\ pc[p] = "commit" /\ pc'[p] # "commit"
      BY <2>5 DEF Commit, CommitReplyLost, Settle, Go, TypeOK, HandlerTypes
    <3>2. ASSUME NEW q \in Procs, NEW k \in JournalKeys, q # p, keyOwner[k] = q
          PROVE  HasEntry(k[1], k[2])' = HasEntry(k[1], k[2])
      <4>1. k # KeyOf(p)
        BY <3>1, <3>2 DEF KeyInv
      <4>2. k = <<k[1], k[2]>>
        BY DEF JournalKeys
      <4>3. ~(Entry(p, req[p], terms[p]).user = k[1] /\ Entry(p, req[p], terms[p]).key = k[2])
        BY <4>1, <4>2 DEF Entry, KeyOf, U
      <4> QED BY <3>1, <4>3 DEF Apply, HasEntry
    <3> QED BY <2>4, <3>1, <3>2 DEF Apply
  <2>6. CASE Rollback(p)
    <3>1. EndTx(p) /\ pc'[p] # "commit" /\ UNCHANGED journal
      BY <2>6 DEF Rollback, Go, TypeOK, HandlerTypes
    <3> QED BY <2>4, <3>1 DEF HasEntry
  <2>7. CASE Disturb(p)
    <3>1. UNCHANGED <<journal, req>>
      BY <2>7, DisturbFrame
    <3>2. CASE EndTx(p) /\ pc'[p] # "commit"
      BY <2>4, <3>1, <3>2 DEF HasEntry
    <3>3. CASE UNCHANGED tx /\ pc'[p] = "rollback"
      BY <2>0, <3>1, <3>3 DEF KeyInv, OwnsKey, HasEntry, KeyOf, U
    <3>4. CASE /\ UNCHANGED tx /\ pc[p] \notin {"commit", "rollback"}
               /\ pc'[p] \in {"done", "unlock"}
      BY <2>0, <3>1, <3>4 DEF KeyInv, OwnsKey, HasEntry, KeyOf, U
    <3> QED BY <2>7, <3>2, <3>3, <3>4 DEF Disturb, AbortDeadlocked, QueryFails, DbFails,
                                          Crash, Go, Settle, TypeOK, HandlerTypes
  <2> QED BY <1>1, <2>1, <2>2, <2>3, <2>5, <2>6, <2>7 DEF Step, Outside, Transact
<1>2. CASE Expire
  BY <1>2, ExpireFrame DEF KeyInv, OwnsKey, HasEntry, KeyOf, U
<1>3. CASE UNCHANGED vars
  BY <1>3 DEF KeyInv, OwnsKey, HasEntry, KeyOf, U
<1> QED BY <1>1, <1>2, <1>3 DEF Next

----------------------------------------------------------------------------
(* Balances. *)

\* Only a COMMIT changes balances or the journal.
LEMMA HandlerBooks ==
  ASSUME TypeOK, HandlerInv, NEW p \in Procs, Start(p) \/ Step(p) \/ Disturb(p),
         ~Commit(p), ~CommitReplyLost(p)
  PROVE  UNCHANGED <<bal, journal>>
<1>1. CASE Outside(p)
  BY <1>1, OutsideTx
<1>2. CASE LockRows(p) \/ Disturb(p)
  BY <1>2, LockRowsFrame, DisturbFrame
<1>3. CASE RecordJournalEntry(p) \/ Rollback(p)
  BY <1>3 DEF RecordJournalEntry, Rollback
<1> QED BY <1>1, <1>2, <1>3 DEF Step, Outside, Transact

\* Balances and journal change by COMMIT and by nothing else.
LEMMA OnlyCommitsBook ==
  ASSUME TypeOK, HandlerInv, [Next]_vars
  PROVE  \/ UNCHANGED <<bal, journal>>
         \/ \E p \in Procs : Commit(p) \/ CommitReplyLost(p)
<1>1. CASE Expire
  BY <1>1, ExpireFrame
<1> QED BY <1>1, HandlerBooks DEF Next

\* What a commit takes from an account is there.
LEMMA CommitCovered ==
  ASSUME Inv, NEW p \in Procs, pc[p] = "commit", NEW a \in Accounts
  PROVE  bal[a] + Delta(U(p), terms[p], a) >= 0
<1> USE DEF Inv
<1>1. pc[p] \in InTx
  BY DEF InTx
<1>2. /\ seen[p][HouseTo(p)] >= terms[p].out
      /\ req[p].op # "fund" => seen[p][From(p)] >= terms[p].in
  BY <1>1 DEF HeldInv, HeldAt
<1>3. /\ HouseTo(p) \in Touched(U(p), terms[p])
      /\ req[p].op # "fund" => From(p) \in Touched(U(p), terms[p])
  BY <1>1, TxTerms, TermsFacts, NamesAssumption DEF Touched, HouseTo, From
<1>4. /\ bal[HouseTo(p)] >= terms[p].out
      /\ req[p].op # "fund" => bal[From(p)] >= terms[p].in
  BY <1>2, <1>3, CommitWrites
<1>5. terms[p].in \in Nat /\ terms[p].out \in Nat
  BY <1>1, TxTerms, TermsFacts DEF Terms
<1>6. bal[a] \in Int /\ bal[a] >= 0
  BY DEF NoOverdraft, TypeOK, StoredTypes
<1>7. CASE a = From(p)
  <2>1. req[p].op # "fund"
    BY <1>1, <1>7, TxTerms, TermsFacts, NamesAssumption DEF From, Accounts
  <2>2. Delta(U(p), terms[p], a) = -terms[p].in
    BY <1>1, <1>7, RowsDiffer DEF Delta, From, To, HouseFrom, HouseTo
  <2> QED BY <1>4, <1>5, <1>6, <1>7, <2>1, <2>2
<1>8. CASE a = HouseTo(p)
  <2>1. Delta(U(p), terms[p], a) = -terms[p].out
    BY <1>1, <1>8, RowsDiffer DEF Delta, From, To, HouseFrom, HouseTo
  <2> QED BY <1>4, <1>5, <1>6, <1>8, <2>1
<1>9. CASE a # From(p) /\ a # HouseTo(p)
  <2>1. Delta(U(p), terms[p], a) >= 0 /\ Delta(U(p), terms[p], a) \in Int
    BY <1>5, <1>9 DEF Delta, From, HouseTo
  <2> QED BY <1>6, <2>1
<1> QED BY <1>7, <1>8, <1>9

\* A COMMIT takes no more than the rows its transaction owns were read to hold.
LEMMA NoOverdraftStep ==
  ASSUME Inv, [Next]_vars
  PROVE  NoOverdraft'
<1> USE DEF Inv
<1>1. CASE UNCHANGED <<bal, journal>>
  BY <1>1 DEF NoOverdraft
<1>2. ASSUME NEW p \in Procs, Commit(p) \/ CommitReplyLost(p)
      PROVE  NoOverdraft'
  <2>1. pc[p] = "commit" /\ Apply(p)
    BY <1>2 DEF Commit, CommitReplyLost
  <2>2. \A a \in Accounts : bal'[a] = bal[a] + Delta(U(p), terms[p], a)
    BY <2>1, CommitWrites DEF Apply
  <2> QED BY <2>1, <2>2, CommitCovered DEF NoOverdraft
<1> QED BY <1>1, <1>2, OnlyCommitsBook

----------------------------------------------------------------------------
(* Answers and quotes. *)

\* An entry of the journal is booked by the handler that commits it, and no other
\* handler's bookings change.
LEMMA CommitBooks ==
  ASSUME TypeOK, HandlerInv, NEW p \in Procs, pc[p] = "commit", Apply(p)
  PROVE  /\ Bookings(p)' # {}
         /\ \A q \in Procs : q # p => Bookings(q)' = Bookings(q)
         /\ \A u, k : HasEntry(u, k) => HasEntry(u, k)'
<1>1. journal' = journal \cup {Entry(p, req[p], terms[p])}
  BY DEF Apply
<1>2. Entry(p, req[p], terms[p]).by = p
  BY DEF Entry
<1>3. Bookings(p)' # {}
  BY <1>1, <1>2 DEF Bookings
<1>4. ASSUME NEW q \in Procs, q # p
      PROVE  Bookings(q)' = Bookings(q)
  BY <1>1, <1>2, <1>4 DEF Bookings
<1>5. \A u, k : HasEntry(u, k) => HasEntry(u, k)'
  BY <1>1 DEF HasEntry
<1> QED BY <1>3, <1>4, <1>5

\* Every step keeps the answers in agreement with what is booked.
LEMMA AnswerInvStep ==
  ASSUME Inv, [Next]_vars
  PROVE  AnswerInv'
<1> USE DEF Inv
<1>0. ASSUME UNCHANGED journal
      PROVE  /\ \A q \in Procs : Bookings(q)' = Bookings(q)
             /\ \A u, k : HasEntry(u, k)' = HasEntry(u, k)
  BY <1>0 DEF Bookings, HasEntry
<1>1. ASSUME NEW p \in Procs, Start(p) \/ Step(p) \/ Disturb(p)
      PROVE  AnswerInv'
  <2>0. /\ \A q \in Procs : q # p => Bookings(q)' = Bookings(q)
        /\ \A u, k : HasEntry(u, k) => HasEntry(u, k)'
    <3>1. CASE Commit(p) \/ CommitReplyLost(p)
      BY <3>1, CommitBooks DEF Commit, CommitReplyLost
    <3>2. CASE ~Commit(p) /\ ~CommitReplyLost(p)
      BY <1>0, <1>1, <3>2, HandlerBooks
    <3> QED BY <3>1, <3>2
  <2>1. ASSUME NEW q \in Procs, q # p
        PROVE  AnswerAt(q)'
    <3>1. pc'[q] = pc[q] /\ req'[q] = req[q] /\ res'[q] = res[q]
      BY <1>1, <2>1, OthersAlone DEF TypeOK
    <3> QED BY <2>0, <2>1, <3>1 DEF AnswerInv, AnswerAt, U
  <2>2. AnswerAt(p)'
    <3> USE DEF AnswerAt, After, Ended, Go, Settle, TypeOK, HandlerTypes
    <3>0. AnswerAt(p)
      BY DEF AnswerInv
    <3>1. CASE Outside(p)
      <4>1. UNCHANGED journal
        BY <3>1, OutsideTx
      <4>2. Bookings(p)' = Bookings(p) /\ \A u, k : HasEntry(u, k)' = HasEntry(u, k)
        BY <1>0, <4>1
      <4> USE <3>0, <4>2
      <4>3. CASE Start(p)
        BY <4>3 DEF Start
      <4>4. CASE Admit(p)
        <5>1. Bookings(p) = {}
          BY <4>4 DEF Admit, Validate, CheckKey, ConsumeQuote, TakeQuote, GetdelFails, GetQuote,
                      DelQuote, Redeeming, RestoreQuote, QuoteFails,
                      Acquire, Busy
        <5>2. pc'[p] \notin After
          BY <4>4 DEF Admit, Validate, CheckKey, ConsumeQuote, TakeQuote, GetdelFails, GetQuote,
                      DelQuote, Redeeming, RestoreQuote, QuoteFails,
                      Acquire, Busy
        <5> QED BY <5>1, <5>2
      <4>5. CASE Prepare(p)
        <5>0. Bookings(p) = {} /\ UNCHANGED req
          BY <4>5, PrepareFrame DEF Prepare, Recheck, Rates, FindWallet, CreateWallet, Connect
        <5>1. CASE Recheck(p)
          BY <5>0, <5>1, AnswerFacts DEF Recheck, U
        <5>2. CASE Rates(p)
          BY <5>0, <5>2, AnswerFacts DEF Rates
        <5>3. CASE FindWallet(p)
          BY <5>0, <5>3 DEF FindWallet
        <5>4. CASE CreateWallet(p)
          BY <5>0, <5>4, AnswerFacts DEF CreateWallet
        <5>5. CASE Connect(p)
          BY <5>0, <5>5 DEF Connect, FirstRow
        <5> QED BY <4>5, <5>1, <5>2, <5>3, <5>4, <5>5 DEF Prepare
      <4>6. CASE Finish(p)
        <5>1. UNCHANGED <<req, res>>
          BY <4>6 DEF Finish, Invalidate, SaveRejected, Unlock
        <5>2. CASE Invalidate(p)
          BY <5>1, <5>2 DEF Invalidate, U
        <5>3. CASE SaveRejected(p)
          BY <5>1, <5>3 DEF SaveRejected, U
        <5>4. CASE Unlock(p)
          BY <5>1, <5>4 DEF Unlock
        <5> QED BY <4>6, <5>2, <5>3, <5>4 DEF Finish
      <4>7. CASE Read(p)
        BY <4>7 DEF Read, ReadCache, ReadWallet, CreateOwn, FillCache
      <4> QED BY <3>1, <4>3, <4>4, <4>5, <4>6, <4>7 DEF Outside
    <3>2. CASE LockRows(p)
      <4>1. Bookings(p)' = Bookings(p)
        BY <1>0, <3>2, LockRowsFrame
      <4>2. Bookings(p) = {}
        BY <3>0, <3>2 DEF LockRows, LockFrom, LockTo, InsertTo, LockHouseFrom, LockHouseTo
      <4>3. /\ pc'[p] \in InTx \cup {"rollback"}
            /\ pc'[p] = "rollback" => res'[p] \in {"insufficient", "exhausted", "failed"}
        BY <3>2 DEF LockRows, LockFrom, LockTo, InsertTo, LockHouseFrom,
                    LockHouseTo, FirstHouseRow, InTx, RowSteps
      <4> QED BY <4>1, <4>2, <4>3, AnswerFacts DEF InTx, RowSteps
    <3>3. CASE RecordJournalEntry(p)
      BY <1>0, <3>0, <3>3, AnswerFacts DEF RecordJournalEntry
    <3>4. CASE Commit(p)
      BY <3>0, <3>4, CommitBooks, AnswerFacts DEF Commit
    <3>5. CASE CommitReplyLost(p)
      BY <3>0, <3>5, CommitBooks, AnswerFacts DEF CommitReplyLost
    <3>6. CASE Rollback(p)
      BY <1>0, <3>0, <3>6 DEF Rollback
    <3>7. CASE AbortDeadlocked(p)
      BY <1>0, <3>0, <3>7, DeadlockedInTx, AnswerFacts DEF AbortDeadlocked, RowSteps
    <3>8. CASE DbFails(p)
      BY <1>0, <3>0, <3>8, AnswerFacts DEF DbFails, InTx, RowSteps
    <3>9. CASE Crash(p)
      BY <1>0, <3>0, <3>9 DEF Crash
    <3>10. CASE QueryFails(p)
      BY <1>0, <3>0, <3>10, AnswerFacts DEF QueryFails
    <3> QED BY <1>1, <3>1, <3>2, <3>3, <3>4, <3>5, <3>6, <3>7, <3>8, <3>9, <3>10
        DEF Step, Outside, Transact, Disturb
  <2> QED BY <2>1, <2>2 DEF AnswerInv
<1>2. CASE Expire
  BY <1>0, <1>2, ExpireFrame DEF AnswerInv, AnswerAt, U
<1>3. CASE UNCHANGED vars
  BY <1>0, <1>3 DEF AnswerInv, AnswerAt, U
<1> QED BY <1>1, <1>2, <1>3 DEF Next

\* A step that lets no handler carry a new quote, and neither adds to Redis nor to the
\* journal, keeps the quotes accounted for.
LEMMA QuotesNarrow ==
  ASSUME QuotesAccounted, NEW p \in Procs,
         \A q \in Procs \ {p} : pc'[q] = pc[q] /\ req'[q] = req[q],
         \A q \in Quotes : Carries(p, q)' => /\ Carries(p, q) /\ pc[p] # "restoreQuote"
                                             /\ U(p)' = U(p),
         live' \subseteq live, journal' = journal
  PROVE  QuotesAccounted'
<1>1. \A q \in Quotes : Spent(q)' = Spent(q)
  BY DEF Spent
<1>2. \A q \in Quotes, r \in Procs : Carries(r, q)' => Carries(r, q)
  BY DEF Carries
<1>3. \A r \in Procs \ {p} : U(r)' = U(r)
  BY DEF U
<1> QED BY <1>1, <1>2, <1>3 DEF QuotesAccounted

\* Where GETDEL works, every step keeps a quote in one place: Redis, one handler or the book.
LEMMA QuoteInvStep ==
  ASSUME Inv, [Next]_vars
  PROVE  QuoteInv'
<1> SUFFICES ASSUME "getdel" \notin Faults
             PROVE  QuotesAccounted'
  BY DEF QuoteInv
<1> USE DEF Inv
<1>0. QuotesAccounted
  BY DEF QuoteInv
<1>1. ASSUME NEW p \in Procs, Start(p) \/ Step(p) \/ Disturb(p)
      PROVE  QuotesAccounted'
  <2> DEFINE Holds == {"restoreQuote", "lock", "findWallet", "createWallet", "connect"} \cup InTx
  <2>0. \A q \in Procs \ {p} : pc'[q] = pc[q] /\ req'[q] = req[q]
    BY <1>1, OthersAlone DEF TypeOK
  <2>1. ASSUME UNCHANGED req, live' \subseteq live, UNCHANGED journal,
               req[p].op = "trade" /\ pc'[p] \in Holds =>
                 pc[p] \in Holds \ {"restoreQuote"}
        PROVE  QuotesAccounted'
    <3>1. \A q \in Quotes : Carries(p, q)' => /\ Carries(p, q) /\ pc[p] # "restoreQuote"
                                              /\ U(p)' = U(p)
      BY <2>1 DEF Carries, U
    <3> QED BY <1>0, <2>0, <2>1, <3>1, QuotesNarrow
  <2> USE DEF TypeOK, HandlerTypes, InTx, RowSteps, Go, Settle
  <2>2. CASE Start(p)
    <3>1. /\ \A q \in Quotes : ~Carries(p, q)'
          /\ live' \subseteq live /\ journal' = journal
      BY <2>2 DEF Start, Carries
    <3> QED BY <1>0, <2>0, <3>1, QuotesNarrow
  <2>3. CASE Admit(p)
    <3>0. UNCHANGED <<req, journal>>
      BY <2>3, AdmitFrame
    <3>1. CASE ConsumeQuote(p)
      <4> DEFINE q0 == req[p].quote
      <4>1. pc[p] = "consumeQuote" /\ live' = live \ {q0} /\ req[p].op = "trade"
        BY <3>1 DEF ConsumeQuote, HandlerInv, HandlerAt, Redeeming
      <4>2. CASE pc'[p] = "done"
        BY <2>1, <3>0, <4>1, <4>2
      <4>3. CASE /\ q0 \in live /\ pc'[p] \in {"lock", "restoreQuote"}
                 /\ pc'[p] = "lock" => QuoteBook[q0].user = U(p)
        <5>1. \A q \in Quotes, r \in Procs :
                Carries(r, q)' <=> (Carries(r, q) \/ (r = p /\ q = q0))
          BY <2>0, <3>0, <4>1, <4>3 DEF Carries
        <5>2. \A q \in Quotes : Spent(q)' = Spent(q)
          BY <3>0 DEF Spent
        <5>3. \A r \in Procs : U(r)' = U(r)
          BY <3>0 DEF U
        <5>4. ASSUME NEW q \in Quotes, q = q0
              PROVE  ~Spent(q) /\ \A r \in Procs : ~Carries(r, q)
          BY <1>0, <4>3, <5>4 DEF QuotesAccounted
        <5>5. ASSUME NEW q \in Quotes, q # q0
              PROVE  \A r \in Procs : Carries(r, q)' <=> Carries(r, q)
          BY <5>1, <5>5
        <5>6. \A r \in Procs, q \in Quotes :
                Carries(r, q) => pc'[r] = pc[r]
          BY <2>0, <4>1 DEF Carries
        <5>7. \A q \in Quotes : q = q0 =>
                /\ ~Spent(q)' /\ q \notin live'
                /\ \A r \in Procs : Carries(r, q)' => r = p
          BY <4>1, <5>1, <5>2, <5>4
        <5>8. \A q \in Quotes : q # q0 => (q \in live' <=> q \in live)
          BY <4>1
        <5> HIDE DEF q0
        <5>9. \A q \in Quotes : q # q0 =>
                /\ Spent(q)' => q \notin live' /\ \A r \in Procs : ~Carries(r, q)'
                /\ \A r \in Procs :
                     Carries(r, q)' => /\ q \notin live'
                                       /\ pc'[r] # "restoreQuote" =>
                                            QuoteBook[q].user = U(r)'
                /\ \A x, y \in Procs : Carries(x, q)' /\ Carries(y, q)' => x = y
          BY <1>0, <5>2, <5>3, <5>5, <5>6, <5>8 DEF QuotesAccounted
        <5>10. \A q \in Quotes : q = q0 =>
                 \A r \in Procs :
                   Carries(r, q)' /\ pc'[r] # "restoreQuote" => QuoteBook[q].user = U(r)'
          BY <4>3, <5>3, <5>7 DEF q0
        <5> QED BY <1>0, <5>7, <5>9, <5>10 DEF QuotesAccounted
      <4> QED BY <3>1, <4>2, <4>3 DEF ConsumeQuote, TakeQuote
    <3>2. CASE RestoreQuote(p)
      <4> DEFINE q0 == req[p].quote
      <4>1. /\ pc[p] = "restoreQuote" /\ pc'[p] = "done" /\ live' \subseteq live \cup {q0}
            /\ req[p].op = "trade"
        BY <3>2 DEF RestoreQuote, HandlerInv, HandlerAt, Redeeming
      <4>2. \A q \in Quotes, r \in Procs : Carries(r, q)' <=> (Carries(r, q) /\ r # p)
        BY <2>0, <3>0, <4>1 DEF Carries
      <4>3. \A q \in Quotes : q = q0 => Carries(p, q)
        BY <4>1 DEF Carries
      <4>4. \A q \in Quotes : Spent(q)' = Spent(q)
        BY <3>0 DEF Spent
      <4>5. \A r \in Procs : U(r)' = U(r)
        BY <3>0 DEF U
      <4>6. \A q \in Quotes : q = q0 => ~Spent(q) /\ \A r \in Procs : Carries(r, q) => r = p
        BY <1>0, <4>3 DEF QuotesAccounted
      <4>7. \A q \in Quotes : q # q0 /\ q \in live' => q \in live
        BY <4>1
      <4> HIDE DEF q0
      <4>8. \A q \in Quotes : q # q0 \/ q = q0
        OBVIOUS
      <4> QED BY <1>0, <2>0, <4>2, <4>4, <4>5, <4>6, <4>7, <4>8 DEF QuotesAccounted
    <3>3. CASE ~ConsumeQuote(p) /\ ~RestoreQuote(p)
      <4>0. ~GetdelFails(p) /\ ~GetQuote(p) /\ ~DelQuote(p)
        BY DEF GetdelFails, GetQuote, DelQuote, HandlerInv, HandlerAt
      <4>1. live' \subseteq live
        BY <2>3, <3>3, <4>0 DEF Admit, Validate, CheckKey, QuoteFails, Redeeming, Acquire, Busy
      <4>2. /\ req[p].op = "trade" /\ pc'[p] \in Holds => pc[p] \in Holds \ {"restoreQuote"}
        BY <2>3, <3>3, <4>0 DEF Admit, Validate, CheckKey, QuoteFails, Redeeming, Acquire, Busy
      <4> QED BY <2>1, <3>0, <4>1, <4>2
    <3> QED BY <3>1, <3>2, <3>3
  <2>4. CASE Prepare(p)
    <3>1. /\ UNCHANGED <<req, journal, live>>
          /\ pc'[p] \in Holds =>
               pc[p] \in {"recheck", "rates", "findWallet", "createWallet", "connect"}
          /\ pc[p] \in {"recheck", "rates"} => req[p].op # "trade"
      BY <2>4, PrepareFrame DEF Prepare, Recheck, Rates, FindWallet, CreateWallet, Connect,
                                FirstRow, HandlerInv, HandlerAt
    <3> QED BY <2>1, <3>1
  <2>5. CASE LockRows(p)
    <3>1. UNCHANGED <<req, journal, live>> /\ pc[p] \in InTx
      BY <2>5, LockRowsFrame DEF LockRows, LockFrom, LockTo, InsertTo, LockHouseFrom,
                                 LockHouseTo
    <3> QED BY <2>1, <3>1
  <2>6. CASE RecordJournalEntry(p) \/ Rollback(p)
    <3>1. /\ UNCHANGED <<req, journal, live>>
          /\ pc[p] = "record" \/ pc'[p] \in {"reject", "unlock"}
      BY <2>6 DEF RecordJournalEntry, Rollback
    <3> QED BY <2>1, <3>1
  <2>7. CASE Commit(p) \/ CommitReplyLost(p)
    <3>1. /\ UNCHANGED <<req, live>> /\ pc[p] = "commit" /\ pc'[p] \in {"invalidate", "unlock"}
          /\ journal' = journal \cup {Entry(p, req[p], terms[p])}
      BY <2>7 DEF Commit, CommitReplyLost, Apply
    <3>2. \A q \in Quotes, r \in Procs : Carries(r, q)' <=> (Carries(r, q) /\ r # p)
      BY <2>0, <3>1 DEF Carries
    <3>3. \A q \in Quotes : Spent(q)' <=> (Spent(q) \/ Carries(p, q))
      <4>1. /\ Entry(p, req[p], terms[p]).op = req[p].op
            /\ Entry(p, req[p], terms[p]).quote = req[p].quote
        BY DEF Entry
      <4> QED BY <3>1, <4>1 DEF Spent, Carries
    <3>4. \A r \in Procs : U(r)' = U(r)
      BY <3>1 DEF U
    <3> QED BY <1>0, <2>0, <3>1, <3>2, <3>3, <3>4 DEF QuotesAccounted
  <2>8. CASE Finish(p) \/ Read(p)
    <3>1. UNCHANGED <<req, journal, live>> /\ pc'[p] \notin Holds
      BY <2>8, FinishFrame, ReadFrame DEF Finish, Invalidate, SaveRejected, Unlock, Read,
                                          ReadCache, ReadWallet, CreateOwn, FillCache
    <3> QED BY <2>1, <3>1
  <2>9. CASE Disturb(p)
    <3>1. UNCHANGED <<req, journal, live>> /\ pc'[p] \notin Holds
      BY <2>9, DisturbFrame DEF Disturb, AbortDeadlocked, QueryFails, DbFails, Crash
    <3> QED BY <2>1, <3>1
  <2> QED BY <1>1, <2>2, <2>3, <2>4, <2>5, <2>6, <2>7, <2>8, <2>9 DEF Step, Transact
<1>2. CASE Expire
  <2>1. /\ UNCHANGED <<pc, req, journal>> /\ live' \subseteq live
    BY <1>2, ExpireFrame DEF Expire, LeaseExpires, CacheExpires, QuoteExpires
  <2> QED BY <1>0, <2>1 DEF QuotesAccounted, Carries, Spent, U
<1>3. CASE UNCHANGED vars
  BY <1>0, <1>3 DEF QuotesAccounted, Carries, Spent, U
<1> QED BY <1>1, <1>2, <1>3 DEF Next

----------------------------------------------------------------------------
(* The theorems. *)

\* The initial tables, empty of journals, satisfy the invariant.
LEMMA InitInv ==
  ASSUME Init
  PROVE  Inv
<1>1. TypeOK
  BY OpeningAssumption, LabelFacts
  DEF Init, TypeOK, HandlerTypes, RedisTypes, StoredTypes, TxTypes, NothingRead, NoTerms,
      Terms, HouseRows, Accounts
<1>2. HandlerInv
  BY DEF Init, HandlerInv, HandlerAt, Before, Redeeming, Critical, UnderLock, InTx, RowSteps, After,
         Reading
<1>3. RowInv /\ KeyInv
  BY NamesAssumption DEF Init, RowInv, KeyInv
<1>4. HeldInv
  BY DEF Init, HeldInv, HeldAt, InTx, RowSteps
<1>5. NoOverdraft
  BY OpeningAssumption DEF Init, NoOverdraft
<1>6. AnswerInv
  BY DEF Init, AnswerInv, AnswerAt, Bookings, After
<1>7. QuoteInv
  BY DEF Init, QuoteInv, QuotesAccounted, Spent, Carries, InTx, RowSteps
<1> QED BY <1>1, <1>2, <1>3, <1>4, <1>5, <1>6, <1>7 DEF Inv

\* The invariant is inductive.
THEOREM Invariance == Spec => []Inv
<1>1. Init => Inv
  BY InitInv
<1>2. Inv /\ [Next]_vars => Inv'
  <2> SUFFICES ASSUME Inv, [Next]_vars
               PROVE  Inv'
    OBVIOUS
  <2>1. TypeOK'
    BY HandlerTypesStep, RedisTypesStep, StoredTypesStep, TxTypesStep DEF Inv, TypeOK
  <2>2. HandlerInv'
    BY HandlerInvStep DEF Inv
  <2> QED BY <2>1, <2>2, RowInvStep, HeldInvStep, KeyInvStep, NoOverdraftStep,
             AnswerInvStep, QuoteInvStep DEF Inv
<1> QED BY <1>1, <1>2, PTL DEF Spec

\* Every variable keeps its type.
THEOREM TypeCorrect == Spec => []TypeOK
<1>1. Inv => TypeOK
  BY DEF Inv
<1> QED BY <1>1, Invariance, PTL

\* No committing transaction overwrites an update it has not read, whether or not the
\* Redlock of its wallet is still its own.
THEOREM UpdatesAreNotLost == Spec => []NoLostUpdate
<1>1. Inv => NoLostUpdate
  BY CommitWrites DEF Inv, NoLostUpdate
<1> QED BY <1>1, Invariance, PTL

\* No account, of a user or of the house, is ever overdrawn.
THEOREM NeverOverdrawn == Spec => []NoOverdraft
<1>1. Inv => NoOverdraft
  BY DEF Inv
<1> QED BY <1>1, Invariance, PTL

\* Balances move only with one new journal row and its outbox row, under a key not
\* used before, by exactly the legs of that row.
THEOREM BalancesMoveOnlyByPosting == Spec => BalancesMoveByPosting
<1> DEFINE Posts ==
  \E p \in Procs :
    /\ pc[p] = "commit" /\ ~HasEntry(U(p), req[p].key)
    /\ journal' = journal \cup {Entry(p, req[p], terms[p])}
    /\ outbox' = outbox \cup {p}
    /\ \A a \in Accounts : bal'[a] = bal[a] + Delta(U(p), terms[p], a)
<1>1. Inv /\ [Next]_vars => [bal' # bal => Posts]_vars
  <2> SUFFICES ASSUME Inv, [Next]_vars, bal' # bal
               PROVE  Posts
    OBVIOUS
  <2>1. PICK p \in Procs : Commit(p) \/ CommitReplyLost(p)
    BY OnlyCommitsBook DEF Inv
  <2>2. pc[p] = "commit" /\ Apply(p)
    BY <2>1 DEF Commit, CommitReplyLost
  <2>3. ~HasEntry(U(p), req[p].key)
    <3>1. KeyOf(p) \in JournalKeys /\ keyOwner[KeyOf(p)] = p
      BY <2>2, TxTerms DEF Inv, KeyInv, KeyOf, JournalKeys, InTx
    <3> QED BY <3>1 DEF Inv, KeyInv, OwnsKey, KeyOf
  <2> QED BY <2>2, <2>3, CommitWrites DEF Apply, Inv
<1> QED BY <1>1, Invariance, PTL DEF Spec, BalancesMoveByPosting

\* In every currency the legs of one posting cancel between the user and the house.
LEMMA LegsCancel ==
  ASSUME TypeOK, HandlerInv, NEW p \in Procs, pc[p] = "commit", NEW c \in Currencies
  PROVE  /\ Delta(U(p), terms[p], <<U(p), c>>) + Delta(U(p), terms[p], <<House, c>>) = 0
         /\ \A v \in Users \ {U(p)} : Delta(U(p), terms[p], <<v, c>>) = 0
<1>1. pc[p] \in InTx
  BY DEF InTx
<1>2. U(p) \in Users /\ terms[p] \in Terms /\ terms[p].to # terms[p].from
  BY <1>1, TxTerms, TermsFacts
<1>3. U(p) # House
  BY <1>2, NamesAssumption
<1>4. Delta(U(p), terms[p], <<U(p), c>>) =
        IF c = terms[p].from THEN -terms[p].in
        ELSE IF c = terms[p].to THEN terms[p].out ELSE 0
  <2>1. CASE c = terms[p].from
    BY <1>2, <1>3, <2>1 DEF Delta
  <2>2. CASE c # terms[p].from /\ c = terms[p].to
    BY <1>2, <1>3, <2>2 DEF Delta
  <2>3. CASE c # terms[p].from /\ c # terms[p].to
    BY <1>2, <1>3, <2>3 DEF Delta
  <2> QED BY <2>1, <2>2, <2>3
<1>5. Delta(U(p), terms[p], <<House, c>>) =
        IF c = terms[p].from THEN terms[p].in
        ELSE IF c = terms[p].to THEN -terms[p].out ELSE 0
  <2>1. CASE c = terms[p].from
    BY <1>2, <1>3, <2>1 DEF Delta
  <2>2. CASE c # terms[p].from /\ c = terms[p].to
    BY <1>2, <1>3, <2>2 DEF Delta
  <2>3. CASE c # terms[p].from /\ c # terms[p].to
    BY <1>2, <1>3, <2>3 DEF Delta
  <2> QED BY <2>1, <2>2, <2>3
<1>6. terms[p].in \in Int /\ terms[p].out \in Int
  BY <1>2 DEF Terms
<1>7. \A v \in Users \ {U(p)} : Delta(U(p), terms[p], <<v, c>>) = 0
  BY <1>2, NamesAssumption DEF Delta
<1> QED BY <1>4, <1>5, <1>6, <1>7

\* One step moves money between one user and the house, and no other account.
LEMMA StepMovesMoney ==
  ASSUME Inv, [Next]_vars, NEW c \in Currencies, bal' # bal
  PROVE  \E u \in Users :
           /\ bal'[<<u, c>>] + bal'[<<House, c>>] = bal[<<u, c>>] + bal[<<House, c>>]
           /\ \A v \in Users \ {u} : bal'[<<v, c>>] = bal[<<v, c>>]
<1> USE DEF Inv
<1>1. PICK p \in Procs : Commit(p) \/ CommitReplyLost(p)
  BY OnlyCommitsBook
<1>2. pc[p] = "commit" /\ Apply(p)
  BY <1>1 DEF Commit, CommitReplyLost
<1>3. U(p) \in Users
  BY <1>2, TxTerms DEF InTx
<1>4. \A a \in Accounts : bal'[a] = bal[a] + Delta(U(p), terms[p], a)
  BY <1>2, CommitWrites DEF Apply
<1>5. \A u \in Users \cup {House} : <<u, c>> \in Accounts /\ bal[<<u, c>>] \in Int
  BY DEF Accounts, TypeOK, StoredTypes
<1>6. \A a \in Accounts : Delta(U(p), terms[p], a) \in Int
  BY <1>2, TxTerms, TermsFacts DEF InTx, Delta, Terms
<1>7. /\ Delta(U(p), terms[p], <<U(p), c>>) + Delta(U(p), terms[p], <<House, c>>) = 0
      /\ \A v \in Users \ {U(p)} : Delta(U(p), terms[p], <<v, c>>) = 0
  BY <1>2, LegsCancel
<1>8. ASSUME NEW v \in Users \ {U(p)}
      PROVE  bal'[<<v, c>>] = bal[<<v, c>>]
  <2>1. bal'[<<v, c>>] = bal[<<v, c>>] + Delta(U(p), terms[p], <<v, c>>)
    BY <1>4, <1>5
  <2> QED BY <1>5, <1>7, <2>1
<1>9. bal'[<<U(p), c>>] + bal'[<<House, c>>] = bal[<<U(p), c>>] + bal[<<House, c>>]
  <2> DEFINE a == <<U(p), c>>
             h == <<House, c>>
             d == Delta(U(p), terms[p], a)
             e == Delta(U(p), terms[p], h)
  <2>1. bal'[a] = bal[a] + d /\ bal'[h] = bal[h] + e
    BY <1>3, <1>4, <1>5
  <2>2. bal[a] \in Int /\ bal[h] \in Int /\ d \in Int /\ e \in Int /\ d + e = 0
    BY <1>3, <1>5, <1>6, <1>7
  <2> HIDE DEF a, h, d, e
  <2>3. bal'[a] + bal'[h] = bal[a] + bal[h]
    BY <2>1, <2>2
  <2> QED BY <2>3 DEF a, h
<1> QED BY <1>3, <1>8, <1>9

\* In each currency a step moves money between one user and the house, and no other
\* account: nothing is created, destroyed or sent elsewhere.
THEOREM StepsBalance == Spec => EveryStepBalances
<1> DEFINE Balances ==
  \A c \in Currencies : bal' # bal =>
    \E u \in Users :
      /\ bal'[<<u, c>>] + bal'[<<House, c>>] = bal[<<u, c>>] + bal[<<House, c>>]
      /\ \A v \in Users \ {u} : bal'[<<v, c>>] = bal[<<v, c>>]
<1>1. Inv /\ [Next]_vars => [Balances]_vars
  BY StepMovesMoney
<1> QED BY <1>1, Invariance, PTL DEF Spec, EveryStepBalances

\* Where GETDEL works, a quote pays out at most once, however its redemption is
\* retried or raced.
THEOREM QuotesPayOnce ==
  ASSUME "getdel" \notin Faults
  PROVE  Spec => []QuoteRedeemedOnce
<1>1. Init => QuoteRedeemedOnce
  BY DEF Init, QuoteRedeemedOnce
<1>2. Inv /\ QuoteRedeemedOnce /\ [Next]_vars => QuoteRedeemedOnce'
  <2> SUFFICES ASSUME Inv, QuoteRedeemedOnce, [Next]_vars
               PROVE  QuoteRedeemedOnce'
    OBVIOUS
  <2> USE DEF Inv
  <2>1. CASE UNCHANGED <<bal, journal>>
    BY <2>1 DEF QuoteRedeemedOnce
  <2>2. ASSUME NEW p \in Procs, Commit(p) \/ CommitReplyLost(p)
        PROVE  QuoteRedeemedOnce'
    <3>1. pc[p] = "commit" /\ journal' = journal \cup {Entry(p, req[p], terms[p])}
      BY <2>2 DEF Commit, CommitReplyLost, Apply
    <3>2. req[p].op = "trade" => req[p].quote \in Quotes
      BY <3>1, TxTerms, RequestsAssumption DEF InTx
    <3>3. req[p].op = "trade" => Carries(p, req[p].quote)
      BY <3>1 DEF Carries, InTx
    <3>4. req[p].op = "trade" => ~Spent(req[p].quote)
      BY <3>2, <3>3 DEF QuoteInv, QuotesAccounted
    <3>5. /\ Entry(p, req[p], terms[p]).op = req[p].op
          /\ Entry(p, req[p], terms[p]).quote = req[p].quote
      BY DEF Entry
    <3> QED BY <3>1, <3>4, <3>5 DEF QuoteRedeemedOnce, Spent
  <2> QED BY <2>1, <2>2, OnlyCommitsBook
<1> QED BY <1>1, <1>2, Invariance, PTL DEF Spec

----------------------------------------------------------------------------
(* The refinement. *)

\* The ledger's instance and the service speak of the same accounts, terms and answers.
LEMMA SameVocabulary ==
  /\ LedgerView!Answers = Answers /\ LedgerView!Refusals = Refusals
  /\ LedgerView!Accounts = Accounts
  /\ \A r : LedgerView!Valid(r) = Valid(r) /\ LedgerView!TermsOf(r) = TermsOf(r)
  /\ \A u, t, a : LedgerView!Delta(u, t, a) = Delta(u, t, a)
  /\ \A p, r, t : LedgerView!Entry(p, r, t) = Entry(p, r, t)
  /\ \A u, k : LedgerView!Booked(u, k) = HasEntry(u, k)
  /\ \A p : LedgerView!BookedBy(p) <=> Bookings(p) # {}
<1>1. LedgerView!Answers = Answers /\ LedgerView!Refusals = Refusals
  BY DEF LedgerView!Answers, LedgerView!Refusals, Answers, Refusals
<1>2. LedgerView!Accounts = Accounts
  BY DEF LedgerView!Accounts, Accounts
<1>3. \A r : LedgerView!Valid(r) = Valid(r)
  BY DEF LedgerView!Valid, Valid
<1>4. \A r : LedgerView!TermsOf(r) = TermsOf(r)
  BY DEF LedgerView!TermsOf, TermsOf
<1>5. \A u, t, a : LedgerView!Delta(u, t, a) = Delta(u, t, a)
  BY DEF LedgerView!Delta, Delta
<1>6. \A p, r, t : LedgerView!Entry(p, r, t) = Entry(p, r, t)
  BY DEF LedgerView!Entry, Entry
<1>7. \A u, k : LedgerView!Booked(u, k) = HasEntry(u, k)
  BY DEF LedgerView!Booked, HasEntry
<1>8. \A p : LedgerView!BookedBy(p) <=> Bookings(p) # {}
  BY DEF LedgerView!BookedBy, Bookings
<1> QED BY <1>1, <1>2, <1>3, <1>4, <1>5, <1>6, <1>7, <1>8

\* What the client of a handler has been answered.
AnswerOf(p) == IF pc[p] = "done" THEN res[p] ELSE "none"

\* A step that neither books, asks nor answers is a stutter of the ledger.
LEMMA Stutters ==
  ASSUME NEW p \in Procs, UNCHANGED <<bal, journal, req>>,
         pc[p] # "done", pc'[p] # "done",
         \A q \in Procs \ {p} : pc'[q] = pc[q] /\ res'[q] = res[q]
  PROVE  UNCHANGED LedgerView!vars
<1>1. \A q \in Procs : (pc'[q] = "done") = (pc[q] = "done")
  OBVIOUS
<1>2. \A q \in Procs : AnswerOf(q)' = AnswerOf(q)
  BY DEF AnswerOf
<1>3. [q \in Procs |-> AnswerOf(q)]' = [q \in Procs |-> AnswerOf(q)]
  BY <1>2
<1> QED BY <1>3 DEF LedgerView!vars, AnswerOf

\* A handler that ends with an answer the book bears out takes a step of the ledger.
LEMMA AnswerMaps ==
  ASSUME HandlerTypes, NEW p \in Procs, UNCHANGED <<bal, journal, req>>,
         req[p] # None, pc[p] # "done", pc'[p] = "done",
         NEW o \in Answers, res'[p] = o, LedgerView!Justified(p, o),
         \A q \in Procs \ {p} : pc'[q] = pc[q] /\ res'[q] = res[q]
  PROVE  LedgerView!Answer(p)
<1>1. \A q \in Procs : AnswerOf(q)' = IF q = p THEN o ELSE AnswerOf(q)
  BY DEF AnswerOf
<1>2. [q \in Procs |-> AnswerOf(q)]' = [[q \in Procs |-> AnswerOf(q)] EXCEPT ![p] = o]
  BY <1>1
<1>3. [q \in Procs |-> AnswerOf(q)][p] = "none"
  BY DEF AnswerOf
<1>4. /\ [q \in Procs |-> IF pc[q] = "done" THEN res[q] ELSE "none"][p] = "none"
      /\ [q \in Procs |-> IF pc'[q] = "done" THEN res'[q] ELSE "none"]
           = [[q \in Procs |-> IF pc[q] = "done" THEN res[q] ELSE "none"] EXCEPT ![p] = o]
  BY <1>2, <1>3 DEF AnswerOf
<1> QED BY <1>4, SameVocabulary DEF LedgerView!Answer

\* A commit is a posting of the ledger.
LEMMA CommitPosts ==
  ASSUME "getdel" \notin Faults, Inv, NEW p \in Procs, Commit(p) \/ CommitReplyLost(p),
         \A q \in Procs \ {p} : pc'[q] = pc[q] /\ res'[q] = res[q]
  PROVE  LedgerView!Post(p)
<1> USE DEF Inv
<1>1. /\ pc[p] = "commit" /\ pc'[p] \in {"invalidate", "unlock"} /\ Apply(p)
      /\ UNCHANGED req
  BY DEF Commit, CommitReplyLost, Settle, Go, TypeOK, HandlerTypes
<1>2. /\ req[p] \in Requests /\ Valid(req[p]) /\ terms[p] \in TermsOf(req[p])
      /\ KeyOf(p) \in JournalKeys
  BY <1>1, TxTerms DEF InTx, KeyOf, JournalKeys, U
<1>3. ~HasEntry(req[p].user, req[p].key)
  BY <1>1, <1>2 DEF KeyInv, OwnsKey, KeyOf, U
<1>4. req[p].op = "trade" => /\ QuoteBook[req[p].quote].user = req[p].user
                             /\ ~Spent(req[p].quote)
  <2>1. req[p].op = "trade" => req[p].quote \in Quotes
    BY <1>2, RequestsAssumption
  <2>2. req[p].op = "trade" => Carries(p, req[p].quote)
    BY <1>1 DEF Carries, InTx
  <2> QED BY <1>1, <2>1, <2>2 DEF QuoteInv, QuotesAccounted, U
<1>5. \A a \in Accounts : bal[a] + Delta(req[p].user, terms[p], a) >= 0
  BY <1>1, CommitCovered DEF U
<1>6. bal' = [a \in Accounts |-> bal[a] + Delta(req[p].user, terms[p], a)]
  BY <1>1, CommitWrites DEF Apply, U
<1>7. journal' = journal \cup {Entry(p, req[p], terms[p])}
  BY <1>1 DEF Apply
<1>8. \A q \in Procs : AnswerOf(q)' = AnswerOf(q)
  BY <1>1 DEF AnswerOf
<1>9. /\ [q \in Procs |-> AnswerOf(q)]' = [q \in Procs |-> AnswerOf(q)]
      /\ [q \in Procs |-> AnswerOf(q)][p] = "none"
  BY <1>1, <1>8 DEF AnswerOf
<1>10. /\ [q \in Procs |-> IF pc'[q] = "done" THEN res'[q] ELSE "none"]
            = [q \in Procs |-> IF pc[q] = "done" THEN res[q] ELSE "none"]
       /\ [q \in Procs |-> IF pc[q] = "done" THEN res[q] ELSE "none"][p] = "none"
  BY <1>9 DEF AnswerOf
<1>11. req[p].op = "trade" => \A j \in journal : j.op = "trade" => j.quote # req[p].quote
  BY <1>4 DEF Spent
<1>12. req[p] # None
  BY <1>2, NamesAssumption
<1> QED BY <1>1, <1>2, <1>3, <1>4, <1>5, <1>6, <1>7, <1>10, <1>11, <1>12, SameVocabulary
    DEF LedgerView!Post

\* A handler whose step neither books nor asks ends with a justified answer or is not
\* seen by the ledger.
LEMMA HandlerAnswers ==
  ASSUME Inv, NEW p \in Procs, Step(p) \/ Disturb(p), ~Commit(p), ~CommitReplyLost(p)
  PROVE  /\ UNCHANGED <<bal, journal, req>> /\ req[p] # None /\ pc[p] # "done"
         /\ pc'[p] = "done" => res'[p] \in Answers /\ LedgerView!Justified(p, res'[p])
<1> USE DEF Inv, TypeOK, HandlerTypes, Go, Settle
<1>1. UNCHANGED <<bal, journal, req>>
  <2>1. UNCHANGED <<bal, journal>>
    BY HandlerBooks
  <2>2. UNCHANGED req
    BY AdmitFrame, PrepareFrame, LockRowsFrame, TransactFrame, FinishFrame, ReadFrame,
       DisturbFrame DEF Step
  <2> QED BY <2>1, <2>2
<1>2. AnswerAt(p) /\ HandlerAt(p)
  BY DEF AnswerInv, HandlerInv
<1>3. pc[p] # "idle" => req[p] \in Requests /\ req[p] # None
  BY <1>2, NamesAssumption DEF HandlerAt
<1>4. CASE Admit(p)
  <2>0. pc[p] \in {"validate", "checkKey", "lock"} \cup Redeeming
    BY <1>4 DEF Admit, Validate, CheckKey, ConsumeQuote, GetdelFails, GetQuote, DelQuote,
                RestoreQuote, QuoteFails, Acquire, Busy, Redeeming
  <2>1. Bookings(p) = {} /\ pc[p] \notin {"idle", "done"}
    BY <1>2, <2>0 DEF AnswerAt, Ended, Redeeming
  <2>2. pc'[p] = "done" =>
          \/ res'[p] \in {"invalid", "quoteGone", "failed", "busy"}
          \/ res'[p] = "replay" /\ HasEntry(req[p].user, req[p].key)
    BY <1>4 DEF Admit, Validate, CheckKey, ConsumeQuote, TakeQuote, GetdelFails, GetQuote,
                      DelQuote, Redeeming, RestoreQuote, QuoteFails, Acquire,
                Busy, U
  <2> QED BY <1>1, <1>3, <2>1, <2>2, AnswerFacts, SameVocabulary
          DEF LedgerView!Justified, Refusals
<1>5. CASE Prepare(p) \/ LockRows(p)
  BY <1>1, <1>3, <1>5 DEF Prepare, Recheck, Rates, FindWallet, CreateWallet, Connect, FirstRow,
     LockRows, LockFrom, LockTo, InsertTo, LockHouseFrom, LockHouseTo, FirstHouseRow
<1>6. CASE Transact(p)
  BY <1>1, <1>3, <1>6 DEF Transact, RecordJournalEntry, Rollback
<1>7. CASE Finish(p)
  <2>1. CASE Invalidate(p) \/ SaveRejected(p)
    BY <1>1, <1>3, <2>1 DEF Invalidate, SaveRejected
  <2>2. CASE Unlock(p)
    <3>1. pc[p] = "unlock" /\ res'[p] = res[p] /\ res[p] \in Answers
      BY <1>2, <2>2 DEF Unlock, AnswerAt, After
    <3>2. res[p] = "ok" => Bookings(p) # {}
      BY <1>2, <3>1 DEF AnswerAt
    <3>3. res[p] = "replay" => HasEntry(req[p].user, req[p].key)
      BY <1>2, <3>1 DEF AnswerAt, U
    <3>4. res[p] \in Refusals => Bookings(p) = {}
      BY <1>2 DEF AnswerAt, Refusals
    <3> QED BY <1>1, <1>3, <3>1, <3>2, <3>3, <3>4, SameVocabulary
            DEF LedgerView!Justified, Refusals, Answers
  <2> QED BY <1>7, <2>1, <2>2 DEF Finish
<1>8. CASE Read(p)
  <2>1. pc[p] \in Reading
    BY <1>8 DEF Read, ReadCache, ReadWallet, CreateOwn, FillCache, Reading
  <2>2. pc'[p] = "done" => res'[p] \in {"ok", "failed"}
    BY <1>8 DEF Read, ReadCache, ReadWallet, CreateOwn, FillCache
  <2>3. pc'[p] = "done" => (res'[p] = "ok" => req[p].op = "get")
    BY <1>2, <1>8, <2>1, <2>2 DEF HandlerAt, Reading
  <2> QED BY <1>1, <1>3, <2>1, <2>2, <2>3, AnswerFacts, SameVocabulary
          DEF LedgerView!Justified, Reading, Refusals
<1>9. CASE Disturb(p)
  <2>1. CASE QueryFails(p)
    BY <1>1, <1>3, <2>1, AnswerFacts, SameVocabulary
    DEF QueryFails, LedgerView!Justified, Refusals
  <2>2. CASE AbortDeadlocked(p)
    BY <1>1, <1>3, <2>2, DeadlockedInTx DEF AbortDeadlocked, RowSteps
  <2>3. CASE DbFails(p) \/ Crash(p)
    BY <1>1, <1>3, <2>3 DEF DbFails, Crash, InTx, RowSteps, Ended
  <2> QED BY <1>9, <2>1, <2>2, <2>3 DEF Disturb
<1> QED BY <1>1, <1>4, <1>5, <1>6, <1>7, <1>8, <1>9 DEF Step

\* Where GETDEL works, the service implements the ledger: every step of every handler is a request, one
\* atomic posting, an answer the book bears out, or nothing a client can see.
THEOREM Refinement ==
  ASSUME "getdel" \notin Faults
  PROVE  Spec => ImplementsLedger
<1>1. Init => LedgerView!Init
  <2> SUFFICES ASSUME Init
               PROVE  LedgerView!Init
    OBVIOUS
  <2>1. [p \in Procs |-> IF pc[p] = "done" THEN res[p] ELSE "none"]
          = [p \in Procs |-> "none"]
    BY DEF Init
  <2> QED BY <2>1 DEF Init, LedgerView!Init
<1>2. Inv /\ [Next]_vars => [LedgerView!Next]_LedgerView!vars
  <2> SUFFICES ASSUME Inv, [Next]_vars
               PROVE  LedgerView!Next \/ UNCHANGED LedgerView!vars
    OBVIOUS
  <2> USE DEF Inv
  <2>1. ASSUME NEW p \in Procs, Start(p) \/ Step(p) \/ Disturb(p)
        PROVE  LedgerView!Next \/ UNCHANGED LedgerView!vars
    <3>0. \A q \in Procs \ {p} : pc'[q] = pc[q] /\ res'[q] = res[q]
      BY <2>1, OthersAlone DEF TypeOK
    <3>1. CASE Start(p)
      <4>1. /\ pc[p] = "idle" /\ pc'[p] # "done" /\ req[p] = None
            /\ UNCHANGED <<bal, journal>>
        BY <3>1 DEF Start, Go, TypeOK, HandlerTypes, HandlerInv, HandlerAt
      <4>2. \A q \in Procs : AnswerOf(q)' = AnswerOf(q)
        BY <3>0, <4>1 DEF AnswerOf
      <4>3. [q \in Procs |-> AnswerOf(q)]' = [q \in Procs |-> AnswerOf(q)]
        BY <4>2
      <4>4. [q \in Procs |-> IF pc'[q] = "done" THEN res'[q] ELSE "none"]
              = [q \in Procs |-> IF pc[q] = "done" THEN res[q] ELSE "none"]
        BY <4>3 DEF AnswerOf
      <4>5. \E r \in Requests : req' = [req EXCEPT ![p] = r]
        BY <3>1 DEF Start
      <4> QED BY <4>1, <4>4, <4>5 DEF LedgerView!Next, LedgerView!Ask
    <3>2. CASE Commit(p) \/ CommitReplyLost(p)
      BY <3>0, <3>2, CommitPosts DEF LedgerView!Next
    <3>3. CASE (Step(p) \/ Disturb(p)) /\ ~Commit(p) /\ ~CommitReplyLost(p)
      <4>1. /\ UNCHANGED <<bal, journal, req>> /\ req[p] # None /\ pc[p] # "done"
            /\ pc'[p] = "done" => res'[p] \in Answers /\ LedgerView!Justified(p, res'[p])
        BY <3>3, HandlerAnswers
      <4>2. CASE pc'[p] = "done"
        BY <3>0, <4>1, <4>2, AnswerMaps DEF LedgerView!Next, TypeOK
      <4>3. CASE pc'[p] # "done"
        BY <3>0, <4>1, <4>3, Stutters
      <4> QED BY <4>2, <4>3
    <3> QED BY <2>1, <3>1, <3>2, <3>3
  <2>2. CASE Expire
    <3>1. UNCHANGED <<pc, res, req, bal, journal>>
      BY <2>2, ExpireFrame
    <3> QED BY <3>1 DEF LedgerView!vars
  <2>3. CASE UNCHANGED vars
    BY <2>3 DEF LedgerView!vars
  <2> QED BY <2>1, <2>2, <2>3 DEF Next
<1> QED BY <1>1, <1>2, Invariance, PTL DEF Spec, ImplementsLedger, LedgerView!Spec
=============================================================================
