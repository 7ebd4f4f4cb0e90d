------------------------------- MODULE History -------------------------------
(***************************************************************************)
(* GET /transactions: a client walks its history page by page, each page    *)
(* the journals below the cursor of the one before, newest first, while     *)
(* journals are being posted. createdAt is the time at which a transaction  *)
(* began, so journals appear in another order than they are listed in.      *)
(***************************************************************************)
EXTENDS Integers, FiniteSets

CONSTANTS
  Journals,   \* the journals, by id: uuids, compared as PostgreSQL compares them
  Postings,   \* what may be posted: a user, a purpose and the legs of a journal
  Queries,    \* what may be asked for: a user, and a currency, type and purpose or Any
  Walks,      \* walks through a history
  Limits,     \* the page sizes a client may ask for
  MaxTime,    \* bound on the clock, in microseconds
  MaxFaults   \* bound on the requests that fail in a run

ASSUME HistoryAssumption ==
  /\ Journals \subseteq Nat /\ IsFiniteSet(Journals)
  /\ Limits \subseteq Nat \ {0}
  /\ MaxTime \in Nat /\ MaxFaults \in Nat

VARIABLES
  now,
  \* of each journal
  phase,      \* of the transaction that posts it
  row,        \* its content, and createdAt once it has begun
  \* of each walk
  pc,
  query,      \* userId and filters
  cursor,     \* nextCursor of the last page the client got
  page, more, \* the ids of a page and hasNextPage, while its journals are being read
  listed,     \* the journals the client has got
  present,    \* the journals there were when the walk began
  faults

book == <<now, phase, row>>
walk == <<query, cursor, page, more, listed, present>>
vars == <<book, pc, walk, faults>>

Any == "any"
None == [at |-> -1]
NoQuery == [user |-> Any, currency |-> Any, type |-> Any, purpose |-> Any]
Times == 0..MaxTime

Init ==
  /\ now = 0
  /\ phase = [j \in Journals |-> "none"]
  /\ row = [j \in Journals |-> None]
  /\ pc = [w \in Walks |-> "idle"]
  /\ query = [w \in Walks |-> NoQuery]
  /\ cursor = [w \in Walks |-> None]
  /\ page = [w \in Walks |-> {}]
  /\ more = [w \in Walks |-> FALSE]
  /\ listed = [w \in Walks |-> {}]
  /\ present = [w \in Walks |-> {}]
  /\ faults = 0

----------------------------------------------------------------------------
(* Postings, of any wallet. *)

\* BEGIN: createdAt will be now(), the time of this.
Begin(j) ==
  /\ phase[j] = "none"
  /\ \E c \in Postings : row' = [row EXCEPT ![j] = [at |-> now, posting |-> c]]
  /\ phase' = [phase EXCEPT ![j] = "open"]
  /\ UNCHANGED <<now, pc, walk, faults>>

End(j) ==
  /\ phase[j] = "open"
  /\ \E s \in {"committed", "rolledBack"} : phase' = [phase EXCEPT ![j] = s]
  /\ UNCHANGED <<now, row, pc, walk, faults>>

Tick ==
  /\ now < MaxTime
  /\ now' = now + 1
  /\ UNCHANGED <<phase, row, pc, walk, faults>>

----------------------------------------------------------------------------
(* getTransactions. *)

Visible == {j \in Journals : phase[j] = "committed"}

\* One leg has the currency and the type, whoever's leg it is.
Matches(q, c) ==
  /\ c.user = q.user
  /\ q.purpose \in {Any, c.purpose}
  /\ \/ q.currency = Any /\ q.type = Any
     \/ \E leg \in c.legs : q.currency \in {Any, leg.currency} /\ q.type \in {Any, leg.type}

Key(j) == [at |-> row[j].at, id |-> j]

\* Seeded bug: the cursor is made from a Date, which knows no microseconds: here,
\* none of two in a millisecond.
KeyOfDate(j) == [at |-> 2 * (row[j].at \div 2), id |-> j]

\* nextCursor: createdAt as text, to the microsecond, and the id.
EncodeCursor(j) == Key(j)

\* ORDER BY createdAt DESC, id DESC.
Precedes(k, l) == k.at > l.at \/ (k.at = l.at /\ k.id > l.id)

\* Seeded bug: <= for <, or the cursor is not excluded.
BelowOrAt(c, j) == c = None \/ ~Precedes(Key(j), c)

\* The condition on the cursor.
Below(c, j) == c = None \/ Precedes(c, Key(j))

Matching(w) == {j \in Visible : Matches(query[w], row[j].posting)}
Candidates(w) == {j \in Matching(w) : Below(cursor[w], j)}
Ahead(S, j) == {k \in S : Precedes(Key(k), Key(j))}

\* LIMIT n + 1, of which the first n are the page.
FirstOf(S, n) == {j \in S : Cardinality(Ahead(S, j)) < n}

\* The first request of a walk, or the next one.
Ask(w) ==
  /\ pc[w] = "idle"
  /\ \E q \in Queries : query' = [query EXCEPT ![w] = q]
  /\ present' = [present EXCEPT ![w] = Visible]
  /\ pc' = [pc EXCEPT ![w] = "selectIds"]
  /\ UNCHANGED <<book, cursor, page, more, listed, faults>>

\* Step 1: the keyset page of ids.
SelectIds(w) ==
  /\ pc[w] = "selectIds"
  /\ \E n \in Limits :
       /\ page' = [page EXCEPT ![w] = FirstOf(Candidates(w), n)]
       /\ more' = [more EXCEPT ![w] = Cardinality(Candidates(w)) > n]
  /\ pc' = [pc EXCEPT ![w] = "hydrate"]
  /\ UNCHANGED <<book, query, cursor, listed, present, faults>>

\* Seeded bug: the cursor of the first row of the page.
FirstRow(S) == {j \in S : \A k \in S : k = j \/ Precedes(Key(j), Key(k))}

LastRow(S) == {j \in S : \A k \in S : k = j \/ Precedes(Key(k), Key(j))}

\* Step 2: nothing changes or deletes a journal, so the ids are all found. The client
\* gets the page, and goes on with nextCursor if there is one.
Hydrate(w) ==
  /\ pc[w] = "hydrate"
  /\ listed' = [listed EXCEPT ![w] = @ \cup page[w]]
  /\ \/ /\ more[w]
        /\ \E j \in LastRow(page[w]) : cursor' = [cursor EXCEPT ![w] = EncodeCursor(j)]
        /\ pc' = [pc EXCEPT ![w] = "selectIds"]
     \/ ~more[w] /\ pc' = [pc EXCEPT ![w] = "done"] /\ UNCHANGED cursor
  /\ page' = [page EXCEPT ![w] = {}]
  /\ more' = [more EXCEPT ![w] = FALSE]
  /\ UNCHANGED <<book, query, present, faults>>

\* Seeded bug: what was read for the lost request is kept.
RequestFailsHalfway(w) ==
  /\ pc[w] = "hydrate"
  /\ faults < MaxFaults /\ faults' = faults + 1
  /\ pc' = [pc EXCEPT ![w] = "selectIds"]
  /\ UNCHANGED <<book, query, cursor, page, more, listed, present>>

\* A statement fails, or the reply is lost: the client asks again where it was.
RequestFails(w) ==
  /\ pc[w] = "hydrate"
  /\ faults < MaxFaults /\ faults' = faults + 1
  /\ pc' = [pc EXCEPT ![w] = "selectIds"]
  /\ page' = [page EXCEPT ![w] = {}]
  /\ more' = [more EXCEPT ![w] = FALSE]
  /\ UNCHANGED <<book, query, cursor, listed, present>>

----------------------------------------------------------------------------
Walk(w) == Ask(w) \/ SelectIds(w) \/ Hydrate(w) \/ RequestFails(w)

Next ==
  \/ \E j \in Journals : Begin(j) \/ End(j)
  \/ \E w \in Walks : Walk(w)
  \/ Tick

\* A client that has begun to walk goes on, and its requests come to an end.
Fairness == \A w \in Walks : WF_vars(SelectIds(w) \/ Hydrate(w))

Spec == Init /\ [][Next]_vars /\ Fairness

----------------------------------------------------------------------------
(* Properties. *)

\* Every variable has the type its row, parameter or local has; a journal that has begun
\* has its row, and a page lives as long as its request.
TypeOK ==
  /\ now \in Times
  /\ phase \in [Journals -> {"none", "open", "committed", "rolledBack"}]
  /\ row \in [Journals -> [at : Times, posting : Postings] \cup {None}]
  /\ pc \in [Walks -> {"idle", "selectIds", "hydrate", "done"}]
  /\ query \in [Walks -> Queries \cup {NoQuery}]
  /\ cursor \in [Walks -> [at : Times, id : Journals] \cup {None}]
  /\ page \in [Walks -> SUBSET Journals] /\ more \in [Walks -> BOOLEAN]
  /\ listed \in [Walks -> SUBSET Journals] /\ present \in [Walks -> SUBSET Journals]
  /\ faults \in 0..MaxFaults
  /\ \A j \in Journals : phase[j] # "none" => row[j] # None
  /\ \A w \in Walks : pc[w] # "hydrate" => page[w] = {} /\ ~more[w]

\* "no duplicates": a page has none of the journals the client has got before, and all
\* of it comes after all of them, though journals were posted and requests failed
\* between one page and the next.
PagesAreInOrder ==
  \A w \in Walks : \A j \in listed[w], k \in page[w] : Precedes(Key(j), Key(k))

\* "no drops": whatever there was when the walk began, and matches, has been listed as
\* soon as the walk is past it, and all of it when the walk is over.
NothingSkipped ==
  \A w \in Walks : \A j \in Matching(w) \cap present[w] :
    pc[w] = "done" \/ ~Below(cursor[w], j) => j \in listed[w]

\* A walk ends, whatever is being posted meanwhile.
WalksEnd == \A w \in Walks : pc[w] # "idle" ~> pc[w] = "done"
=============================================================================
