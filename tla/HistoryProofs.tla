---------------------------- MODULE HistoryProofs ----------------------------
(***************************************************************************)
(* What TLAPS proves of History, for any journals, filters, page sizes,    *)
(* walks and failures: types, the order of pages, and that a walk skips    *)
(* nothing.                                                                *)
(***************************************************************************)
EXTENDS History, FiniteSetTheorems, TLAPS

USE DEF vars, book, walk

Keys == [at : Int, id : Int]

\* What a walk has listed lies above its cursor, what it is reading below; of what was
\* there when it began, everything above the cursor is listed, and everything below it
\* is on the page or further down.
WalkOK(w) ==
  /\ present[w] \subseteq Visible /\ listed[w] \subseteq Visible
  /\ page[w] \subseteq Visible
  /\ pc[w] = "idle" => cursor[w] = None /\ listed[w] = {} /\ present[w] = {}
  /\ pc[w] # "done" => \A j \in listed[w] : ~Below(cursor[w], j)
  /\ \A k \in page[w] : Below(cursor[w], k)
  /\ pc[w] = "hydrate" => \A j \in Matching(w) \cap present[w] :
       Below(cursor[w], j) =>
         \/ j \in page[w]
         \/ more[w] /\ \A k \in page[w] : Precedes(Key(k), Key(j))
  /\ \A j \in Matching(w) \cap present[w] :
       pc[w] = "done" \/ ~Below(cursor[w], j) => j \in listed[w]

WalkInv == \A w \in Walks : WalkOK(w)

----------------------------------------------------------------------------
\* The order of the listing is total.
LEMMA PrecedesOrders ==
  ASSUME NEW k \in Keys, NEW l \in Keys, NEW m \in Keys
  PROVE  /\ ~Precedes(k, k)
         /\ Precedes(k, l) /\ Precedes(l, m) => Precedes(k, m)
         /\ k # l => Precedes(k, l) \/ Precedes(l, k)
BY DEF Precedes, Keys

\* A journal that can be seen has a key, which no other has.
LEMMA VisibleKeys ==
  ASSUME TypeOK
  PROVE  /\ \A j \in Visible : Key(j) \in Keys
         /\ \A w \in Walks : cursor[w] # None => cursor[w] \in Keys
         /\ \A i, j \in Visible : Key(i) = Key(j) => i = j
<1>1. ASSUME NEW j \in Visible PROVE Key(j) \in Keys /\ Key(j).id = j
  BY <1>1, HistoryAssumption DEF TypeOK, Visible, Key, Keys, Times, None
<1>2. ASSUME NEW w \in Walks, cursor[w] # None PROVE cursor[w] \in Keys
  <2>1. cursor[w] \in [at : Times, id : Journals]
    BY <1>2 DEF TypeOK
  <2>2. Times \subseteq Int /\ Journals \subseteq Int
    BY HistoryAssumption DEF Times
  <2> QED BY <2>1, <2>2 DEF Keys
<1> QED BY <1>1, <1>2

\* A row that is not on the page has the whole page before it, and more than a page
\* was there.
LEMMA FirstOfCuts ==
  ASSUME TypeOK, NEW S \in SUBSET Visible, NEW n \in Nat,
         NEW j \in S, j \notin FirstOf(S, n)
  PROVE  /\ Cardinality(S) > n
         /\ \A k \in FirstOf(S, n) : Precedes(Key(k), Key(j))
<1>1. IsFiniteSet(S)
  BY HistoryAssumption, FS_Subset DEF Visible
<1>2. /\ Cardinality(Ahead(S, j)) \in Nat
      /\ Cardinality(S) \in Nat
      /\ Cardinality(Ahead(S, j)) >= n
  <2>1. IsFiniteSet(Ahead(S, j))
    BY <1>1, FS_Subset DEF Ahead
  <2> QED BY <1>1, <2>1, FS_CardinalityType DEF FirstOf
<1>3. Cardinality(S) > n
  <2>1. Ahead(S, j) \subseteq S /\ j \notin Ahead(S, j)
    BY VisibleKeys, PrecedesOrders DEF Ahead
  <2>2. Ahead(S, j) # S
    BY <2>1
  <2> QED BY <1>1, <1>2, <2>1, <2>2, FS_Subset
<1>4. ASSUME NEW k \in FirstOf(S, n)
      PROVE  Precedes(Key(k), Key(j))
  <2>1. k \in S /\ Cardinality(Ahead(S, k)) < n /\ k # j
    BY <1>4 DEF FirstOf
  <2>2. CASE Precedes(Key(j), Key(k))
    <3>1. Ahead(S, j) \subseteq Ahead(S, k)
      BY <2>1, <2>2, VisibleKeys, PrecedesOrders DEF Ahead
    <3>2. IsFiniteSet(Ahead(S, k)) /\ Cardinality(Ahead(S, k)) \in Nat
      BY <1>1, FS_Subset, FS_CardinalityType DEF Ahead
    <3>3. Cardinality(Ahead(S, j)) <= Cardinality(Ahead(S, k))
      BY <3>1, <3>2, FS_Subset
    <3> QED BY <1>2, <2>1, <3>2, <3>3
  <2>3. Key(j) # Key(k) /\ Key(j) \in Keys /\ Key(k) \in Keys
    BY <2>1, VisibleKeys
  <2> QED BY <2>2, <2>3, PrecedesOrders
<1> QED BY <1>3, <1>4

----------------------------------------------------------------------------
\* Types are kept.
LEMMA StepTypes ==
  ASSUME TypeOK, WalkInv, [Next]_vars
  PROVE  TypeOK'
<1> USE HistoryAssumption DEF TypeOK
<1>1. ASSUME NEW j \in Journals, Begin(j) PROVE TypeOK'
  BY <1>1 DEF Begin, Times, None
<1>2. ASSUME NEW j \in Journals, End(j) PROVE TypeOK'
  BY <1>2 DEF End
<1>3. CASE Tick
  BY <1>3 DEF Tick, Times
<1>4. ASSUME NEW w \in Walks, Ask(w) PROVE TypeOK'
  BY <1>4 DEF Ask, Visible
<1>5. ASSUME NEW w \in Walks, SelectIds(w) PROVE TypeOK'
  <2>1. \A n \in Limits : FirstOf(Candidates(w), n) \in SUBSET Journals
    BY DEF FirstOf, Candidates, Matching, Visible
  <2> QED BY <1>5, <2>1 DEF SelectIds
<1>6. ASSUME NEW w \in Walks, Hydrate(w) PROVE TypeOK'
  <2>1. CASE more[w]
    <3>1. PICK j \in LastRow(page[w]) : cursor' = [cursor EXCEPT ![w] = Key(j)]
      BY <1>6, <2>1 DEF Hydrate, EncodeCursor
    <3>2. j \in Visible
      BY <3>1 DEF LastRow, WalkInv, WalkOK
    <3>3. row[j].at \in Times /\ j \in Journals
      BY <3>2 DEF Visible
    <3>4. Key(j) \in [at : Times, id : Journals]
      BY <3>3 DEF Key
    <3> QED BY <1>6, <3>1, <3>4 DEF Hydrate
  <2>2. CASE ~more[w]
    BY <1>6, <2>2 DEF Hydrate
  <2> QED BY <2>1, <2>2
<1>7. ASSUME NEW w \in Walks, RequestFails(w) PROVE TypeOK'
  BY <1>7 DEF RequestFails
<1>8. CASE UNCHANGED vars
  BY <1>8
<1> QED BY <1>1, <1>2, <1>3, <1>4, <1>5, <1>6, <1>7, <1>8 DEF Next, Walk

----------------------------------------------------------------------------
\* What is seen stays, with its content: a walk's facts about other journals survive
\* whatever is posted.
LEMMA PostingKeeps ==
  ASSUME TypeOK, WalkInv,
         Visible \subseteq Visible', \A j \in Visible : row'[j] = row[j],
         UNCHANGED <<pc, walk>>
  PROVE  WalkInv'
<1> SUFFICES ASSUME NEW w \in Walks PROVE WalkOK(w)'
  BY DEF WalkInv
<1>1. \A j \in Visible : Key(j)' = Key(j) /\ \A c : Below(c, j)' = Below(c, j)
  BY DEF Key, Below, Precedes
<1>2. Matching(w)' \cap present[w] = Matching(w) \cap present[w]
  BY DEF WalkInv, WalkOK, Matching, Matches
<1> QED BY <1>1, <1>2 DEF WalkInv, WalkOK, Precedes

\* The first request begins with nothing listed.
LEMMA AskKeeps ==
  ASSUME TypeOK, WalkInv, NEW v \in Walks, Ask(v)
  PROVE  WalkInv'
<1> SUFFICES ASSUME NEW w \in Walks PROVE WalkOK(w)'
  BY DEF WalkInv
<1>1. CASE w # v
  BY <1>1 DEF Ask, TypeOK, WalkInv, WalkOK, Matching, Matches, Visible, Below, Precedes, Key
<1>2. CASE w = v
  <2>1. cursor'[w] = None /\ listed'[w] = {} /\ page'[w] = {} /\ pc'[w] = "selectIds"
    BY <1>2 DEF Ask, TypeOK, WalkInv, WalkOK
  <2>2. present'[w] = Visible'
    BY <1>2 DEF Ask, TypeOK, Visible
  <2> QED BY <2>1, <2>2 DEF WalkOK, Below
<1> QED BY <1>1, <1>2

\* The page is the first of what lies below the cursor.
LEMMA SelectIdsKeeps ==
  ASSUME TypeOK, WalkInv, NEW v \in Walks, SelectIds(v)
  PROVE  WalkInv'
<1> SUFFICES ASSUME NEW w \in Walks PROVE WalkOK(w)'
  BY DEF WalkInv
<1>1. /\ Visible' = Visible /\ Matching(w)' = Matching(w) /\ cursor' = cursor
      /\ \A j, k \in Journals : Key(j)' = Key(j)
      /\ \A c, j : Below(c, j)' = Below(c, j)
  BY DEF SelectIds, Visible, Matching, Matches, Key, Below, Precedes
<1>2. CASE w # v
  BY <1>1, <1>2 DEF SelectIds, TypeOK, WalkInv, WalkOK, Precedes, Visible
<1>3. CASE w = v
  <2>1. PICK n \in Limits : /\ page'[w] = FirstOf(Candidates(w), n)
                            /\ more'[w] = (Cardinality(Candidates(w)) > n)
    BY <1>3 DEF SelectIds, TypeOK
  <2>2. n \in Nat /\ Candidates(w) \subseteq Visible
    BY HistoryAssumption DEF Candidates, Matching
  <2>3. page'[w] \subseteq Candidates(w)
    BY <2>1 DEF FirstOf
  <2>4. ASSUME NEW j \in Matching(w) \cap present[w], Below(cursor[w], j),
               j \notin page'[w]
        PROVE  more'[w] /\ \A k \in page'[w] : Precedes(Key(k), Key(j))
    <3>1. j \in Candidates(w)
      BY <2>4 DEF Candidates
    <3> QED BY <2>1, <2>2, <2>4, <3>1, FirstOfCuts
  <2>5. \A k, j \in Journals : Precedes(Key(k), Key(j))' = Precedes(Key(k), Key(j))
    BY <1>1 DEF Precedes
  <2>6. \A k \in page'[w] : Below(cursor[w], k)
    BY <2>3 DEF Candidates
  <2>7. pc[w] = "selectIds" /\ pc'[w] = "hydrate"
    BY <1>3 DEF SelectIds, TypeOK
  <2>8. UNCHANGED <<present, listed>>
    BY DEF SelectIds
  <2> QED BY <1>1, <2>2, <2>3, <2>4, <2>5, <2>6, <2>7, <2>8
         DEF WalkInv, WalkOK, Matching, Visible
<1> QED BY <1>2, <1>3

\* The walk goes on below the last row it got.
LEMMA HydrateKeeps ==
  ASSUME TypeOK, WalkInv, NEW v \in Walks, Hydrate(v)
  PROVE  WalkInv'
<1> SUFFICES ASSUME NEW w \in Walks PROVE WalkOK(w)'
  BY DEF WalkInv
<1>1. /\ Visible' = Visible /\ Matching(w)' = Matching(w)
      /\ \A j \in Journals : Key(j)' = Key(j)
      /\ \A c, j : Below(c, j)' = Below(c, j)
  BY DEF Hydrate, Visible, Matching, Matches, Key, Below, Precedes
<1>2. CASE w # v
  BY <1>1, <1>2 DEF Hydrate, TypeOK, WalkInv, WalkOK, Precedes, Visible
<1>3. CASE w = v
  <2>1. /\ listed'[w] = listed[w] \cup page[w] /\ page'[w] = {}
        /\ pc[w] = "hydrate" /\ present' = present
    BY <1>3 DEF Hydrate, TypeOK
  <2>2. Matching(w) \subseteq Visible /\ Visible \subseteq Journals
    BY DEF Matching, Visible
  <2>3. WalkOK(w)
    BY DEF WalkInv
  <2>4. CASE more[w]
    <3>1. PICK l \in LastRow(page[w]) : cursor'[w] = Key(l) /\ pc'[w] = "selectIds"
      BY <1>3, <2>4 DEF Hydrate, TypeOK, EncodeCursor
    <3>2. /\ l \in page[w] /\ l \in Visible /\ Key(l) \in Keys /\ Key(l) # None
          /\ \A k \in page[w] : k = l \/ Precedes(Key(k), Key(l))
          /\ Below(cursor[w], l)
      BY <2>3, <3>1, VisibleKeys DEF WalkOK, LastRow, Key, None
    <3>3. ASSUME NEW j \in page[w] PROVE ~Below(Key(l), j)
      <4>1. j \in Visible /\ Key(j) \in Keys
        BY <2>3, VisibleKeys DEF WalkOK
      <4> QED BY <3>2, <4>1, PrecedesOrders DEF Below
    <3>4. ASSUME NEW j \in Visible, ~Below(cursor[w], j) PROVE ~Below(Key(l), j)
      <4>1. cursor[w] # None /\ cursor[w] \in Keys /\ Key(j) \in Keys
        BY <3>4, VisibleKeys DEF Below
      <4>2. Precedes(cursor[w], Key(l)) /\ ~Precedes(cursor[w], Key(j))
        BY <3>2, <3>4, <4>1 DEF Below
      <4> QED BY <3>2, <4>1, <4>2, PrecedesOrders DEF Below
    <3>5. ASSUME NEW j \in Matching(w) \cap present[w], ~Below(Key(l), j)
          PROVE  j \in listed'[w]
      <4>1. CASE ~Below(cursor[w], j)
        BY <2>1, <2>3, <4>1 DEF WalkOK
      <4>2. CASE Below(cursor[w], j) /\ j \notin page[w]
        <5>1. Precedes(Key(l), Key(j))
          BY <2>1, <2>3, <3>2, <4>2 DEF WalkOK
        <5> QED BY <3>5, <5>1 DEF Below
      <4> QED BY <2>1, <4>1, <4>2
    <3>6. listed'[w] \subseteq Visible
      BY <2>1, <2>3 DEF WalkOK
    <3>7. \A j \in listed'[w] : ~Below(Key(l), j)
      BY <2>1, <2>3, <3>3, <3>4 DEF WalkOK
    <3> QED BY <1>1, <2>1, <2>2, <2>3, <3>1, <3>5, <3>6, <3>7 DEF WalkOK
  <2>5. CASE ~more[w]
    <3>1. pc'[w] = "done"
      BY <1>3, <2>5 DEF Hydrate, TypeOK
    <3>2. \A j \in Matching(w) \cap present[w] : j \in listed'[w]
      BY <2>1, <2>3, <2>5 DEF WalkOK
    <3> QED BY <1>1, <2>1, <2>2, <2>3, <3>1, <3>2 DEF WalkOK
  <2> QED BY <2>4, <2>5
<1> QED BY <1>2, <1>3

\* A failed request leaves the walk where it was.
LEMMA RequestFailsKeeps ==
  ASSUME TypeOK, WalkInv, NEW v \in Walks, RequestFails(v)
  PROVE  WalkInv'
<1> SUFFICES ASSUME NEW w \in Walks PROVE WalkOK(w)'
  BY DEF WalkInv
<1>1. /\ Visible' = Visible /\ Matching(w)' = Matching(w)
      /\ \A j, k \in Journals : Precedes(Key(k), Key(j))' = Precedes(Key(k), Key(j))
      /\ \A j : Below(cursor[w], j)' = Below(cursor[w], j)
  BY DEF RequestFails, Visible, Matching, Matches, Key, Below, Precedes
<1>2. Matching(w) \subseteq Visible /\ Visible \subseteq Journals
  BY DEF Matching, Visible
<1>3. CASE w # v
  BY <1>1, <1>2, <1>3 DEF RequestFails, TypeOK, WalkInv, WalkOK
<1>4. CASE w = v
  <2>1. pc[w] = "hydrate" /\ pc'[w] = "selectIds" /\ page'[w] = {}
    BY <1>4 DEF RequestFails, TypeOK
  <2>2. UNCHANGED <<listed, present>>
    BY DEF RequestFails
  <2> QED BY <1>1, <1>2, <2>1, <2>2 DEF WalkInv, WalkOK
<1> QED BY <1>3, <1>4

----------------------------------------------------------------------------
HistoryInv == TypeOK /\ WalkInv

\* Every posting and every page keeps what is known of each walk.
LEMMA HistoryInvHolds == Spec => []HistoryInv
<1>1. Init => HistoryInv
  BY HistoryAssumption DEF Init, HistoryInv, TypeOK, WalkInv, WalkOK, Times, Visible, Matching
<1>2. HistoryInv /\ [Next]_vars => HistoryInv'
  <2> SUFFICES ASSUME TypeOK, WalkInv, [Next]_vars PROVE HistoryInv'
    BY DEF HistoryInv
  <2>1. TypeOK'
    BY StepTypes
  <2>2. ASSUME NEW j \in Journals, Begin(j) PROVE WalkInv'
    <3>1. Visible' = Visible /\ \A i \in Visible : row'[i] = row[i]
      BY <2>2 DEF Begin, TypeOK, Visible
    <3> QED BY <2>2, <3>1, PostingKeeps DEF Begin
  <2>3. ASSUME NEW j \in Journals, End(j) PROVE WalkInv'
    <3>1. Visible \subseteq Visible' /\ row' = row
      BY <2>3 DEF End, TypeOK, Visible
    <3> QED BY <2>3, <3>1, PostingKeeps DEF End
  <2>4. ASSUME Tick \/ UNCHANGED vars PROVE WalkInv'
    <3>1. Visible' = Visible /\ row' = row /\ UNCHANGED <<pc, walk>>
      BY <2>4 DEF Tick, Visible
    <3> QED BY <3>1, PostingKeeps
  <2>5. ASSUME NEW w \in Walks, Walk(w) PROVE WalkInv'
    BY <2>5, AskKeeps, SelectIdsKeeps, HydrateKeeps, RequestFailsKeeps DEF Walk
  <2> QED BY <2>1, <2>2, <2>3, <2>4, <2>5 DEF Next, HistoryInv
<1> QED BY <1>1, <1>2, PTL DEF Spec

----------------------------------------------------------------------------
\* Rows, cursors and pages have their types.
THEOREM TypesHold == Spec => []TypeOK
<1>1. HistoryInv => TypeOK
  BY DEF HistoryInv
<1> QED BY <1>1, HistoryInvHolds, PTL

\* No journal is listed twice, and none after an older one.
THEOREM OrderHolds == Spec => []PagesAreInOrder
<1>1. HistoryInv => PagesAreInOrder
  <2> SUFFICES ASSUME HistoryInv, NEW w \in Walks, NEW j \in listed[w], NEW k \in page[w]
               PROVE  Precedes(Key(j), Key(k))
    BY DEF PagesAreInOrder
  <2>1. TypeOK /\ WalkOK(w) /\ pc[w] = "hydrate"
    BY DEF HistoryInv, WalkInv, TypeOK
  <2>2. ~Below(cursor[w], j) /\ Below(cursor[w], k) /\ j \in Visible /\ k \in Visible
    BY <2>1 DEF WalkOK
  <2>3. cursor[w] # None /\ cursor[w] \in Keys /\ Key(j) \in Keys /\ Key(k) \in Keys
    BY <2>1, <2>2, VisibleKeys DEF Below
  <2> QED BY <2>2, <2>3, PrecedesOrders DEF Below
<1> QED BY <1>1, HistoryInvHolds, PTL

\* A walk lists all that was there when it began.
THEOREM CompletenessHolds == Spec => []NothingSkipped
<1>1. HistoryInv => NothingSkipped
  BY DEF HistoryInv, WalkInv, WalkOK, NothingSkipped
<1> QED BY <1>1, HistoryInvHolds, PTL
=============================================================================
