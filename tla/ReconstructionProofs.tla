------------------------ MODULE ReconstructionProofs ------------------------
(***************************************************************************)
(* The README's promise that the ledger alone gives the balances back, for *)
(* every history: a sum over a journal that grows without a bound. And the *)
(* books balance: the sum over all owners stays what it was.               *)
(***************************************************************************)
EXTENDS WalletProofs, FiniteSetTheorems, WellFoundedInduction

----------------------------------------------------------------------------
(* Induction, from the well-foundedness of < on Nat. *)

\* A nonempty set of naturals has a least element.
LEMMA LeastNatural ==
  ASSUME NEW T \in SUBSET Nat, T # {}
  PROVE  \E n \in T : \A m \in T : n <= m
<1>1. PICK n \in T : \A m \in T : <<m, n>> \notin OpToRel(<, Nat)
  BY NatLessThanWellFounded, WFMin DEF OpToRel
<1>2. \A m \in T : ~(m < n)
  BY <1>1 DEF OpToRel
<1> QED BY <1>2

\* A finite set belongs to every family that holds each of its subsets whose parts
\* with one element less it holds.
LEMMA GrowToFinite ==
  ASSUME NEW J, IsFiniteSet(J), NEW G,
         \A T \in SUBSET J : (\A x \in T : T \ {x} \in G) => T \in G
  PROVE  J \in G
<1> DEFINE Bad == {n \in Nat : \E T \in SUBSET J : T \notin G /\ Cardinality(T) = n}
<1> SUFFICES ASSUME J \notin G
             PROVE  FALSE
  OBVIOUS
<1>1. Cardinality(J) \in Bad
  BY FS_CardinalityType
<1>2. PICK n \in Bad : \A m \in Bad : n <= m
  <2> HIDE DEF Bad
  <2>1. Bad \in SUBSET Nat
    BY DEF Bad
  <2> QED BY <1>1, <2>1, LeastNatural
<1>3. PICK T \in SUBSET J : T \notin G /\ Cardinality(T) = n
  OBVIOUS
<1>4. PICK x \in T : T \ {x} \notin G
  BY <1>3
<1>5. IsFiniteSet(T) /\ T \ {x} \in SUBSET J
  BY <1>3, FS_Subset
<1>6. Cardinality(T \ {x}) = n - 1 /\ IsFiniteSet(T \ {x})
  BY <1>3, <1>5, FS_RemoveElement
<1>7. n - 1 \in Bad
  BY <1>4, <1>5, <1>6, FS_CardinalityType
<1> QED BY <1>2, <1>7

----------------------------------------------------------------------------
(* Sums over a finite set. *)

\* The values of f added up over J.
SumOf(f, J) == MapThenSumSet(LAMBDA x : f[x], J)

\* They are integers.
Summable(f, J) == \A x \in J : f[x] \in Int

\* h gives a sum to every part of J, and any element of a part may be taken out of it.
Sums(J, f, h) ==
  /\ h \in [SUBSET J -> Int] /\ h[{}] = 0
  /\ \A T \in SUBSET J : \A j \in T : h[T] = h[T \ {j}] + f[j]

\* h satisfies the equation that defines the community modules' sum.
Folded(J, f, h) ==
  h = [T \in SUBSET J |->
        IF T = {} THEN 0
        ELSE LET j == CHOOSE x \in T : TRUE IN f[j] + h[T \ {j}]]

\* Sums over a part extend to sums with one more entry.
LEMMA SumsGrow ==
  ASSUME NEW J, NEW j, j \notin J, NEW f, Summable(f, J \cup {j}),
         NEW h, Sums(J, f, h)
  PROVE  \E g : Sums(J \cup {j}, f, g)
<1> USE DEF Summable
<1> DEFINE K == J \cup {j}
           g == [T \in SUBSET K |-> IF j \in T THEN h[T \ {j}] + f[j] ELSE h[T]]
<1>1. \A T \in SUBSET K : T \ {j} \in SUBSET J
  OBVIOUS
<1>2. g \in [SUBSET K -> Int]
  BY <1>1 DEF Sums
<1>3. g[{}] = 0
  BY DEF Sums
<1>4. ASSUME NEW T \in SUBSET K, NEW i \in T
      PROVE  g[T] = g[T \ {i}] + f[i]
  <2>1. CASE i = j
    <3>1. g[T \ {i}] = h[T \ {j}]
      BY <2>1
    <3> QED BY <2>1, <3>1
  <2>2. CASE i # j /\ j \in T
    <3>1. i \in T \ {j} /\ T \ {j} \in SUBSET J
      BY <2>2
    <3>2. h[T \ {j}] = h[(T \ {j}) \ {i}] + f[i]
      BY <3>1 DEF Sums
    <3>3. (T \ {j}) \ {i} = (T \ {i}) \ {j}
      OBVIOUS
    <3>4. g[T] = h[T \ {j}] + f[j]
      BY <2>2
    <3>5. g[T \ {i}] = h[(T \ {i}) \ {j}] + f[j]
      BY <2>2
    <3>6. h[(T \ {j}) \ {i}] \in Int /\ h[T \ {j}] \in Int
      BY <3>1 DEF Sums
    <3>7. f[i] \in Int /\ f[j] \in Int
      BY <3>1
    <3>8. g[T] = h[(T \ {j}) \ {i}] + f[i] + f[j]
      BY <3>2, <3>4
    <3>9. g[T \ {i}] = h[(T \ {j}) \ {i}] + f[j]
      BY <3>3, <3>5
    <3> HIDE DEF g
    <3> QED BY <3>6, <3>7, <3>8, <3>9
  <2>3. CASE j \notin T
    BY <2>3 DEF Sums
  <2> QED BY <2>1, <2>2, <2>3
<1>5. Sums(K, f, g)
  <2> HIDE DEF g, K
  <2> QED BY <1>2, <1>3, <1>4 DEF Sums
<1> HIDE DEF g
<1> QED BY <1>5

\* Every finite set has its sums.
LEMMA SumsExist ==
  ASSUME NEW J, IsFiniteSet(J), NEW f, \A i \in J : f[i] \in Int
  PROVE  \E h : Sums(J, f, h)
<1> DEFINE G == {T \in SUBSET J : \E h : Sums(T, f, h)}
<1>1. {} \in G
  <2> DEFINE h == [T \in SUBSET {} |-> 0]
  <2>1. Sums({}, f, h)
    BY DEF Sums
  <2> QED BY <2>1
<1>2. ASSUME NEW T \in SUBSET J, \A x \in T : T \ {x} \in G, T # {}
      PROVE  T \in G
  <2>0. PICK x \in T : TRUE
    BY <1>2
  <2>1. PICK h : Sums(T \ {x}, f, h)
    BY <1>2
  <2>2. (T \ {x}) \cup {x} = T
    OBVIOUS
  <2>3. \A i \in T : f[i] \in Int
    OBVIOUS
  <2>4. \E g : Sums(T, f, g)
    <3>1. x \notin T \ {x} /\ Summable(f, (T \ {x}) \cup {x})
      BY <2>2, <2>3 DEF Summable
    <3>2. \E g : Sums((T \ {x}) \cup {x}, f, g)
      BY <2>1, <3>1, SumsGrow
    <3> QED BY <2>2, <3>2
  <2> QED BY <2>4
<1>3. J \in G
  <2>1. \A T \in SUBSET J : (\A x \in T : T \ {x} \in G) => T \in G
    BY <1>1, <1>2
  <2> HIDE DEF G
  <2> QED BY ONLY <2>1, IsFiniteSet(J), GrowToFinite
<1> QED BY <1>3

\* Sums satisfy the equation of the community modules' sum.
LEMMA SumsFold ==
  ASSUME NEW J, NEW f, \A i \in J : f[i] \in Int, NEW h, Sums(J, f, h)
  PROVE  Folded(J, f, h)
<1>1. ASSUME NEW T \in SUBSET J, T # {}
      PROVE  LET j == CHOOSE x \in T : TRUE IN h[T] = f[j] + h[T \ {j}]
  <2> DEFINE j == CHOOSE x \in T : TRUE
  <2>1. j \in T
    BY <1>1
  <2> HIDE DEF j
  <2>2. h[T] = h[T \ {j}] + f[j] /\ T \ {j} \in SUBSET J
    BY <2>1 DEF Sums
  <2>3. h[T \ {j}] \in Int /\ f[j] \in Int
    BY <2>1, <2>2 DEF Sums
  <2>4. h[T] = f[j] + h[T \ {j}]
    BY <2>2, <2>3
  <2> QED BY <2>4 DEF j
<1> QED BY <1>1 DEF Sums, Folded

\* On a finite set nothing else satisfies that equation.
LEMMA FoldUnique ==
  ASSUME NEW J, IsFiniteSet(J), NEW f, NEW g, NEW h, Folded(J, f, g), Folded(J, f, h)
  PROVE  g = h
<1> DEFINE G == {T \in SUBSET J : g[T] = h[T]}
<1>1. ASSUME NEW T \in SUBSET J, \A x \in T : T \ {x} \in G
      PROVE  g[T] = h[T]
  <2>1. CASE T = {}
    BY <2>1 DEF Folded
  <2>2. CASE T # {}
    <3> DEFINE j == CHOOSE x \in T : TRUE
    <3>1. j \in T
      BY <2>2
    <3>2. g[T \ {j}] = h[T \ {j}]
      <4> HIDE DEF j
      <4> QED BY <1>1, <3>1
    <3>3. g[T] = f[j] + g[T \ {j}] /\ h[T] = f[j] + h[T \ {j}]
      BY <2>2 DEF Folded
    <3> HIDE DEF j
    <3> QED BY <3>2, <3>3
  <2> QED BY <2>1, <2>2
<1>2. \A T \in SUBSET J : g[T] = h[T]
  <2> SUFFICES ASSUME NEW K \in SUBSET J
               PROVE  K \in G
    OBVIOUS
  <2>1. IsFiniteSet(K)
    BY FS_Subset
  <2>2. \A T \in SUBSET K : (\A x \in T : T \ {x} \in G) => T \in G
    BY <1>1
  <2> HIDE DEF G
  <2> QED BY <2>1, <2>2, GrowToFinite
<1> QED BY <1>2 DEF Folded

\* The community modules' sum is the value of any sums.
LEMMA SumOfIsSum ==
  ASSUME NEW J, IsFiniteSet(J), NEW f, \A i \in J : f[i] \in Int, NEW h, Sums(J, f, h)
  PROVE  SumOf(f, J) = h[J]
<1>1. Folded(J, f, h) /\ \A g : Folded(J, f, g) => g = h
  BY SumsFold, FoldUnique
<1> QED BY <1>1 DEF SumOf, MapThenSumSet, MapThenFoldSet, Folded

\* A sum of integers is one.
LEMMA SumOfType ==
  ASSUME NEW J, IsFiniteSet(J), NEW f, Summable(f, J)
  PROVE  SumOf(f, J) \in Int
<1>1. PICK h : Sums(J, f, h)
  BY SumsExist DEF Summable
<1>2. SumOf(f, J) = h[J]
  BY <1>1, SumOfIsSum DEF Summable
<1> QED BY <1>1, <1>2 DEF Sums

\* One more element adds its value, whatever the order of the summation.
LEMMA SumOfOneMore ==
  ASSUME NEW J, IsFiniteSet(J), NEW j, j \notin J, NEW f, Summable(f, J \cup {j})
  PROVE  SumOf(f, J \cup {j}) = SumOf(f, J) + f[j]
<1> DEFINE K == J \cup {j}
<1>1. IsFiniteSet(K)
  BY FS_AddElement
<1>2. PICK g : Sums(K, f, g)
  BY <1>1, SumsExist DEF Summable
<1> DEFINE h == [T \in SUBSET J |-> g[T]]
<1>3. Sums(J, f, h)
  <2>1. \A T \in SUBSET J : h[T] = g[T] /\ g[T] \in Int
    BY <1>2 DEF Sums
  <2>2. ASSUME NEW T \in SUBSET J, NEW x \in T
        PROVE  h[T] = h[T \ {x}] + f[x]
    <3>1. g[T] = g[T \ {x}] + f[x]
      BY <1>2 DEF Sums
    <3>2. T \ {x} \in SUBSET J
      OBVIOUS
    <3> QED BY <2>1, <3>1, <3>2
  <2>3. h \in [SUBSET J -> Int]
    BY <2>1
  <2>4. h[{}] = 0
    BY <1>2 DEF Sums
  <2> HIDE DEF h
  <2> QED BY <2>2, <2>3, <2>4 DEF Sums
<1>4. SumOf(f, J) = g[J]
  <2>1. h[J] = g[J]
    OBVIOUS
  <2> HIDE DEF h
  <2> QED BY <1>3, <2>1, SumOfIsSum DEF Summable
<1>5. SumOf(f, K) = g[K]
  <2>1. \A x \in K : f[x] \in Int
    BY DEF Summable
  <2> HIDE DEF K
  <2> QED BY <1>1, <1>2, <2>1, SumOfIsSum
<1>6. g[K] = g[J] + f[j]
  <2>1. K \ {j} = J /\ j \in K
    OBVIOUS
  <2> HIDE DEF K
  <2> QED BY <1>2, <2>1 DEF Sums
<1> QED BY <1>4, <1>5, <1>6

\* Nothing sums to 0.
LEMMA SumOfNothing == ASSUME NEW f PROVE SumOf(f, {}) = 0
<1>1. PICK h : Sums({}, f, h)
  BY SumsExist, FS_EmptySet
<1>2. SumOf(f, {}) = h[{}]
  BY <1>1, SumOfIsSum, FS_EmptySet
<1> QED BY <1>1, <1>2 DEF Sums

\* Two functions have one sum where they differ at two elements only, and not in their
\* sum there.
LEMMA SumMoved ==
  ASSUME NEW S, IsFiniteSet(S), NEW f, NEW g, NEW u \in S, NEW v \in S, u # v,
         \A x \in S : f[x] \in Int /\ g[x] \in Int,
         \A x \in S \ {u, v} : g[x] = f[x],
         g[u] + g[v] = f[u] + f[v]
  PROVE  SumOf(g, S) = SumOf(f, S)
<1>1. PICK h : Sums(S, f, h)
  BY SumsExist
<1>2. PICK k : Sums(S, g, k)
  BY SumsExist
<1> DEFINE R == S \ {u, v}
           G == {T \in SUBSET S : k[T] = h[T]}
<1>3. ASSUME NEW T \in SUBSET R, \A x \in T : T \ {x} \in G
      PROVE  T \in G
  <2>1. CASE T = {}
    BY <1>1, <1>2, <2>1 DEF Sums
  <2>2. CASE T # {}
    <3>1. PICK x \in T : TRUE
      BY <2>2
    <3>2. h[T] = h[T \ {x}] + f[x] /\ k[T] = k[T \ {x}] + g[x]
      BY <1>1, <1>2, <3>1 DEF Sums
    <3>3. k[T \ {x}] = h[T \ {x}] /\ g[x] = f[x]
      BY <1>3, <3>1
    <3> QED BY <3>2, <3>3
  <2> QED BY <2>1, <2>2
<1>4. R \in G
  <2>1. IsFiniteSet(R)
    BY FS_Subset
  <2> HIDE DEF G, R
  <2> QED BY <1>3, <2>1, GrowToFinite
<1>5. /\ h[S] = h[S \ {u}] + f[u] /\ h[S \ {u}] = h[(S \ {u}) \ {v}] + f[v]
      /\ k[S] = k[S \ {u}] + g[u] /\ k[S \ {u}] = k[(S \ {u}) \ {v}] + g[v]
  <2>1. S \in SUBSET S /\ S \ {u} \in SUBSET S /\ v \in S \ {u}
    OBVIOUS
  <2> QED BY <1>1, <1>2, <2>1 DEF Sums
<1>6. (S \ {u}) \ {v} = R
  OBVIOUS
<1>7. h[R] \in Int /\ k[R] = h[R]
  BY <1>1, <1>4 DEF Sums
<1>8. h[S] = k[S]
  <2>1. f[u] \in Int /\ f[v] \in Int /\ g[u] \in Int /\ g[v] \in Int
    OBVIOUS
  <2>2. h[S] = h[R] + f[v] + f[u] /\ k[S] = h[R] + g[v] + g[u]
    BY <1>5, <1>6, <1>7
  <2> HIDE DEF R
  <2> QED BY ONLY <1>7, <2>1, <2>2, g[u] + g[v] = f[u] + f[v]
<1> QED BY <1>1, <1>2, <1>8, SumOfIsSum

----------------------------------------------------------------------------
(* The sum of an account's legs over a journal. *)

Leg(j, a) == Delta(j.user, j.terms, a)
LegsOf(J, a) == MapThenSumSet(LAMBDA j : Delta(j.user, j.terms, a), J)
\* As a function of the row.
LegsAt(a) == [j \in JournalEntry |-> Leg(j, a)]

\* The legs of a journal row are integers.
LEMMA LegType ==
  ASSUME NEW j \in JournalEntry, NEW a
  PROVE  Leg(j, a) \in Int /\ LegsAt(a)[j] = Leg(j, a)
<1>1. j.terms \in Terms
  BY DEF JournalEntry
<1> QED BY <1>1 DEF Leg, LegsAt, Delta, Terms

\* The sum of the legs is one of a function.
LEMMA LegsOfIsSum ==
  ASSUME NEW J \in SUBSET JournalEntry, IsFiniteSet(J), NEW a
  PROVE  LegsOf(J, a) = SumOf(LegsAt(a), J) /\ Summable(LegsAt(a), J)
<1> DEFINE FoldedLegs(g) ==
             g = [T \in SUBSET J |->
                   IF T = {} THEN 0
                   ELSE LET j == CHOOSE x \in T : TRUE IN Leg(j, a) + g[T \ {j}]]
<1>0. \A i \in J : LegsAt(a)[i] \in Int
  BY LegType
<1>6. PICK h : Sums(J, LegsAt(a), h)
  BY <1>0, SumsExist
<1>1. Folded(J, LegsAt(a), h) /\ \A g : Folded(J, LegsAt(a), g) => g = h
  BY <1>0, <1>6, SumsFold, FoldUnique
<1>2. ASSUME NEW g
      PROVE  Folded(J, LegsAt(a), g) <=> FoldedLegs(g)
  <2>1. ASSUME NEW T \in SUBSET J
        PROVE  (IF T = {} THEN 0
                ELSE LET j == CHOOSE x \in T : TRUE IN LegsAt(a)[j] + g[T \ {j}])
               = (IF T = {} THEN 0
                  ELSE LET j == CHOOSE x \in T : TRUE IN Leg(j, a) + g[T \ {j}])
    <3>1. CASE T = {}
      BY <3>1
    <3>2. CASE T # {}
      <4> DEFINE j == CHOOSE x \in T : TRUE
      <4>1. j \in T
        BY <3>2
      <4> HIDE DEF j
      <4>2. LegsAt(a)[j] = Leg(j, a)
        BY <4>1, LegType
      <4> QED BY <3>2, <4>2 DEF j
    <3> QED BY <3>1, <3>2
  <2> QED BY <2>1 DEF Folded
<1>3. FoldedLegs(h) /\ \A g : FoldedLegs(g) => g = h
  BY <1>1, <1>2
<1>4. LegsOf(J, a) = h[J]
  BY <1>3 DEF LegsOf, MapThenSumSet, MapThenFoldSet, Leg
<1>5. SumOf(LegsAt(a), J) = h[J]
  BY <1>0, <1>6, SumOfIsSum
<1> QED BY <1>0, <1>4, <1>5 DEF Summable

\* An empty journal has moved nothing.
LEMMA LegsOfNothing == ASSUME NEW a PROVE LegsOf({}, a) = 0
BY LegsOfIsSum, SumOfNothing, FS_EmptySet

\* One more row moves an account by its leg.
LEMMA LegsOfOneMore ==
  ASSUME NEW J \in SUBSET JournalEntry, IsFiniteSet(J), NEW j \in JournalEntry, j \notin J,
         NEW a
  PROVE  LegsOf(J \cup {j}, a) = LegsOf(J, a) + Leg(j, a)
<1>1. IsFiniteSet(J \cup {j}) /\ J \cup {j} \in SUBSET JournalEntry
  BY FS_AddElement
<1>2. /\ LegsOf(J, a) = SumOf(LegsAt(a), J)
      /\ LegsOf(J \cup {j}, a) = SumOf(LegsAt(a), J \cup {j})
      /\ Summable(LegsAt(a), J \cup {j})
  BY <1>1, LegsOfIsSum
<1>3. SumOf(LegsAt(a), J \cup {j}) = SumOf(LegsAt(a), J) + LegsAt(a)[j]
  <2>1. j \notin J
    OBVIOUS
  <2> QED BY ONLY IsFiniteSet(J), <1>2, <2>1, SumOfOneMore
<1>4. LegsAt(a)[j] = Leg(j, a)
  BY LegType
<1> QED BY <1>2, <1>3, <1>4

----------------------------------------------------------------------------
(* The balances are the openings and the legs booked since. *)

\* Both halves are needed: what a sum over an infinite journal is, nobody knows.
Reconstructible ==
  /\ IsFiniteSet(journal)
  /\ \A a \in Accounts : bal[a] = Opening[a] + LegsOf(journal, a)

\* A commit books a row that was not in the journal, and moves the balances by it.
LEMMA CommitReconstructs ==
  ASSUME Inv, Reconstructible, NEW p \in Procs, Commit(p) \/ CommitReplyLost(p)
  PROVE  Reconstructible'
<1> DEFINE e == Entry(p, req[p], terms[p])
<1> USE DEF Inv
<1>1. pc[p] = "commit" /\ Apply(p)
  BY DEF Commit, CommitReplyLost
<1>2. journal' = journal \cup {e} /\ journal \in SUBSET JournalEntry
  BY <1>1 DEF Apply, TypeOK, StoredTypes
<1>3. e.user = U(p) /\ e.terms = terms[p] /\ e.key = req[p].key
  BY DEF Entry, U
<1>4. ~HasEntry(U(p), req[p].key)
  <2>1. KeyOf(p) \in JournalKeys /\ keyOwner[KeyOf(p)] = p
    BY <1>1, TxTerms DEF KeyInv, KeyOf, JournalKeys, InTx
  <2> QED BY <2>1 DEF KeyInv, OwnsKey, KeyOf
<1>5. e \notin journal
  BY <1>3, <1>4 DEF HasEntry
<1>6. e \in JournalEntry
  <2>1. [Next]_vars
    BY DEF Next, Step, Transact
  <2>2. journal' \subseteq JournalEntry
    BY <2>1, StoredTypesStep DEF TypeOK, StoredTypes
  <2> QED BY <1>2, <2>2
<1>7. \A a \in Accounts : bal'[a] = bal[a] + Leg(e, a)
  BY <1>1, <1>3, CommitWrites DEF Apply, Leg
<1>8. IsFiniteSet(journal')
  BY <1>2, FS_AddElement DEF Reconstructible
<1>9. ASSUME NEW a \in Accounts
      PROVE  bal'[a] = Opening[a] + LegsOf(journal', a)
  <2>1. bal[a] = Opening[a] + LegsOf(journal, a)
    BY DEF Reconstructible
  <2>2. LegsOf(journal', a) = LegsOf(journal, a) + Leg(e, a)
    <3> HIDE DEF e
    <3> QED BY <1>2, <1>5, <1>6, LegsOfOneMore DEF Reconstructible
  <2>3. bal[a] \in Int /\ Opening[a] \in Int /\ Leg(e, a) \in Int
    BY <1>6, LegType, OpeningAssumption DEF TypeOK, StoredTypes
  <2>4. LegsOf(journal, a) \in Int
    <3>1. journal \in SUBSET JournalEntry /\ IsFiniteSet(journal)
      BY <1>2 DEF Reconstructible
    <3> QED BY ONLY <3>1, LegsOfIsSum, SumOfType
  <2>5. bal'[a] = bal[a] + Leg(e, a)
    BY <1>7
  <2> HIDE DEF e
  <2> QED BY <2>1, <2>2, <2>3, <2>4, <2>5
<1> QED BY <1>8, <1>9 DEF Reconstructible

\* At every moment, after any number of concurrent operations, faults and crashes, each
\* balance is its opening and the sum of the legs of the journal: the ledger alone
\* gives the balances back.
THEOREM LedgerReconstructs == Spec => []LedgerReconstructsBalances
<1>1. Init => Reconstructible
  <2> SUFFICES ASSUME Init
               PROVE  Reconstructible
    OBVIOUS
  <2>1. journal = {} /\ bal = Opening
    BY DEF Init
  <2>2. \A a \in Accounts : bal[a] = Opening[a] + LegsOf(journal, a)
    BY <2>1, LegsOfNothing, OpeningAssumption
  <2> QED BY <2>1, <2>2, FS_EmptySet DEF Reconstructible
<1>2. Inv /\ Reconstructible /\ [Next]_vars => Reconstructible'
  <2> SUFFICES ASSUME Inv, Reconstructible, [Next]_vars
               PROVE  Reconstructible'
    OBVIOUS
  <2>1. CASE UNCHANGED <<bal, journal>>
    BY <2>1 DEF Reconstructible
  <2>2. ASSUME NEW p \in Procs, Commit(p) \/ CommitReplyLost(p)
        PROVE  Reconstructible'
    BY <2>2, CommitReconstructs
  <2> QED BY <2>1, <2>2, OnlyCommitsBook DEF Inv
<1>3. Reconstructible => LedgerReconstructsBalances
  BY DEF Reconstructible, LedgerReconstructsBalances, LegsOf
<1> QED BY <1>1, <1>2, <1>3, Invariance, PTL DEF Spec

----------------------------------------------------------------------------
(* The books balance. *)

Owners == Users \cup {House}

\* What all owners together hold of a currency, the house included.
HeldOf(b, c) == SumOf([u \in Owners |-> b[<<u, c>>]], Owners)

\* The money in the system: no operation, failure or race creates or destroys any.
MoneyIsConserved == \A c \in Currencies : HeldOf(bal, c) = HeldOf(Opening, c)

\* Over any history the users and the house together hold of each currency what they held
\* at the start, where the users are finitely many.
THEOREM MoneyConserved ==
  ASSUME IsFiniteSet(Users)
  PROVE  Spec => []MoneyIsConserved
<1>1. Init => MoneyIsConserved
  BY DEF Init, MoneyIsConserved
<1>2. Inv /\ MoneyIsConserved /\ [Next]_vars => MoneyIsConserved'
  <2> SUFFICES ASSUME Inv, MoneyIsConserved, [Next]_vars, NEW c \in Currencies
               PROVE  HeldOf(bal', c) = HeldOf(bal, c)
    BY DEF MoneyIsConserved
  <2>1. CASE bal' = bal
    BY <2>1
  <2>2. CASE bal' # bal
    <3> DEFINE f == [u \in Owners |-> bal[<<u, c>>]]
               g == [u \in Owners |-> bal'[<<u, c>>]]
    <3>1. PICK u \in Users :
            /\ bal'[<<u, c>>] + bal'[<<House, c>>] = bal[<<u, c>>] + bal[<<House, c>>]
            /\ \A v \in Users \ {u} : bal'[<<v, c>>] = bal[<<v, c>>]
      BY <2>2, StepMovesMoney
    <3>2. IsFiniteSet(Owners)
      BY FS_AddElement DEF Owners
    <3>3. u \in Owners /\ House \in Owners /\ u # House
      BY NamesAssumption DEF Owners
    <3>4. \A x \in Owners : f[x] \in Int /\ g[x] \in Int
      <4>1. bal \in [Accounts -> Int] /\ bal' \in [Accounts -> Int]
        BY StoredTypesStep DEF Inv, TypeOK, StoredTypes
      <4>2. \A x \in Owners : <<x, c>> \in Accounts
        BY DEF Owners, Accounts
      <4> QED BY <4>1, <4>2
    <3>5. \A x \in Owners \ {u, House} : g[x] = f[x]
      BY <3>1 DEF Owners
    <3>6. g[u] + g[House] = f[u] + f[House]
      BY <3>1, <3>3
    <3> HIDE DEF f, g
    <3>7. SumOf(g, Owners) = SumOf(f, Owners)
      BY <3>2, <3>3, <3>4, <3>5, <3>6, SumMoved
    <3> QED BY <3>7 DEF HeldOf, f, g
  <2> QED BY <2>1, <2>2
<1> QED BY <1>1, <1>2, Invariance, PTL DEF Spec
=============================================================================
