---------------------------- MODULE Database_proofs ----------------------------
EXTENDS Database, FiniteSetTheorems, SequenceTheorems, TLAPS

(***************************************************************************)
(* The database: what processes see of the file, for any number of         *)
(* processes, contacts and moves.                                          *)
(*                                                                         *)
(*   1. numbers and finite sets;                                           *)
(*   2. the adapters: on keyed tables each call does to the view what its  *)
(*      name says, and keeps the tables keyed;                             *)
(*   3. a transaction in the middle: Half(x, cs, t) is what x leaves of t  *)
(*      when the calls cs are still to be made;                            *)
(*   4. Inv: an open connection's tables are such a half of the file's;    *)
(*   5. what a process does is one step of AtomicStore, or none;           *)
(*   6. TInv: a token in the file belongs to the URL it is kept with.      *)
(***************************************************************************)

(***************************************************************************)
(* Induction over numbers and finite sets, by sets: a least counterexample *)
(* would have one below it.                                                *)
(***************************************************************************)
LEMMA NatSetInduction ==
    ASSUME NEW T, 0 \in T, \A n \in Nat : n \in T => n + 1 \in T
    PROVE  Nat \subseteq T
<1> SUFFICES ASSUME NEW n \in Nat, n \notin T
             PROVE  FALSE
    OBVIOUS
<1> DEFINE below(k) == 0..k
           bad == {below(k) : k \in Nat \ T}
<1>1. \A k \in Nat : below(k) \in FiniteSubsetsOf(Nat)
    BY FS_Interval DEF FiniteSubsetsOf
<1>2. bad \subseteq FiniteSubsetsOf(Nat) /\ bad # {}
    BY <1>1
<1>3. PICK B \in bad : \A C \in bad : <<C, B>> \notin StrictSubsetOrdering(Nat)
    BY <1>2, FS_StrictSubsetOrderingWellFounded, WFMin
<1>4. PICK m \in Nat \ T : B = below(m)
    OBVIOUS
<1>5. m # 0 /\ m - 1 \in Nat /\ m - 1 \notin T
    OBVIOUS
<1>6. below(m - 1) \in bad
    BY <1>5
<1>7. below(m - 1) \subseteq below(m) /\ m \in below(m) /\ m \notin below(m - 1)
    BY <1>5
<1>8. <<below(m - 1), B>> \in StrictSubsetOrdering(Nat)
    BY <1>4, <1>5, <1>7 DEF StrictSubsetOrdering
<1> QED
    BY <1>3, <1>6, <1>8

\* A finite set of numbers has a greatest.
LEMMA GreatestExists ==
    ASSUME NEW S, S \subseteq Nat, IsFiniteSet(S), S # {}
    PROVE  \E x \in S : \A y \in S : x >= y
<1> DEFINE bounded(n) == {S2 \in SUBSET Nat : IsFiniteSet(S2) /\ S2 # {} /\ Cardinality(S2) = n}
           T == {n \in Nat : \A S2 \in bounded(n) : \E x \in S2 : \A y \in S2 : x >= y}
<1>1. 0 \in T
    BY FS_EmptySet
<1>2. ASSUME NEW n \in Nat, n \in T
      PROVE  n + 1 \in T
    <2> SUFFICES ASSUME NEW S2 \in bounded(n + 1)
                 PROVE  \E x \in S2 : \A y \in S2 : x >= y
        OBVIOUS
    <2>1. PICK z \in S2 : TRUE
        OBVIOUS
    <2> DEFINE rest == S2 \ {z}
    <2>2. IsFiniteSet(rest) /\ Cardinality(rest) = n /\ rest \subseteq Nat
        <3>1. IsFiniteSet(S2) /\ Cardinality(S2) = n + 1 /\ S2 \subseteq Nat /\ z \in S2
            OBVIOUS
        <3> HIDE DEF T, bounded
        <3>2. IsFiniteSet(rest) /\ Cardinality(rest) = Cardinality(S2) - 1
            BY <3>1, FS_RemoveElement
        <3> QED
            BY <3>1, <3>2
    <2>3. CASE rest = {}
        BY <2>1, <2>3
    <2>4. CASE rest # {}
        <3>1. rest \in bounded(n)
            BY <2>2, <2>4
        <3>2. PICK x \in rest : \A y \in rest : x >= y
            BY <1>2, <3>1
        <3>3. \A y \in S2 : y = z \/ y \in rest
            OBVIOUS
        <3>4. CASE z >= x
            <4>1. \A y \in rest : z >= y
                BY <2>1, <2>2, <3>2, <3>4
            <4> QED
                BY <3>3, <4>1
        <3>5. CASE x >= z
            BY <3>2, <3>3, <3>5
        <3> QED
            BY <3>4, <3>5
    <2> QED
        BY <2>3, <2>4
<1> HIDE DEF T
<1>3. Nat \subseteq T
    BY <1>1, <1>2, NatSetInduction
<1>4. Cardinality(S) \in Nat /\ S \in bounded(Cardinality(S))
    BY FS_CardinalityType
<1> QED
    BY <1>3, <1>4 DEF T

\* A new row's id is larger than any in the table.
LEMMA NextIdIsLarger ==
    ASSUME NEW rs, IsFiniteSet(rs), \A r \in rs : r.id \in Nat
    PROVE  NextId(rs) \in Nat /\ \A r \in rs : r.id < NextId(rs)
<1> DEFINE ids == {r.id : r \in rs}
<1>1. IsFiniteSet(ids)
    <2> DEFINE f == [r \in rs |-> r.id]
    <2>1. f \in Surjection(rs, ids)
        BY DEF Surjection
    <2> QED
        BY <2>1, FS_Surjection
<1> DEFINE all == {0} \cup ids
<1>2. IsFiniteSet(all) /\ all \subseteq Nat /\ all # {}
    <2>1. IsFiniteSet({0})
        BY FS_Singleton
    <2> HIDE DEF ids
    <2>2. IsFiniteSet({0} \cup ids)
        BY <1>1, <2>1, FS_Union
    <2> QED
        BY <2>2 DEF ids
<1>3. Max(all) \in all /\ \A y \in all : Max(all) >= y
    BY <1>2, GreatestExists DEF Max
<1>4. Max(all) \in Nat
    BY <1>2, <1>3
<1>5. NextId(rs) = 1 + Max(all)
    BY DEF NextId
<1>6. \A r \in rs : r.id \in all
    OBVIOUS
<1> HIDE DEF all
<1> QED
    BY <1>3, <1>4, <1>5, <1>6

(***************************************************************************)
(* Rows in the order of their ids.                                         *)
(***************************************************************************)
Ordered(rs) ==
    /\ IsFiniteSet(rs) /\ \A r \in rs : r.id \in Nat
    /\ \A r, q \in rs : r.id = q.id => r = q

Rank(rs, r) == Cardinality(Before(rs, r))

\* Ranks follow the ids, and no two rows of a table share one.
LEMMA RankRises ==
    ASSUME NEW rs, Ordered(rs), NEW r \in rs
    PROVE  /\ Rank(rs, r) \in 0..(Cardinality(rs) - 1)
           /\ \A q \in rs : q.id < r.id => Rank(rs, q) < Rank(rs, r)
           /\ \A q \in rs : Rank(rs, q) = Rank(rs, r) => q = r
<1>1. IsFiniteSet(rs) /\ Cardinality(rs) \in Nat
    BY FS_CardinalityType DEF Ordered
<1>2. \A q \in rs : Before(rs, q) \in SUBSET rs /\ q \notin Before(rs, q)
    BY DEF Before, Ordered
<1>3. \A q \in rs : IsFiniteSet(Before(rs, q)) /\ Rank(rs, q) \in Nat
    BY <1>1, <1>2, FS_Subset, FS_CardinalityType DEF Rank
<1>4. ASSUME NEW q \in rs, NEW t \in rs, q.id < t.id
      PROVE  Rank(rs, q) < Rank(rs, t)
    <2>1. Before(rs, q) \in SUBSET Before(rs, t) /\ q \in Before(rs, t) /\ q \notin Before(rs, q)
        BY <1>4 DEF Before, Ordered
    <2>2. Cardinality(Before(rs, q)) <= Cardinality(Before(rs, t))
          /\ Cardinality(Before(rs, q)) # Cardinality(Before(rs, t))
        BY <1>3, <2>1, FS_Subset
    <2> QED
        BY <1>3, <2>2 DEF Rank
<1>5. Cardinality(Before(rs, r)) <= Cardinality(rs) /\ Cardinality(Before(rs, r)) # Cardinality(rs)
    BY <1>1, <1>2, FS_Subset
<1>6. Rank(rs, r) \in 0..(Cardinality(rs) - 1)
    BY <1>1, <1>3, <1>5 DEF Rank
<1>7. ASSUME NEW q \in rs, Rank(rs, q) = Rank(rs, r)
      PROVE  q = r
    <2>1. ~(q.id < r.id) /\ ~(r.id < q.id)
        BY <1>3, <1>4, <1>7
    <2>2. q.id \in Nat /\ r.id \in Nat
        BY DEF Ordered
    <2> QED
        BY <2>1, <2>2 DEF Ordered
<1> QED
    BY <1>4, <1>6, <1>7

\* Every place in the order has its row.
LEMMA NthIsRanked ==
    ASSUME NEW rs, Ordered(rs), NEW i \in 1..Cardinality(rs)
    PROVE  Nth(rs, i) \in rs /\ Rank(rs, Nth(rs, i)) = i - 1
<1> DEFINE n == Cardinality(rs)
           rank == [r \in rs |-> Rank(rs, r)]
<1>1. IsFiniteSet(rs) /\ n \in Nat
    BY FS_CardinalityType DEF Ordered
<1>2. rank \in Injection(rs, 0..(n - 1))
    BY RankRises DEF Injection, IsInjective
<1>3. IsFiniteSet(0..(n - 1)) /\ Cardinality(0..(n - 1)) = n
    <2>1. 0 \in Int /\ n - 1 \in Int
        BY <1>1
    <2>2. IsFiniteSet(0..(n - 1)) /\ Cardinality(0..(n - 1)) = IF 0 > n - 1 THEN 0 ELSE (n - 1) - 0 + 1
        BY <2>1, FS_Interval
    <2> QED
        BY <1>1, <2>2
<1>4. rank \in Surjection(rs, 0..(n - 1))
    <2> HIDE DEF n, rank
    <2> QED
        BY <1>2, <1>3, FS_Injection DEF n
<1>5. \E r \in rs : rank[r] = i - 1
    <2>1. i - 1 \in 0..(n - 1)
        BY <1>1
    <2> HIDE DEF n, rank
    <2> QED
        BY <1>4, <2>1 DEF Surjection
<1> QED
    BY <1>5 DEF Nth, Rank

\* The row of rank i - 1 is the i-th of the list.
LEMMA NthIs ==
    ASSUME NEW rs, Ordered(rs), NEW r \in rs, NEW i \in Nat, Rank(rs, r) = i - 1
    PROVE  Nth(rs, i) = r
<1>1. Rank(rs, r) \in 0..(Cardinality(rs) - 1) /\ Cardinality(rs) \in Nat
    BY RankRises, FS_CardinalityType DEF Ordered
<1>2. i \in 1..Cardinality(rs)
    BY <1>1
<1>3. Nth(rs, i) \in rs /\ Rank(rs, Nth(rs, i)) = Rank(rs, r)
    BY <1>2, NthIsRanked
<1> QED
    BY <1>3, RankRises

\* A row with a new id is the last.
LEMMA AddedIsLast ==
    ASSUME NEW rs, Ordered(rs), NEW row, row.id \in Nat, \A r \in rs : r.id < row.id
    PROVE  /\ Ordered(rs \cup {row}) /\ Cardinality(rs \cup {row}) = Cardinality(rs) + 1
           /\ \A i \in 1..Cardinality(rs) : Nth(rs \cup {row}, i) = Nth(rs, i)
           /\ Nth(rs \cup {row}, Cardinality(rs) + 1) = row
<1> DEFINE more == rs \cup {row}
           n == Cardinality(rs)
<1>1. IsFiniteSet(rs) /\ n \in Nat /\ row \notin rs
    BY FS_CardinalityType DEF Ordered
<1>2. IsFiniteSet(more) /\ Cardinality(more) = n + 1
    BY <1>1, FS_AddElement
<1>3. Ordered(more)
    BY <1>2 DEF Ordered
<1>4. ASSUME NEW i \in 1..n
      PROVE  Nth(more, i) = Nth(rs, i)
    <2> DEFINE r == Nth(rs, i)
    <2>1. r \in rs /\ Rank(rs, r) = i - 1
        BY NthIsRanked
    <2> HIDE DEF r
    <2>2. r.id < row.id /\ r.id \in Nat
        BY <2>1 DEF Ordered
    <2>3. Before(more, r) = Before(rs, r)
        BY <2>2 DEF Before
    <2>4. Rank(more, r) = i - 1 /\ i \in Nat /\ r \in more
        BY <1>1, <2>1, <2>3 DEF Rank
    <2> HIDE DEF more
    <2>5. Nth(more, i) = r
        BY <1>3, <2>4, NthIs
    <2> QED
        BY <2>5 DEF r
<1>5. Nth(more, n + 1) = row
    <2>1. Before(more, row) = rs
        BY DEF Before
    <2>2. Rank(more, row) = (n + 1) - 1 /\ n + 1 \in Nat /\ row \in more
        BY <1>1, <2>1 DEF Rank
    <2> HIDE DEF more, n
    <2> QED
        BY <1>3, <2>2, NthIs
<1> QED
    BY <1>2, <1>3, <1>4, <1>5

\* Without one of them the others keep their order.
LEMMA RemovedIsSkipped ==
    ASSUME NEW rs, Ordered(rs), NEW row \in rs
    PROVE  LET k == Rank(rs, row) + 1 IN
           /\ Ordered(rs \ {row}) /\ Cardinality(rs \ {row}) = Cardinality(rs) - 1
           /\ k \in 1..Cardinality(rs) /\ Nth(rs, k) = row
           /\ \A i \in 1..(Cardinality(rs) - 1) :
                Nth(rs \ {row}, i) = IF i < k THEN Nth(rs, i) ELSE Nth(rs, i + 1)
<1> DEFINE less == rs \ {row}
           n == Cardinality(rs)
           k == Rank(rs, row) + 1
<1>1. IsFiniteSet(rs) /\ n \in Nat
    BY FS_CardinalityType DEF Ordered
<1>2. IsFiniteSet(less) /\ Cardinality(less) = n - 1
    BY <1>1, FS_RemoveElement
<1>3. Ordered(less)
    BY <1>2 DEF Ordered
<1>4. k \in 1..n /\ k - 1 = Rank(rs, row)
    BY <1>1, RankRises
<1>5. Nth(rs, k) = row
    <2> HIDE DEF k, n
    <2> QED
        BY <1>1, <1>4, NthIs
<1>6. ASSUME NEW i \in 1..(n - 1), NEW j \in {i, i + 1}, i < k <=> j = i
      PROVE  Nth(less, i) = Nth(rs, j)
    <2> DEFINE r == Nth(rs, j)
    <2>1. j \in 1..n /\ j # k /\ i \in Nat
        BY <1>1, <1>4, <1>6
    <2>2. r \in rs /\ Rank(rs, r) = j - 1
        BY <2>1, NthIsRanked
    <2> HIDE DEF r, k, n
    <2>3. r # row /\ r.id \in Nat /\ row.id \in Nat
        BY <1>1, <1>4, <2>1, <2>2 DEF Ordered
    <2>4. r.id # row.id
        BY <2>2, <2>3 DEF Ordered
    <2>5. CASE r.id < row.id
        <3>1. Rank(rs, r) < Rank(rs, row)
            BY <2>2, <2>5, RankRises
        <3>2. j = i
            BY <1>1, <1>4, <1>6, <2>1, <2>2, <3>1
        <3>3. Before(less, r) = Before(rs, r)
            BY <2>3, <2>5 DEF Before
        <3>4. Rank(less, r) = i - 1
            BY <2>2, <3>2, <3>3 DEF Rank
        <3> HIDE DEF less
        <3>5. r \in less
            BY <2>2, <2>3 DEF less
        <3> QED
            BY <1>3, <2>1, <3>4, <3>5, NthIs DEF r
    <2>6. CASE row.id < r.id
        <3>1. Rank(rs, row) < Rank(rs, r)
            BY <2>2, <2>6, RankRises
        <3>2. j = i + 1
            BY <1>1, <1>4, <1>6, <2>1, <2>2, <3>1
        <3>3. Before(less, r) = Before(rs, r) \ {row} /\ row \in Before(rs, r)
            BY <2>3, <2>6 DEF Before
        <3>4. IsFiniteSet(Before(rs, r))
            BY <1>1, FS_Subset DEF Before
        <3>5. Cardinality(Before(less, r)) = Cardinality(Before(rs, r)) - 1
            BY <3>3, <3>4, FS_RemoveElement
        <3>6. Rank(less, r) = i - 1
            BY <2>1, <2>2, <3>2, <3>5 DEF Rank
        <3> HIDE DEF less
        <3>7. r \in less
            BY <2>2, <2>3 DEF less
        <3> QED
            BY <1>3, <2>1, <3>6, <3>7, NthIs DEF r
    <2> QED
        BY <2>3, <2>4, <2>5, <2>6
<1>7. \A i \in 1..(n - 1) : Nth(less, i) = IF i < k THEN Nth(rs, i) ELSE Nth(rs, i + 1)
    <2> TAKE i \in 1..(n - 1)
    <2>1. CASE i < k
        BY <1>6, <2>1
    <2>2. CASE ~(i < k)
        BY <1>6, <1>1, <2>2
    <2> QED
        BY <2>1, <2>2
<1> QED
    BY <1>2, <1>3, <1>4, <1>5, <1>7

(***************************************************************************)
(* Tables with their keys, and what they are read as.                      *)
(***************************************************************************)
Keyed(d) ==
    /\ d \in Rows(Token)
    /\ Ordered(d.contacts) /\ Ordered(d.conflicts) /\ Ordered(d.pending)
    /\ \A r, q \in d.contacts : r.uid = q.uid => r = q
    /\ \A r, q \in d.pending : r.uid = q.uid => r = q
    /\ \A r, q \in d.endpoints : r.side = q.side => r = q
    /\ \A r, q \in d.failures : r.key = q.key => r = q

\* The view of the contacts table, row by row.
LEMMA ContactsAre ==
    ASSUME NEW d, Keyed(d)
    PROVE  /\ Contacts(d) = [u \in Uid |-> Contacts(d)[u]]
           /\ \A r \in d.contacts : r.uid \in Uid /\ Contacts(d)[r.uid] = r.at /\ r.at # None
           /\ \A u \in Uid : (\A r \in d.contacts : r.uid # u) => Contacts(d)[u] = None
<1>1. Contacts(d) = [u \in Uid |-> Contacts(d)[u]]
    BY DEF Contacts
<1>2. ASSUME NEW r \in d.contacts
      PROVE  r.uid \in Uid /\ Contacts(d)[r.uid] = r.at /\ r.at # None
    <2>1. r.uid \in Uid /\ r.at \in ContactState
        BY DEF Keyed, Rows, ContactTable
    <2>2. {q \in d.contacts : q.uid = r.uid} = {r}
        BY DEF Keyed
    <2>3. Contacts(d)[r.uid] = ContactOf(CHOOSE q \in {r} : TRUE)
        BY <2>1, <2>2 DEF Contacts, One
    <2> QED
        BY <2>1, <2>3, NoneAssumption DEF ContactOf
<1>3. ASSUME NEW u \in Uid, \A r \in d.contacts : r.uid # u
      PROVE  Contacts(d)[u] = None
    BY <1>3 DEF Contacts, One
<1> QED
    BY <1>1, <1>2, <1>3

\* The view of the endpoints table, row by row.
LEMMA EndpointsAre ==
    ASSUME NEW d, Keyed(d)
    PROVE  /\ Endpoints(d) = [s \in Side |-> Endpoints(d)[s]]
           /\ \A r \in d.endpoints : r.side \in Side /\ Endpoints(d)[r.side] = EndpointOf(r)
           /\ \A r \in d.endpoints : EndpointRows(d, r.side) = {r}
           /\ \A s \in Side : EndpointRows(d, s) = {} => Endpoints(d)[s] = None
<1>1. Endpoints(d) = [s \in Side |-> Endpoints(d)[s]]
    BY DEF Endpoints
<1>2. ASSUME NEW r \in d.endpoints
      PROVE  /\ r.side \in Side /\ Endpoints(d)[r.side] = EndpointOf(r)
             /\ EndpointRows(d, r.side) = {r}
    <2>1. r.side \in Side
        BY DEF Keyed, Rows, EndpointTable
    <2>2. EndpointRows(d, r.side) = {r}
        BY DEF Keyed, EndpointRows
    <2>3. Endpoints(d)[r.side] = EndpointOf(CHOOSE q \in {r} : TRUE)
        BY <2>1, <2>2 DEF Endpoints, One
    <2> QED
        BY <2>1, <2>2, <2>3
<1>3. ASSUME NEW s \in Side, EndpointRows(d, s) = {}
      PROVE  Endpoints(d)[s] = None
    BY <1>3 DEF Endpoints, One
<1> QED
    BY <1>1, <1>2, <1>3

\* The row of a side, if there is one.
LEMMA EndpointIs ==
    ASSUME NEW d, Keyed(d), NEW s \in Side, NEW r \in d.endpoints, r.side = s
    PROVE  /\ Endpoints(d)[s] = EndpointOf(r) /\ Endpoints(d)[s] # None
           /\ Endpoints(d)[s].url = r.url /\ Endpoints(d)[s].token = r.token
           /\ EndpointRows(d, s) = {r}
<1>1. Endpoints(d)[s] = EndpointOf(r) /\ EndpointRows(d, s) = {r}
    BY EndpointsAre
<1>2. r.url \in Url /\ r.token \in Token \cup {None}
    BY DEF Keyed, Rows, EndpointTable
<1>3. EndpointOf(r) \in Endpoint(Token)
    BY <1>2 DEF EndpointOf, Endpoint
<1>4. EndpointOf(r).url = r.url /\ EndpointOf(r).token = r.token
    BY DEF EndpointOf
<1>5. EndpointOf(r) # None
    BY <1>3, NoneAssumption
<1> QED
    BY <1>1, <1>4, <1>5

\* The view of the failures table, row by row.
LEMMA FailuresAre ==
    ASSUME NEW d, Keyed(d)
    PROVE  /\ Failures(d) = [k \in Key |-> Failures(d)[k]]
           /\ \A r \in d.failures : r.key \in Key /\ Failures(d)[r.key] = FailureOf(r)
           /\ \A r \in d.failures : FailureRows(d, r.key) = {r}
           /\ \A k \in Key : FailureRows(d, k) = {} => Failures(d)[k] = None
<1>1. Failures(d) = [k \in Key |-> Failures(d)[k]]
    BY DEF Failures
<1>2. ASSUME NEW r \in d.failures
      PROVE  /\ r.key \in Key /\ Failures(d)[r.key] = FailureOf(r)
             /\ FailureRows(d, r.key) = {r}
    <2>1. r.key \in Key
        BY DEF Keyed, Rows, FailureTable
    <2>2. FailureRows(d, r.key) = {r}
        BY DEF Keyed, FailureRows
    <2>3. Failures(d)[r.key] = FailureOf(CHOOSE q \in {r} : TRUE)
        BY <2>1, <2>2 DEF Failures, One
    <2> QED
        BY <2>1, <2>2, <2>3
<1>3. ASSUME NEW k \in Key, FailureRows(d, k) = {}
      PROVE  Failures(d)[k] = None
    BY <1>3 DEF Failures, One
<1> QED
    BY <1>1, <1>2, <1>3

\* The row of a card, if there is one.
LEMMA FailureIs ==
    ASSUME NEW d, Keyed(d), NEW k \in Key, NEW r \in d.failures, r.key = k
    PROVE  /\ Failures(d)[k] = FailureOf(r) /\ Failures(d)[k] # None
           /\ Failures(d)[k].etag = r.etag /\ Failures(d)[k].attempts = r.attempts
           /\ r.attempts \in Nat \ {0} /\ FailureRows(d, k) = {r}
<1>1. Failures(d)[k] = FailureOf(r) /\ FailureRows(d, k) = {r}
    BY FailuresAre
<1>2. r.etag \in Etag \cup {None} /\ r.attempts \in Nat \ {0}
    BY DEF Keyed, Rows, FailureTable
<1>3. FailureOf(r) \in CardFailure
    BY <1>2 DEF FailureOf, CardFailure
<1>4. FailureOf(r).etag = r.etag /\ FailureOf(r).attempts = r.attempts
    BY DEF FailureOf
<1>5. FailureOf(r) # None
    BY <1>3, NoneAssumption
<1> QED
    BY <1>1, <1>2, <1>4, <1>5

\* Each part of what the tables are read as depends on its table alone.
LEMMA ReadAlone ==
    ASSUME NEW d, NEW e
    PROVE  /\ e.contacts = d.contacts => Contacts(e) = Contacts(d)
           /\ e.endpoints = d.endpoints => Endpoints(e) = Endpoints(d)
           /\ e.failures = d.failures => Failures(e) = Failures(d)
           /\ e.skips = d.skips => Skips(e) = Skips(d)
           /\ e.conflicts = d.conflicts => Conflicts(e) = Conflicts(d)
           /\ e.pending = d.pending => Pending(e) = Pending(d)
<1>1. e.contacts = d.contacts => Contacts(e) = Contacts(d)
    BY DEF Contacts
<1>2. e.endpoints = d.endpoints => Endpoints(e) = Endpoints(d)
    BY DEF Endpoints, EndpointRows
<1>3. e.failures = d.failures => Failures(e) = Failures(d)
    BY DEF Failures, FailureRows
<1>4. e.skips = d.skips => Skips(e) = Skips(d)
    BY DEF Skips
<1>5. e.conflicts = d.conflicts => Conflicts(e) = Conflicts(d)
    BY DEF Conflicts
<1>6. e.pending = d.pending => Pending(e) = Pending(d)
    BY DEF Pending
<1> QED
    BY <1>1, <1>2, <1>3, <1>4, <1>5, <1>6

(***************************************************************************)
(* What each call does to what the tables are read as.                     *)
(***************************************************************************)
AnyCall ==
    [call : {"find_by_uid", "delete_by_uid", "conflict", "delete_pending", "upsert_pending"}, uid : Uid]
    \cup [call : {"write"}, uid : Uid, at : ContactState]
    \cup [call : {"upsert_discovery"}, side : Side, url : Url]
    \cup [call : {"set_sync_token"}, side : Side, token : Token]
    \cup [call : {"record_failure"}, key : Key, etag : Etag \cup {None}]
    \cup [call : {"clear"}, key : Key]
    \cup [call : {"replace_all"}, skips : SUBSET Key]
    \cup [call : {"delete_all"}, table : {"contacts", "endpoints", "failures", "skips"}]
    \cup [call : {"list"}]

Does(c, t) ==
    CASE c.call = "write"            -> [t EXCEPT !.contacts[c.uid] = c.at]
      [] c.call = "delete_by_uid"    -> [t EXCEPT !.contacts[c.uid] = None]
      [] c.call = "upsert_discovery" ->
           [t EXCEPT !.endpoints[c.side] =
               IF @ # None /\ @.url = c.url THEN @ ELSE [url |-> c.url, token |-> None]]
      [] c.call = "set_sync_token"   -> [t EXCEPT !.endpoints[c.side].token = c.token]
      [] c.call = "record_failure"   -> [t EXCEPT !.failures[c.key] = Failure(@, c.etag)]
      [] c.call = "clear"            -> [t EXCEPT !.failures[c.key] = None]
      [] c.call = "conflict"         -> [t EXCEPT !.conflicts = Append(@, c.uid)]
      [] c.call = "delete_pending"   -> [t EXCEPT !.pending = Without(@, c.uid)]
      [] c.call = "upsert_pending"   -> [t EXCEPT !.pending = Append(Without(@, c.uid), c.uid)]
      [] c.call = "replace_all"      -> [t EXCEPT !.skips = c.skips]
      [] c.call = "delete_all"       -> [t EXCEPT ![c.table] = Empty[c.table]]
      [] OTHER                       -> t

\* What a call that succeeds has found to hold.
Passes(c, t) ==
    /\ c.call = "write" => ~Taken(t, c.uid, c.at)
    /\ c.call = "delete_by_uid" => t.contacts[c.uid] # None
    /\ c.call = "set_sync_token" => t.endpoints[c.side] # None

\* A call that went well, from tables d to tables e.
Went(c, d, e) ==
    /\ Keyed(e) /\ View(e) = Does(c, View(d)) /\ Passes(c, View(d))

\* The row that is saved for a contact takes the place of its old one, if
\* any, and no row of another contact has its hrefs.
LEMMA SavedRow ==
    ASSUME NEW d, Keyed(d), NEW u \in Uid, NEW at \in ContactState, NEW row \in ContactTable,
           row.uid = u, row.at = at,
           \A r \in d.contacts : r.uid = u <=> r.id = row.id,
           Put(d, row).error = None
    PROVE  Went([call |-> "write", uid |-> u, at |-> at], d, Put(d, row).rows)
<1> DEFINE c == [call |-> "write", uid |-> u, at |-> at]
           e == [d EXCEPT !.contacts = {r \in @ : r.id # row.id} \cup {row}]
<1>1. d \in Rows(Token) /\ d.contacts \subseteq ContactTable
    BY DEF Keyed, Rows
<1>2. ~Clash(d.contacts, row) /\ Put(d, row).rows = e
    <2>1. "unique" # None
        BY NoneAssumption
    <2>2. Put(d, row) = IF Clash(d.contacts, row) THEN Error(d, "unique") ELSE Done(e, None)
        BY DEF Put
    <2> HIDE DEF e
    <2> QED
        BY <2>1, <2>2 DEF Done, Error
<1>3. e.contacts = {r \in d.contacts : r.id # row.id} \cup {row} /\ e \in Rows(Token)
    BY <1>1 DEF Rows
<1>4. /\ e.endpoints = d.endpoints /\ e.failures = d.failures /\ e.skips = d.skips
      /\ e.conflicts = d.conflicts /\ e.pending = d.pending
    BY <1>1 DEF Rows
<1> HIDE DEF e
<1>5. IsFiniteSet(e.contacts)
    <2>1. IsFiniteSet({r \in d.contacts : r.id # row.id})
        BY FS_Subset DEF Keyed, Ordered
    <2> QED
        BY <1>3, <2>1, FS_AddElement
<1>6. \A r \in e.contacts : r = row \/ (r \in d.contacts /\ r.id # row.id /\ r.uid # u)
    BY <1>3
<1>7. Ordered(e.contacts) /\ \A r, q \in e.contacts : r.uid = q.uid => r = q
    BY <1>1, <1>5, <1>6 DEF Keyed, Ordered, ContactTable
<1>8. Keyed(e)
    BY <1>3, <1>4, <1>7 DEF Keyed
<1>9. Contacts(e) = [Contacts(d) EXCEPT ![u] = at]
    <2>1. ASSUME NEW v \in Uid, v # u
          PROVE  Contacts(e)[v] = Contacts(d)[v]
        <3>1. CASE \E r \in d.contacts : r.uid = v
            <4>1. PICK r \in d.contacts : r.uid = v
                BY <3>1
            <4>2. r \in e.contacts
                BY <1>3, <2>1, <4>1
            <4> QED
                BY <1>8, <4>1, <4>2, ContactsAre
        <3>2. CASE \A r \in d.contacts : r.uid # v
            <4>1. \A r \in e.contacts : r.uid # v
                BY <1>6, <2>1, <3>2
            <4> QED
                BY <1>8, <3>2, <4>1, ContactsAre
        <3> QED
            BY <3>1, <3>2
    <2>2. Contacts(e)[u] = at
        BY <1>3, <1>8, ContactsAre
    <2>3. Contacts(d) = [v \in Uid |-> Contacts(d)[v]] /\ Contacts(e) = [v \in Uid |-> Contacts(e)[v]]
        BY <1>8, ContactsAre
    <2> QED
        BY <2>1, <2>2, <2>3
<1>10. View(e) = Does(c, View(d))
    BY <1>4, <1>9, ReadAlone DEF Does, View
<1>11. ~Taken(View(d), u, at)
    <2> SUFFICES ASSUME NEW v \in Uid \ {u}, NEW s \in Side, Contacts(d)[v] # None,
                        Contacts(d)[v][s].href = at[s].href
                 PROVE  FALSE
        BY DEF Taken, View
    <2>1. PICK r \in d.contacts : r.uid = v
        BY ContactsAre
    <2>2. r.at[s].href = row.at[s].href /\ r.id # row.id
        BY <2>1, ContactsAre
    <2> QED
        BY <1>2, <2>1, <2>2 DEF Clash
<1> QED
    BY <1>2, <1>8, <1>10, <1>11 DEF Went, Passes

\* Writing a contact changes its row of the view and nothing else.
LEMMA WriteWent ==
    ASSUME NEW d, Keyed(d), NEW u \in Uid, NEW at \in ContactState,
           Write(d, FindByUid(d, u).found, u, at).error = None
    PROVE  Went([call |-> "write", uid |-> u, at |-> at], d, Write(d, FindByUid(d, u).found, u, at).rows)
<1> DEFINE rs == {r \in d.contacts : r.uid = u}
           found == FindByUid(d, u).found
<1>1. d.contacts \subseteq ContactTable /\ Ordered(d.contacts)
    BY DEF Keyed, Rows
<1>2. CASE rs = {}
    <2> DEFINE row == ContactRow(NextId(d.contacts), 1, u, at)
    <2>1. NextId(d.contacts) \in Nat /\ \A r \in d.contacts : r.id < NextId(d.contacts)
        BY <1>1, NextIdIsLarger DEF Ordered
    <2>2. Saved(ContactRow(NextId(d.contacts), 0, u, at)) = row
        BY DEF Saved, ContactRow
    <2>3. Write(d, found, u, at) = Put(d, row)
        BY <1>2, <2>2 DEF Write, Add, FindByUid, Done
    <2>4. row \in ContactTable /\ row.uid = u /\ row.at = at /\ row.id = NextId(d.contacts)
        BY <2>1 DEF ContactRow, ContactTable
    <2>5. \A r \in d.contacts : r.uid = u <=> r.id = row.id
        BY <1>1, <1>2, <2>1, <2>4 DEF ContactTable
    <2> HIDE DEF row, found
    <2> QED
        BY <2>3, <2>4, <2>5, SavedRow DEF found
<1>3. CASE rs # {}
    <2>1. PICK old \in d.contacts : old.uid = u
        BY <1>3
    <2>2. rs = {old}
        BY <2>1 DEF Keyed
    <2>3. found = old
        BY <2>2 DEF FindByUid, Done
    <2>4. old # None /\ old \in ContactTable
        BY <1>1, NoneAssumption
    <2>5. {r \in d.contacts : r.id = old.id} = {old}
        BY <1>1 DEF Ordered
    <2> DEFINE row == Saved([old EXCEPT !.at = at])
    <2>6. Write(d, found, u, at) = Put(d, row)
        <3> HIDE DEF found
        <3>1. Write(d, found, u, at) = Update(d, old, at)
            BY <2>3, <2>4 DEF Write
        <3>2. (CHOOSE r \in {old} : TRUE) = old
            OBVIOUS
        <3> HIDE DEF row
        <3> QED
            BY <2>5, <3>1, <3>2 DEF Update, row
    <2>7. row \in ContactTable /\ row.uid = u /\ row.at = at /\ row.id = old.id
        <3> DEFINE mid == [old EXCEPT !.at = at]
        <3>1. mid \in ContactTable /\ mid.uid = u /\ mid.at = at /\ mid.id = old.id
            BY <2>1, <2>4 DEF ContactTable
        <3>2. row = [mid EXCEPT !.version = mid.version + 1]
            BY DEF Saved
        <3> HIDE DEF mid, row
        <3> QED
            BY <3>1, <3>2 DEF ContactTable
    <2>8. \A r \in d.contacts : r.uid = u <=> r.id = row.id
        BY <2>1, <2>2, <2>5, <2>7
    <2> HIDE DEF row, found
    <2> QED
        BY <2>6, <2>7, <2>8, SavedRow DEF found
<1> QED
    BY <1>2, <1>3

\* Deleting a contact empties its row of the view.
LEMMA DeleteWent ==
    ASSUME NEW d, Keyed(d), NEW u \in Uid, DeleteByUid(d, u).error = None
    PROVE  Went([call |-> "delete_by_uid", uid |-> u], d, DeleteByUid(d, u).rows)
<1> DEFINE c == [call |-> "delete_by_uid", uid |-> u]
           rs == {r \in d.contacts : r.uid = u}
           e == [d EXCEPT !.contacts = @ \ rs]
<1>1. d \in Rows(Token) /\ d.contacts \subseteq ContactTable /\ Ordered(d.contacts)
    BY DEF Keyed, Rows
<1>2. rs # {} /\ DeleteByUid(d, u).rows = e
    <2>1. "NotFound" # None
        BY NoneAssumption
    <2>2. DeleteByUid(d, u) = IF rs = {} THEN Error(d, "NotFound") ELSE Done(e, None)
        BY DEF DeleteByUid
    <2> HIDE DEF e, rs
    <2> QED
        BY <2>1, <2>2 DEF Done, Error
<1>3. e.contacts = d.contacts \ rs /\ e \in Rows(Token)
    BY <1>1 DEF Rows
<1>4. /\ e.endpoints = d.endpoints /\ e.failures = d.failures /\ e.skips = d.skips
      /\ e.conflicts = d.conflicts /\ e.pending = d.pending
    BY <1>1 DEF Rows
<1> HIDE DEF e
<1>5. IsFiniteSet(e.contacts)
    <2>1. IsFiniteSet(d.contacts)
        BY <1>1 DEF Ordered
    <2> HIDE DEF rs
    <2>2. IsFiniteSet(d.contacts \ rs)
        BY <2>1, FS_Difference
    <2> QED
        BY <1>3, <2>2
<1>6. Keyed(e)
    BY <1>1, <1>3, <1>4, <1>5 DEF Keyed, Ordered
<1>7. Contacts(e) = [Contacts(d) EXCEPT ![u] = None]
    <2>1. ASSUME NEW v \in Uid, v # u
          PROVE  Contacts(e)[v] = Contacts(d)[v]
        <3>1. CASE \E r \in d.contacts : r.uid = v
            <4>1. PICK r \in d.contacts : r.uid = v
                BY <3>1
            <4>2. r \in e.contacts
                BY <1>3, <2>1, <4>1
            <4> QED
                BY <1>6, <4>1, <4>2, ContactsAre
        <3>2. CASE \A r \in d.contacts : r.uid # v
            <4>1. \A r \in e.contacts : r.uid # v
                BY <1>3, <3>2
            <4> QED
                BY <1>6, <3>2, <4>1, ContactsAre
        <3> QED
            BY <3>1, <3>2
    <2>2. Contacts(e)[u] = None
        BY <1>3, <1>6, ContactsAre
    <2>3. Contacts(d) = [v \in Uid |-> Contacts(d)[v]] /\ Contacts(e) = [v \in Uid |-> Contacts(e)[v]]
        BY <1>6, ContactsAre
    <2> QED
        BY <2>1, <2>2, <2>3
<1>8. View(e) = Does(c, View(d))
    BY <1>4, <1>7, ReadAlone DEF Does, View
<1>9. View(d).contacts[u] # None
    <2>1. PICK r \in d.contacts : r.uid = u
        BY <1>2
    <2>2. Contacts(d)[u] # None
        BY <2>1, ContactsAre
    <2> QED
        BY <2>2 DEF View
<1> QED
    BY <1>2, <1>6, <1>8, <1>9 DEF Went, Passes

\* A change of one table changes what that one is read as.
TableNames == {"contacts", "endpoints", "failures", "skips", "conflicts", "pending"}

Only(d, e, t) == \A x \in TableNames \ {t} : e[x] = d[x]

\* Tables that differ in one table have views that differ there.
LEMMA OnlyOne ==
    ASSUME NEW d, NEW e, NEW t \in TableNames, Only(d, e, t)
    PROVE  View(e) = [View(d) EXCEPT ![t] = View(e)[t]]
<1>1. ASSUME NEW x \in TableNames, x # t
      PROVE  View(e)[x] = View(d)[x]
    <2>1. e[x] = d[x]
        BY <1>1 DEF Only
    <2>2. CASE x = "contacts"
        BY <2>1, <2>2, ReadAlone DEF View
    <2>3. CASE x = "endpoints"
        BY <2>1, <2>3, ReadAlone DEF View
    <2>4. CASE x = "failures"
        BY <2>1, <2>4, ReadAlone DEF View
    <2>5. CASE x = "skips"
        BY <2>1, <2>5, ReadAlone DEF View
    <2>6. CASE x = "conflicts"
        BY <2>1, <2>6, ReadAlone DEF View
    <2>7. CASE x = "pending"
        BY <2>1, <2>7, ReadAlone DEF View
    <2> QED
        BY <2>2, <2>3, <2>4, <2>5, <2>6, <2>7 DEF TableNames
<1>2. \A c : View(c) = [x \in TableNames |-> View(c)[x]]
    BY DEF View, TableNames
<1>3. View(e) = [x \in TableNames |-> View(e)[x]] /\ View(d) = [x \in TableNames |-> View(d)[x]]
    BY <1>2
<1> QED
    BY <1>1, <1>3

\* Another row for a side takes the place of the one there is.
LEMMA EndpointSet ==
    ASSUME NEW d, Keyed(d), NEW row \in EndpointTable(Token), NEW s \in Side, row.side = s
    PROVE  LET e == [d EXCEPT !.endpoints = (@ \ EndpointRows(d, s)) \cup {row}] IN
           Keyed(e) /\ View(e) = [View(d) EXCEPT !.endpoints[s] = EndpointOf(row)]
<1> DEFINE e == [d EXCEPT !.endpoints = (@ \ EndpointRows(d, s)) \cup {row}]
<1>1. d \in Rows(Token) /\ d.endpoints \subseteq EndpointTable(Token)
    BY DEF Keyed, Rows
<1>2. e.endpoints = (d.endpoints \ EndpointRows(d, s)) \cup {row} /\ e \in Rows(Token)
    BY <1>1 DEF Rows
<1>3. /\ e.contacts = d.contacts /\ e.failures = d.failures /\ e.skips = d.skips
      /\ e.conflicts = d.conflicts /\ e.pending = d.pending
    BY <1>1 DEF Rows
<1> HIDE DEF e
<1>4. \A r \in e.endpoints : r = row \/ (r \in d.endpoints /\ r.side # s)
    BY <1>2 DEF EndpointRows
<1>5. Keyed(e)
    BY <1>2, <1>3, <1>4 DEF Keyed
<1>6. Endpoints(e) = [Endpoints(d) EXCEPT ![s] = EndpointOf(row)]
    <2>1. ASSUME NEW q \in Side, q # s
          PROVE  Endpoints(e)[q] = Endpoints(d)[q]
        <3>1. CASE EndpointRows(d, q) # {}
            <4>1. PICK r \in d.endpoints : r.side = q
                BY <3>1 DEF EndpointRows
            <4>2. r \in e.endpoints
                BY <1>2, <2>1, <4>1 DEF EndpointRows
            <4>3. Endpoints(e)[q] = EndpointOf(r) /\ Endpoints(d)[q] = EndpointOf(r)
                BY <1>5, <4>1, <4>2, EndpointIs
            <4> QED
                BY <4>3
        <3>2. CASE EndpointRows(d, q) = {}
            <4>1. EndpointRows(e, q) = {}
                BY <1>4, <2>1, <3>2 DEF EndpointRows
            <4>2. Endpoints(e)[q] = None /\ Endpoints(d)[q] = None
                BY <1>5, <3>2, <4>1, EndpointsAre
            <4> QED
                BY <4>2
        <3> QED
            BY <3>1, <3>2
    <2>2. Endpoints(e)[s] = EndpointOf(row)
        BY <1>2, <1>5, EndpointIs
    <2>3. Endpoints(d) = [q \in Side |-> Endpoints(d)[q]] /\ Endpoints(e) = [q \in Side |-> Endpoints(e)[q]]
        BY DEF Endpoints
    <2> QED
        BY <2>1, <2>2, <2>3
<1>7. View(e) = [View(d) EXCEPT !["endpoints"] = View(e)["endpoints"]]
    BY <1>3, OnlyOne DEF Only, TableNames
<1>8. View(d).endpoints = Endpoints(d) /\ View(e).endpoints = Endpoints(e)
    BY DEF View
<1>9. View(e) = [View(d) EXCEPT !.endpoints[s] = EndpointOf(row)]
    BY <1>6, <1>7, <1>8
<1> QED
    BY <1>5, <1>9 DEF e

\* upsert_discovery keeps the token of an unchanged URL and drops it with another.
LEMMA DiscoveryWent ==
    ASSUME NEW d, Keyed(d), NEW s \in Side, NEW url \in Url
    PROVE  /\ UpsertDiscovery(d, s, url).error = None
           /\ Went([call |-> "upsert_discovery", side |-> s, url |-> url], d, UpsertDiscovery(d, s, url).rows)
<1> DEFINE c == [call |-> "upsert_discovery", side |-> s, url |-> url]
           rs == EndpointRows(d, s)
           moved == {r \in rs : r.url # url}
           row == EndpointRow(s, url, None)
           e == UpsertDiscovery(d, s, url).rows
           set == [d EXCEPT !.endpoints = (@ \ EndpointRows(d, s)) \cup {row}]
<1>1. d \in Rows(Token) /\ d.endpoints \subseteq EndpointTable(Token)
    BY DEF Keyed, Rows
<1>2. row \in EndpointTable(Token) /\ row.side = s /\ EndpointOf(row) = [url |-> url, token |-> None]
    BY DEF EndpointRow, EndpointTable, EndpointOf
<1>3. View(d).endpoints[s] = Endpoints(d)[s]
    BY DEF View
<1>4. UpsertDiscovery(d, s, url).error = None
    BY DEF UpsertDiscovery, Done
<1>5. e = [d EXCEPT !.endpoints = IF rs # {} /\ moved = {} THEN @ ELSE (@ \ rs) \cup {row}]
    BY DEF UpsertDiscovery, Done
<1>6. c.call = "upsert_discovery" /\ c.side = s /\ c.url = url
    OBVIOUS
<1> HIDE DEF e, row, c
<1>7. CASE rs = {} \/ moved # {}
    <2>1. e = set
        BY <1>5, <1>7
    <2>2. Keyed(e) /\ View(e) = [View(d) EXCEPT !.endpoints[s] = EndpointOf(row)]
        BY <1>2, <2>1, EndpointSet
    <2>3. ~(Endpoints(d)[s] # None /\ Endpoints(d)[s].url = url)
        <3>1. CASE rs = {}
            <4>1. Endpoints(d)[s] = None
                BY <3>1, EndpointsAre
            <4> QED
                BY <4>1
        <3>2. CASE moved # {}
            <4>1. PICK r \in d.endpoints : r.side = s /\ r.url # url
                BY <3>2 DEF EndpointRows
            <4>2. Endpoints(d)[s].url = r.url
                BY <4>1, EndpointIs
            <4> QED
                BY <4>1, <4>2
        <3> QED
            BY <1>7, <3>1, <3>2
    <2>4. Does(c, View(d)) = [View(d) EXCEPT !.endpoints[s] = EndpointOf(row)]
        BY <1>2, <1>3, <1>6, <2>3 DEF Does
    <2> QED
        BY <1>4, <1>6, <2>2, <2>4 DEF Went, Passes, e, c
<1>8. CASE rs # {} /\ moved = {}
    <2>1. e = d
        BY <1>1, <1>5, <1>8 DEF Rows
    <2>2. PICK r \in d.endpoints : r.side = s /\ r.url = url
        BY <1>8 DEF EndpointRows
    <2>3. Endpoints(d)[s] # None /\ Endpoints(d)[s].url = r.url
        BY <2>2, EndpointIs
    <2>4. Does(c, View(d)) = [View(d) EXCEPT !.endpoints[s] = @]
        BY <1>3, <1>6, <2>2, <2>3 DEF Does
    <2>5. View(d).endpoints = [q \in Side |-> View(d).endpoints[q]]
        BY DEF View, Endpoints
    <2>6. [View(d) EXCEPT !.endpoints[s] = @] = View(d)
        <3>1. [View(d).endpoints EXCEPT ![s] = @] = View(d).endpoints
            BY <2>5
        <3>2. [View(d) EXCEPT !.endpoints = @] = View(d)
            BY DEF View
        <3> QED
            BY <3>1, <3>2
    <2> QED
        BY <1>4, <1>6, <2>1, <2>4, <2>6 DEF Went, Passes, e, c
<1> QED
    BY <1>7, <1>8

\* set_sync_token writes the token of a recorded endpoint.
LEMMA TokenWent ==
    ASSUME NEW d, Keyed(d), NEW s \in Side, NEW token \in Token, SetSyncToken(d, s, token).error = None
    PROVE  Went([call |-> "set_sync_token", side |-> s, token |-> token], d, SetSyncToken(d, s, token).rows)
<1> DEFINE c == [call |-> "set_sync_token", side |-> s, token |-> token]
           rs == EndpointRows(d, s)
           new == {[r EXCEPT !.token = token] : r \in rs}
           e == SetSyncToken(d, s, token).rows
<1>1. d \in Rows(Token) /\ d.endpoints \subseteq EndpointTable(Token)
    BY DEF Keyed, Rows
<1>2. SetSyncToken(d, s, token)
        = IF rs = {} THEN Error(d, "NotFound") ELSE Done([d EXCEPT !.endpoints = (@ \ rs) \cup new], None)
    BY DEF SetSyncToken
<1>3. c.call = "set_sync_token" /\ c.side = s /\ c.token = token
    OBVIOUS
<1> HIDE DEF c, new
<1>4. rs # {} /\ e = [d EXCEPT !.endpoints = (@ \ rs) \cup new]
    <2>1. "NotFound" # None
        BY NoneAssumption
    <2> QED
        BY <1>2, <2>1 DEF Error, Done
<1>5. PICK old \in d.endpoints : old.side = s
    BY <1>4 DEF EndpointRows
<1>6. /\ rs = {old} /\ Endpoints(d)[s] = EndpointOf(old) /\ Endpoints(d)[s] # None
    BY <1>5, EndpointIs
<1> DEFINE row == [old EXCEPT !.token = token]
<1>7. new = {row}
    BY <1>6 DEF new
<1>8. row \in EndpointTable(Token) /\ row.side = s
    BY <1>1, <1>5 DEF EndpointTable
<1>9. [EndpointOf(old) EXCEPT !.token = token] = EndpointOf(row)
    BY <1>1, <1>5 DEF EndpointOf, EndpointTable
<1> HIDE DEF e, row
<1>10. Keyed(e) /\ View(e) = [View(d) EXCEPT !.endpoints[s] = EndpointOf(row)]
    BY <1>4, <1>7, <1>8, EndpointSet
<1>11. View(d).endpoints[s] = EndpointOf(old)
    BY <1>6 DEF View
<1>12. View(d).endpoints = [q \in Side |-> View(d).endpoints[q]]
    BY DEF View, Endpoints
<1>13. Does(c, View(d)) = [View(d) EXCEPT !.endpoints[s].token = token]
    BY <1>3 DEF Does
<1>14. [View(d) EXCEPT !.endpoints[s].token = token] = [View(d) EXCEPT !.endpoints[s] = EndpointOf(row)]
    BY <1>9, <1>11
<1> QED
    BY <1>3, <1>6, <1>10, <1>11, <1>13, <1>14 DEF Went, Passes, e, c

\* Another row for a card takes the place of the one there is; so does none.
WithFailure(d, k, new) == [d EXCEPT !.failures = (@ \ FailureRows(d, k)) \cup new]

\* Replacing the row of one key by at most one new row.
LEMMA FailureSet ==
    ASSUME NEW d, Keyed(d), NEW k \in Key, NEW new, new \subseteq FailureTable,
           \A r \in new : new = {r} /\ r.key = k
    PROVE  /\ Keyed(WithFailure(d, k, new))
           /\ \A r \in new : View(WithFailure(d, k, new)) = [View(d) EXCEPT !.failures[k] = FailureOf(r)]
           /\ new = {} => View(WithFailure(d, k, new)) = [View(d) EXCEPT !.failures[k] = None]
<1> DEFINE e == WithFailure(d, k, new)
<1>1. d \in Rows(Token) /\ d.failures \subseteq FailureTable
    BY DEF Keyed, Rows
<1>2. e.failures = (d.failures \ FailureRows(d, k)) \cup new /\ e \in Rows(Token)
    BY <1>1 DEF Rows, WithFailure
<1>3. /\ e.contacts = d.contacts /\ e.endpoints = d.endpoints /\ e.skips = d.skips
      /\ e.conflicts = d.conflicts /\ e.pending = d.pending
    BY <1>1 DEF Rows, WithFailure
<1> HIDE DEF e
<1>4. \A r \in e.failures : r \in new \/ (r \in d.failures /\ r.key # k)
    BY <1>2 DEF FailureRows
<1>5. Keyed(e)
    BY <1>2, <1>3, <1>4 DEF Keyed
<1>6. Failures(e) = [Failures(d) EXCEPT ![k] = Failures(e)[k]]
    <2>1. ASSUME NEW q \in Key, q # k
          PROVE  Failures(e)[q] = Failures(d)[q]
        <3>1. CASE FailureRows(d, q) # {}
            <4>1. PICK r \in d.failures : r.key = q
                BY <3>1 DEF FailureRows
            <4>2. r \in e.failures
                BY <1>2, <2>1, <4>1 DEF FailureRows
            <4>3. Failures(e)[q] = FailureOf(r) /\ Failures(d)[q] = FailureOf(r)
                BY <1>5, <4>1, <4>2, FailureIs
            <4> QED
                BY <4>3
        <3>2. CASE FailureRows(d, q) = {}
            <4>1. FailureRows(e, q) = {}
                BY <1>4, <2>1, <3>2 DEF FailureRows
            <4>2. Failures(e)[q] = None /\ Failures(d)[q] = None
                BY <1>5, <3>2, <4>1, FailuresAre
            <4> QED
                BY <4>2
        <3> QED
            BY <3>1, <3>2
    <2>2. Failures(d) = [q \in Key |-> Failures(d)[q]] /\ Failures(e) = [q \in Key |-> Failures(e)[q]]
        BY DEF Failures
    <2> QED
        BY <2>1, <2>2
<1>7. View(e) = [View(d) EXCEPT !["failures"] = View(e)["failures"]]
    BY <1>3, OnlyOne DEF Only, TableNames
<1>8. View(d).failures = Failures(d) /\ View(e).failures = Failures(e)
    BY DEF View
<1>9. View(e) = [View(d) EXCEPT !.failures[k] = Failures(e)[k]]
    BY <1>6, <1>7, <1>8
<1>10. ASSUME NEW r \in new
       PROVE  Failures(e)[k] = FailureOf(r)
    BY <1>2, <1>5, FailureIs
<1>11. ASSUME new = {}
       PROVE  Failures(e)[k] = None
    <2>1. FailureRows(e, k) = {}
        BY <1>4, <1>11 DEF FailureRows
    <2> QED
        BY <1>5, <2>1, FailuresAre
<1> QED
    BY <1>5, <1>9, <1>10, <1>11 DEF e

\* record_failure starts the count of a key again when the ETag moved, else adds one.
LEMMA FailureWent ==
    ASSUME NEW d, Keyed(d), NEW k \in Key, NEW etag \in Etag \cup {None}
    PROVE  /\ RecordFailure(d, k, etag).error = None
           /\ Went([call |-> "record_failure", key |-> k, etag |-> etag], d, RecordFailure(d, k, etag).rows)
<1> DEFINE c == [call |-> "record_failure", key |-> k, etag |-> etag]
           rs == FailureRows(d, k)
           again == {r \in rs : r.etag = etag}
           attempts == IF again = {} THEN 1 ELSE 1 + (CHOOSE r \in again : TRUE).attempts
           row == FailureRow(k, etag, attempts)
           e == RecordFailure(d, k, etag).rows
<1>1. RecordFailure(d, k, etag).error = None /\ e = [d EXCEPT !.failures = (@ \ rs) \cup {row}]
    BY DEF RecordFailure, Done
<1>2. c.call = "record_failure" /\ c.key = k /\ c.etag = etag
    OBVIOUS
<1> HIDE DEF c, e
<1>3. attempts \in Nat \ {0} /\ Failure(Failures(d)[k], etag) = [etag |-> etag, attempts |-> attempts]
    <2>1. CASE rs = {}
        <3>1. Failures(d)[k] = None
            BY <2>1, FailuresAre
        <3> QED
            BY <2>1, <3>1 DEF Failure
    <2>2. CASE rs # {}
        <3>1. PICK r \in d.failures : r.key = k
            BY <2>2 DEF FailureRows
        <3>2. /\ Failures(d)[k] # None /\ Failures(d)[k].etag = r.etag /\ Failures(d)[k].attempts = r.attempts
              /\ r.attempts \in Nat \ {0} /\ rs = {r}
            BY <3>1, FailureIs
        <3>3. again = IF r.etag = etag THEN {r} ELSE {}
            BY <3>2
        <3>4. attempts = IF r.etag = etag THEN r.attempts + 1 ELSE 1
            <4>1. CASE r.etag = etag
                <5>1. again = {r}
                    BY <3>3, <4>1
                <5> HIDE DEF again
                <5> QED
                    BY <3>2, <4>1, <5>1
            <4>2. CASE r.etag # etag
                BY <3>3, <4>2
            <4> QED
                BY <4>1, <4>2
        <3> HIDE DEF attempts
        <3> QED
            BY <3>2, <3>4 DEF Failure
    <2> QED
        BY <2>1, <2>2
<1> HIDE DEF attempts
<1>4. row \in FailureTable /\ row.key = k /\ FailureOf(row) = [etag |-> etag, attempts |-> attempts]
    BY <1>3 DEF FailureRow, FailureTable, FailureOf
<1> HIDE DEF row
<1>5. Keyed(e) /\ View(e) = [View(d) EXCEPT !.failures[k] = FailureOf(row)]
    <2> DEFINE new == {row}
    <2>1. new \subseteq FailureTable /\ \A r \in new : new = {r} /\ r.key = k
        BY <1>4
    <2>2. row \in new /\ e = WithFailure(d, k, new)
        BY <1>1 DEF WithFailure
    <2> HIDE DEF new
    <2>3. Keyed(e) /\ \A r \in new : View(e) = [View(d) EXCEPT !.failures[k] = FailureOf(r)]
        BY <2>1, <2>2, FailureSet
    <2> QED
        BY <2>2, <2>3
<1>6. View(d).failures = Failures(d)
    BY DEF View
<1>7. Does(c, View(d)) = [View(d) EXCEPT !.failures[k] = FailureOf(row)]
    BY <1>2, <1>3, <1>4, <1>6 DEF Does
<1> QED
    BY <1>1, <1>2, <1>5, <1>7 DEF Went, Passes, c, e

\* clear removes the row of one key.
LEMMA ClearWent ==
    ASSUME NEW d, Keyed(d), NEW k \in Key
    PROVE  /\ ClearFailure(d, k).error = None
           /\ Went([call |-> "clear", key |-> k], d, ClearFailure(d, k).rows)
<1> DEFINE c == [call |-> "clear", key |-> k]
           e == ClearFailure(d, k).rows
<1>1. ClearFailure(d, k).error = None /\ e = [d EXCEPT !.failures = @ \ FailureRows(d, k)]
    BY DEF ClearFailure, Done
<1>2. c.call = "clear" /\ c.key = k
    OBVIOUS
<1> HIDE DEF c, e
<1> DEFINE new == {}
<1>3. e = WithFailure(d, k, new)
    BY <1>1 DEF WithFailure
<1>4. new = {} /\ new \subseteq FailureTable /\ \A r \in new : new = {r} /\ r.key = k
    OBVIOUS
<1> HIDE DEF new
<1>5. Keyed(e) /\ View(e) = [View(d) EXCEPT !.failures[k] = None]
    BY <1>3, <1>4, FailureSet
<1>6. Does(c, View(d)) = [View(d) EXCEPT !.failures[k] = None]
    BY <1>2 DEF Does
<1> QED
    BY <1>1, <1>2, <1>5, <1>6 DEF Went, Passes, c, e

\* A sequence with one more element at its end.
LEMMA Appended ==
    ASSUME NEW S, NEW s \in Seq(S), NEW x \in S, NEW n \in Nat, Len(s) = n,
           NEW m, m = n + 1, NEW t \in [1..m -> S], \A i \in 1..n : t[i] = s[i], t[m] = x
    PROVE  t = Append(s, x)
<1>1. m \in Nat
    OBVIOUS
<1>2. t \in Seq(S) /\ Len(t) = n + 1
    BY <1>1
<1>3. /\ Append(s, x) \in Seq(S) /\ Len(Append(s, x)) = Len(t)
      /\ \A i \in 1..n : Append(s, x)[i] = s[i] /\ Append(s, x)[n + 1] = x
    BY <1>2, AppendProperties
<1>4. ASSUME NEW i \in 1..Len(t)
      PROVE  t[i] = Append(s, x)[i]
    <2>1. CASE i = n + 1
        BY <1>3, <2>1
    <2>2. CASE i \in 1..n
        BY <1>3, <2>2
    <2> QED
        BY <1>2, <2>1, <2>2
<1> QED
    BY <1>2, <1>3, <1>4, SeqEqual

\* Rows in the order of their ids, and one more at the end.
Listing(rs) == [i \in 1..Cardinality(rs) |-> Nth(rs, i).uid]

\* A row with the greatest id is the last of the list.
LEMMA ListAppended ==
    ASSUME NEW rs \in SUBSET IdTable, Ordered(rs), NEW row \in IdTable, \A r \in rs : r.id < row.id
    PROVE  Ordered(rs \cup {row}) /\ Listing(rs \cup {row}) = Append(Listing(rs), row.uid)
<1> DEFINE n == Cardinality(rs)
           m == n + 1
           s == Listing(rs)
           t == Listing(rs \cup {row})
           more == rs \cup {row}
<1>1. row.id \in Nat /\ row.uid \in Uid
    BY DEF IdTable
<1>2. /\ Ordered(more) /\ Cardinality(more) = n + 1
      /\ \A i \in 1..n : Nth(more, i) = Nth(rs, i)
      /\ Nth(more, n + 1) = row
    BY <1>1, AddedIsLast
<1>3. n \in Nat
    BY FS_CardinalityType DEF Ordered
<1>4. \A i \in 1..n : Nth(rs, i) \in rs
    BY NthIsRanked
<1>5. s = [i \in 1..n |-> Nth(rs, i).uid] /\ t = [i \in 1..n + 1 |-> Nth(more, i).uid]
    BY <1>2 DEF Listing
<1> HIDE DEF n, more, s, t
<1>6. \A i \in 1..n : s[i] \in Uid /\ s[i] = Nth(rs, i).uid
    BY <1>4, <1>5 DEF IdTable
<1>7. s \in [1..n -> Uid]
    BY <1>5, <1>6
<1>8. s \in Seq(Uid) /\ Len(s) = n
    BY <1>3, <1>7
<1>9. ASSUME NEW i \in 1..n
      PROVE  i \in 1..n + 1 /\ t[i] = s[i]
    <2>1. i \in 1..n + 1
        BY <1>3
    <2>2. t[i] = Nth(more, i).uid
        BY <1>5, <2>1
    <2> QED
        BY <1>2, <1>6, <2>1, <2>2
<1>10. n + 1 \in 1..n + 1 /\ t[n + 1] = row.uid
    <2>1. n + 1 \in 1..n + 1
        BY <1>3
    <2> QED
        BY <1>2, <1>5, <2>1
<1>11. \A i \in 1..n + 1 : t[i] \in Uid
    <2> TAKE i \in 1..n + 1
    <2>1. i \in 1..n \/ i = n + 1
        BY <1>3
    <2> QED
        BY <1>1, <1>6, <1>9, <1>10, <2>1
<1>12. t \in [1..n + 1 -> Uid]
    BY <1>5, <1>11
<1>13. t = Append(s, row.uid)
    <2>1. m = n + 1 /\ t \in [1..m -> Uid] /\ t[m] = row.uid /\ \A i \in 1..n : t[i] = s[i]
        BY <1>9, <1>10, <1>12
    <2> HIDE DEF m
    <2> QED
        BY <1>1, <1>3, <1>8, <2>1, Appended
<1> QED
    BY <1>2, <1>13 DEF more, s, t

\* Adding a conflict appends it.
LEMMA ConflictWent ==
    ASSUME NEW d, Keyed(d), NEW u \in Uid
    PROVE  /\ AddConflict(d, u).error = None
           /\ Went([call |-> "conflict", uid |-> u], d, AddConflict(d, u).rows)
<1> DEFINE c == [call |-> "conflict", uid |-> u]
           rs == d.conflicts
           row == ConflictRow(NextId(rs), u)
           e == AddConflict(d, u).rows
<1>1. AddConflict(d, u).error = None /\ e = [d EXCEPT !.conflicts = @ \cup {row}]
    BY DEF AddConflict, Done
<1>2. c.call = "conflict" /\ c.uid = u
    OBVIOUS
<1>3. d \in Rows(Token) /\ rs \subseteq IdTable /\ Ordered(rs)
    BY DEF Keyed, Rows
<1>4. NextId(rs) \in Nat /\ \A r \in rs : r.id < NextId(rs)
    BY <1>3, NextIdIsLarger DEF Ordered
<1>5. row \in IdTable /\ row.id = NextId(rs) /\ row.uid = u
    BY <1>4 DEF ConflictRow, IdTable
<1> HIDE DEF c, e, row
<1>6. e.conflicts = rs \cup {row} /\ e \in Rows(Token)
    BY <1>1, <1>3, <1>5 DEF Rows
<1>7. /\ e.contacts = d.contacts /\ e.endpoints = d.endpoints /\ e.skips = d.skips
      /\ e.failures = d.failures /\ e.pending = d.pending
    BY <1>1, <1>3 DEF Rows
<1>8. Conflicts(d) = Listing(rs)
    BY DEF Conflicts, ConflictOf, Listing
<1>9. Conflicts(e) = Listing(rs \cup {row})
    BY <1>6 DEF Conflicts, ConflictOf, Listing
<1>10. Ordered(rs \cup {row}) /\ Conflicts(e) = Append(Conflicts(d), u)
    <2> HIDE DEF rs
    <2> QED
        BY <1>3, <1>4, <1>5, <1>8, <1>9, ListAppended
<1>11. Keyed(e)
    BY <1>6, <1>7, <1>10 DEF Keyed
<1>12. View(e) = [View(d) EXCEPT !["conflicts"] = View(e)["conflicts"]]
    BY <1>7, OnlyOne DEF Only, TableNames
<1>13. View(d).conflicts = Conflicts(d) /\ View(e).conflicts = Conflicts(e)
    BY DEF View
<1>14. View(e) = Does(c, View(d))
    BY <1>2, <1>10, <1>12, <1>13 DEF Does
<1> QED
    BY <1>1, <1>2, <1>11, <1>14 DEF Went, Passes, c, e

\* A list of rows is a sequence with one entry for each.
LEMMA ListingIs ==
    ASSUME NEW rs \in SUBSET IdTable, Ordered(rs)
    PROVE  /\ Listing(rs) \in Seq(Uid) /\ Len(Listing(rs)) = Cardinality(rs) /\ Cardinality(rs) \in Nat
           /\ DOMAIN Listing(rs) = 1..Cardinality(rs)
<1> DEFINE n == Cardinality(rs)
<1>1. n \in Nat
    BY FS_CardinalityType DEF Ordered
<1>2. \A i \in 1..n : Nth(rs, i) \in rs
    BY NthIsRanked
<1>3. Listing(rs) = [i \in 1..n |-> Nth(rs, i).uid]
    BY DEF Listing
<1> HIDE DEF n
<1>4. Listing(rs) \in [1..n -> Uid]
    BY <1>2, <1>3 DEF IdTable
<1>5. Listing(rs) \in Seq(Uid) /\ Len(Listing(rs)) = n /\ DOMAIN Listing(rs) = 1..n
    BY <1>1, <1>4
<1> QED
    BY <1>1, <1>5 DEF n

\* Without a contact's row the others keep their order.
LEMMA ListRemoved ==
    ASSUME NEW rs \in SUBSET IdTable, Ordered(rs), \A r, q \in rs : r.uid = q.uid => r = q, NEW u \in Uid
    PROVE  LET rest == {r \in rs : r.uid # u} IN
           Ordered(rest) /\ Listing(rest) = Without(Listing(rs), u)
<1> DEFINE rest == {r \in rs : r.uid # u}
           n == Cardinality(rs)
           L == Listing(rs)
           entries == {i \in DOMAIN L : L[i] = u}
<1>1. L \in Seq(Uid) /\ Len(L) = n /\ DOMAIN L = 1..n /\ n \in Nat
    BY ListingIs
<1>2. \A i \in 1..n : L[i] = Nth(rs, i).uid /\ Nth(rs, i) \in rs /\ Rank(rs, Nth(rs, i)) = i - 1
    BY NthIsRanked DEF Listing
<1>3. CASE rest = rs
    <2>1. entries = {}
        <3> HIDE DEF n, L
        <3> QED
            BY <1>1, <1>2, <1>3
    <2>2. Without(L, u) = L
        <3> HIDE DEF L
        <3> QED
            BY <2>1 DEF Without
    <2>3. Ordered(rest) /\ Listing(rest) = Without(L, u)
        <3> HIDE DEF rest
        <3> QED
            BY <1>3, <2>2
    <2> QED
        BY <2>3
<1>4. CASE rest # rs
    <2>1. PICK row \in rs : row.uid = u
        BY <1>4
    <2>2. rest = rs \ {row}
        BY <2>1
    <2> DEFINE k == Rank(rs, row) + 1
    <2>3. /\ Ordered(rest) /\ Cardinality(rest) = n - 1 /\ k \in 1..n /\ Nth(rs, k) = row
          /\ \A i \in 1..(n - 1) : Nth(rest, i) = IF i < k THEN Nth(rs, i) ELSE Nth(rs, i + 1)
        <3> HIDE DEF rest
        <3> QED
            BY <2>2, RemovedIsSkipped
    <2>4. Listing(rest) = [i \in 1..n - 1 |-> Nth(rest, i).uid]
        BY <2>3 DEF Listing
    <2> HIDE DEF n, L, rest
    <2>5. entries = {k}
        <3>1. k \in entries
            BY <1>1, <1>2, <2>1, <2>3
        <3>2. ASSUME NEW i \in entries
              PROVE  i = k
            <4>1. i \in 1..n /\ Nth(rs, i).uid = u
                BY <1>1, <1>2
            <4>2. Nth(rs, i) = row /\ Rank(rs, row) = i - 1
                BY <1>2, <2>1, <4>1
            <4> QED
                BY <4>1, <4>2
        <3> HIDE DEF k, entries
        <3> QED
            BY <3>1, <3>2
    <2> HIDE DEF k
    <2>6. Without(L, u) = [i \in 1..Len(L) - 1 |-> IF i < k THEN L[i] ELSE L[i + 1]]
        <3>1. (CHOOSE i \in {k} : TRUE) = k
            OBVIOUS
        <3> QED
            BY <2>5, <3>1 DEF Without
    <2>7. ASSUME NEW i \in 1..n - 1
          PROVE  Nth(rest, i).uid = IF i < k THEN L[i] ELSE L[i + 1]
        <3>1. i \in 1..n /\ i + 1 \in 1..n
            BY <1>1
        <3>2. L[i] = Nth(rs, i).uid /\ L[i + 1] = Nth(rs, i + 1).uid
            BY <1>2, <3>1
        <3> QED
            BY <2>3, <3>2
    <2>8. Listing(rest) = [i \in 1..n - 1 |-> IF i < k THEN L[i] ELSE L[i + 1]]
        BY <2>4, <2>7
    <2>9. Listing(rest) = Without(L, u)
        BY <1>1, <2>6, <2>8
    <2> QED
        BY <2>3, <2>9 DEF rest, L
<1> QED
    BY <1>3, <1>4

\* Removing a pending row removes its entry and keeps the order.
LEMMA PendingRemoved ==
    ASSUME NEW d, Keyed(d), NEW u \in Uid
    PROVE  LET rest == {r \in d.pending : r.uid # u} IN
           /\ rest \in SUBSET IdTable /\ Ordered(rest)
           /\ \A r, q \in rest : r.uid = q.uid => r = q
           /\ Listing(rest) = Without(Pending(d), u)
<1>1. d.pending \in SUBSET IdTable /\ Ordered(d.pending) /\ \A r, q \in d.pending : r.uid = q.uid => r = q
    BY DEF Keyed, Rows
<1>2. Pending(d) = Listing(d.pending)
    BY DEF Pending, PendingOf, Listing
<1> DEFINE rest == {r \in d.pending : r.uid # u}
<1>3. Ordered(rest) /\ Listing(rest) = Without(Listing(d.pending), u)
    BY <1>1, ListRemoved
<1> QED
    BY <1>1, <1>2, <1>3

\* Replacing the pending table.
LEMMA PendingSet ==
    ASSUME NEW d, Keyed(d), NEW new \in SUBSET IdTable, Ordered(new),
           \A r, q \in new : r.uid = q.uid => r = q
    PROVE  Keyed([d EXCEPT !.pending = new]) /\ View([d EXCEPT !.pending = new]) = [View(d) EXCEPT !.pending = Listing(new)]
<1> DEFINE e == [d EXCEPT !.pending = new]
<1>1. d \in Rows(Token)
    BY DEF Keyed
<1>2. /\ e \in Rows(Token) /\ e.pending = new
      /\ e.contacts = d.contacts /\ e.endpoints = d.endpoints /\ e.skips = d.skips
      /\ e.failures = d.failures /\ e.conflicts = d.conflicts
    BY <1>1 DEF Rows
<1> HIDE DEF e
<1>3. Keyed(e)
    BY <1>2 DEF Keyed
<1>4. View(e) = [View(d) EXCEPT !["pending"] = View(e)["pending"]]
    BY <1>2, OnlyOne DEF Only, TableNames
<1>5. View(e).pending = Listing(new)
    BY <1>2 DEF View, Pending, PendingOf, Listing
<1> QED
    BY <1>3, <1>4, <1>5 DEF e

\* delete_pending removes the entry.
LEMMA DeletePendingWent ==
    ASSUME NEW d, Keyed(d), NEW u \in Uid
    PROVE  /\ DeletePending(d, u).error = None
           /\ Went([call |-> "delete_pending", uid |-> u], d, DeletePending(d, u).rows)
<1> DEFINE c == [call |-> "delete_pending", uid |-> u]
           rest == {r \in d.pending : r.uid # u}
           e == DeletePending(d, u).rows
<1>1. DeletePending(d, u).error = None /\ e = [d EXCEPT !.pending = rest]
    BY DEF DeletePending, Done
<1>2. c.call = "delete_pending" /\ c.uid = u
    OBVIOUS
<1>3. /\ rest \in SUBSET IdTable /\ Ordered(rest)
      /\ \A r, q \in rest : r.uid = q.uid => r = q
      /\ Listing(rest) = Without(Pending(d), u)
    BY PendingRemoved
<1> HIDE DEF c, e, rest
<1>4. Keyed(e) /\ View(e) = [View(d) EXCEPT !.pending = Listing(rest)]
    BY <1>1, <1>3, PendingSet
<1>5. View(d).pending = Pending(d)
    BY DEF View
<1>6. View(e) = Does(c, View(d))
    BY <1>2, <1>3, <1>4, <1>5 DEF Does
<1> QED
    BY <1>1, <1>2, <1>4, <1>6 DEF Went, Passes, c, e

\* upsert_pending removes the entry and appends it again.
LEMMA UpsertPendingWent ==
    ASSUME NEW d, Keyed(d), NEW u \in Uid
    PROVE  /\ UpsertPending(d, u).error = None
           /\ Went([call |-> "upsert_pending", uid |-> u], d, UpsertPending(d, u).rows)
<1> DEFINE c == [call |-> "upsert_pending", uid |-> u]
           rest == {r \in d.pending : r.uid # u}
           row == PendingRow(NextId(d.pending), u)
           new == rest \cup {row}
           e == UpsertPending(d, u).rows
<1>1. UpsertPending(d, u).error = None /\ e = [d EXCEPT !.pending = new]
    BY DEF UpsertPending, Done
<1>2. c.call = "upsert_pending" /\ c.uid = u
    OBVIOUS
<1>3. /\ rest \in SUBSET IdTable /\ Ordered(rest)
      /\ \A r, q \in rest : r.uid = q.uid => r = q
      /\ Listing(rest) = Without(Pending(d), u)
    BY PendingRemoved
<1>4. NextId(d.pending) \in Nat /\ \A r \in d.pending : r.id < NextId(d.pending)
    BY NextIdIsLarger DEF Keyed, Ordered
<1>5. row \in IdTable /\ row.id = NextId(d.pending) /\ row.uid = u
    BY <1>4 DEF PendingRow, IdTable
<1>6. \A r \in rest : r.id < row.id /\ r.uid # u
    BY <1>4, <1>5
<1> HIDE DEF c, e, rest, row
<1>7. Ordered(new) /\ Listing(new) = Append(Listing(rest), u)
    BY <1>3, <1>5, <1>6, ListAppended
<1>8. new \in SUBSET IdTable /\ \A r, q \in new : r.uid = q.uid => r = q
    BY <1>3, <1>5, <1>6
<1> HIDE DEF new
<1>9. Keyed(e) /\ View(e) = [View(d) EXCEPT !.pending = Listing(new)]
    BY <1>1, <1>7, <1>8, PendingSet
<1>10. View(d).pending = Pending(d)
    BY DEF View
<1>11. View(e) = Does(c, View(d))
    BY <1>2, <1>3, <1>7, <1>9, <1>10 DEF Does
<1> QED
    BY <1>1, <1>2, <1>9, <1>11 DEF Went, Passes, c, e

\* replace_all leaves exactly the given skips.
LEMMA SkipsWent ==
    ASSUME NEW d, Keyed(d), NEW skips \in SUBSET Key
    PROVE  /\ ReplaceSkips(d, skips).error = None
           /\ Went([call |-> "replace_all", skips |-> skips], d, ReplaceSkips(d, skips).rows)
<1> DEFINE c == [call |-> "replace_all", skips |-> skips]
           new == {SkipRow(k) : k \in skips}
           e == ReplaceSkips(d, skips).rows
<1>1. ReplaceSkips(d, skips).error = None /\ e = [d EXCEPT !.skips = new]
    BY DEF ReplaceSkips, Done
<1>2. c.call = "replace_all" /\ c.skips = skips
    OBVIOUS
<1>3. new \subseteq [key : Key] /\ {SkipOf(r) : r \in new} = skips
    <2>1. \A k \in skips : SkipRow(k) \in [key : Key] /\ SkipOf(SkipRow(k)) = k
        BY DEF SkipRow, SkipOf
    <2> QED
        BY <2>1
<1>4. d \in Rows(Token)
    BY DEF Keyed
<1> HIDE DEF c, e, new
<1>5. /\ e \in Rows(Token) /\ e.skips = new
      /\ e.contacts = d.contacts /\ e.endpoints = d.endpoints /\ e.pending = d.pending
      /\ e.failures = d.failures /\ e.conflicts = d.conflicts
    BY <1>1, <1>3, <1>4 DEF Rows
<1>6. Keyed(e)
    BY <1>5 DEF Keyed
<1>7. View(e) = [View(d) EXCEPT !["skips"] = View(e)["skips"]]
    BY <1>5, OnlyOne DEF Only, TableNames
<1>8. View(e).skips = skips
    BY <1>3, <1>5 DEF View, Skips
<1>9. View(e) = Does(c, View(d))
    BY <1>2, <1>7, <1>8 DEF Does
<1> QED
    BY <1>1, <1>2, <1>6, <1>9 DEF Went, Passes, c, e

\* delete_all empties one table.
LEMMA DeleteAllWent ==
    ASSUME NEW d, Keyed(d), NEW t \in {"contacts", "endpoints", "failures", "skips"}
    PROVE  /\ DeleteAll(d, t).error = None
           /\ Went([call |-> "delete_all", table |-> t], d, DeleteAll(d, t).rows)
<1> DEFINE c == [call |-> "delete_all", table |-> t]
           e == DeleteAll(d, t).rows
<1>1. DeleteAll(d, t).error = None /\ e = [d EXCEPT ![t] = {}]
    BY DEF DeleteAll, Done
<1>2. c.call = "delete_all" /\ c.table = t
    OBVIOUS
<1>3. d \in Rows(Token)
    BY DEF Keyed
<1> HIDE DEF c, e
<1>4. e \in Rows(Token) /\ e[t] = {} /\ \A x \in TableNames \ {t} : e[x] = d[x]
    BY <1>1, <1>3 DEF Rows, TableNames
<1>5. Keyed(e)
    <2>1. IsFiniteSet({})
        BY FS_EmptySet
    <2>2. \A x \in TableNames : e[x] = d[x] \/ e[x] = {}
        BY <1>4
    <2>3. /\ e.contacts = d.contacts \/ e.contacts = {}
          /\ e.endpoints = d.endpoints \/ e.endpoints = {}
          /\ e.failures = d.failures \/ e.failures = {}
          /\ e.conflicts = d.conflicts /\ e.pending = d.pending
        BY <1>4, <2>2 DEF TableNames
    <2>4. Ordered({})
        BY <2>1 DEF Ordered
    <2>5. Ordered(e.contacts) /\ \A r, q \in e.contacts : r.uid = q.uid => r = q
        BY <2>3, <2>4 DEF Keyed
    <2>6. \A r, q \in e.endpoints : r.side = q.side => r = q
        BY <2>3 DEF Keyed
    <2>7. \A r, q \in e.failures : r.key = q.key => r = q
        BY <2>3 DEF Keyed
    <2> QED
        BY <1>4, <2>3, <2>5, <2>6, <2>7 DEF Keyed
<1>6. View(e) = [View(d) EXCEPT ![t] = View(e)[t]]
    BY <1>4, OnlyOne DEF Only, TableNames
<1>7. View(e)[t] = Empty[t]
    <2>1. CASE t = "contacts"
        BY <1>4, <2>1 DEF View, Contacts, One, Empty
    <2>2. CASE t = "endpoints"
        BY <1>4, <2>2 DEF View, Endpoints, EndpointRows, One, Empty
    <2>3. CASE t = "failures"
        BY <1>4, <2>3 DEF View, Failures, FailureRows, One, Empty
    <2>4. CASE t = "skips"
        BY <1>4, <2>4 DEF View, Skips, Empty
    <2> QED
        BY <2>1, <2>2, <2>3, <2>4
<1>8. View(e) = Does(c, View(d))
    BY <1>2, <1>6, <1>7 DEF Does
<1> QED
    BY <1>1, <1>2, <1>5, <1>8 DEF Went, Passes, c, e

\* A call that succeeds does what the ports say of it.
LEMMA CallWent ==
    ASSUME NEW d, Keyed(d), NEW c \in AnyCall, NEW found,
           c.call = "write" => found = FindByUid(d, c.uid).found,
           Call(c, d, found).error = None
    PROVE  Went(c, d, Call(c, d, found).rows)
<1>1. CASE c.call \in {"find_by_uid", "list"}
    <2>1. Call(c, d, found).rows = d
        BY <1>1 DEF Call, FindByUid, Done
    <2>2. Does(c, View(d)) = View(d)
        BY <1>1 DEF Does
    <2> QED
        BY <1>1, <2>1, <2>2 DEF Went, Passes
<1>2. CASE c.call = "write"
    <2>1. c.uid \in Uid /\ c.at \in ContactState /\ c = [call |-> "write", uid |-> c.uid, at |-> c.at]
        BY <1>2 DEF AnyCall
    <2>2. Call(c, d, found) = Write(d, FindByUid(d, c.uid).found, c.uid, c.at)
        BY <1>2 DEF Call
    <2>3. Write(d, FindByUid(d, c.uid).found, c.uid, c.at).error = None
        BY <2>2
    <2>4. Went([call |-> "write", uid |-> c.uid, at |-> c.at], d, Write(d, FindByUid(d, c.uid).found, c.uid, c.at).rows)
        BY <2>1, <2>3, WriteWent
    <2> QED
        BY <2>1, <2>2, <2>4
<1>3. CASE c.call = "delete_by_uid"
    <2>1. c.uid \in Uid /\ c = [call |-> "delete_by_uid", uid |-> c.uid]
        BY <1>3 DEF AnyCall
    <2>2. Call(c, d, found) = DeleteByUid(d, c.uid)
        BY <1>3 DEF Call
    <2>3. Went([call |-> "delete_by_uid", uid |-> c.uid], d, DeleteByUid(d, c.uid).rows)
        BY <2>1, <2>2, DeleteWent
    <2> QED
        BY <2>1, <2>2, <2>3
<1>4. CASE c.call = "upsert_discovery"
    <2>1. c.side \in Side /\ c.url \in Url /\ c = [call |-> "upsert_discovery", side |-> c.side, url |-> c.url]
        BY <1>4 DEF AnyCall
    <2>2. Call(c, d, found) = UpsertDiscovery(d, c.side, c.url)
        BY <1>4 DEF Call
    <2> QED
        BY <2>1, <2>2, DiscoveryWent
<1>5. CASE c.call = "set_sync_token"
    <2>1. c.side \in Side /\ c.token \in Token /\ c = [call |-> "set_sync_token", side |-> c.side, token |-> c.token]
        BY <1>5 DEF AnyCall
    <2>2. Call(c, d, found) = SetSyncToken(d, c.side, c.token)
        BY <1>5 DEF Call
    <2> QED
        BY <2>1, <2>2, TokenWent
<1>6. CASE c.call = "record_failure"
    <2>1. /\ c.key \in Key /\ c.etag \in Etag \cup {None}
          /\ c = [call |-> "record_failure", key |-> c.key, etag |-> c.etag]
        BY <1>6 DEF AnyCall
    <2>2. Call(c, d, found) = RecordFailure(d, c.key, c.etag)
        BY <1>6 DEF Call
    <2> QED
        BY <2>1, <2>2, FailureWent
<1>7. CASE c.call = "clear"
    <2>1. c.key \in Key /\ c = [call |-> "clear", key |-> c.key]
        BY <1>7 DEF AnyCall
    <2>2. Call(c, d, found) = ClearFailure(d, c.key)
        BY <1>7 DEF Call
    <2> QED
        BY <2>1, <2>2, ClearWent
<1>8. CASE c.call = "conflict"
    <2>1. c.uid \in Uid /\ c = [call |-> "conflict", uid |-> c.uid]
        BY <1>8 DEF AnyCall
    <2>2. Call(c, d, found) = AddConflict(d, c.uid)
        BY <1>8 DEF Call
    <2> QED
        BY <2>1, <2>2, ConflictWent
<1>9. CASE c.call = "delete_pending"
    <2>1. c.uid \in Uid /\ c = [call |-> "delete_pending", uid |-> c.uid]
        BY <1>9 DEF AnyCall
    <2>2. Call(c, d, found) = DeletePending(d, c.uid)
        BY <1>9 DEF Call
    <2> QED
        BY <2>1, <2>2, DeletePendingWent
<1>10. CASE c.call = "upsert_pending"
    <2>1. c.uid \in Uid /\ c = [call |-> "upsert_pending", uid |-> c.uid]
        BY <1>10 DEF AnyCall
    <2>2. Call(c, d, found) = UpsertPending(d, c.uid)
        BY <1>10 DEF Call
    <2> QED
        BY <2>1, <2>2, UpsertPendingWent
<1>11. CASE c.call = "replace_all"
    <2>1. c.skips \in SUBSET Key /\ c = [call |-> "replace_all", skips |-> c.skips]
        BY <1>11 DEF AnyCall
    <2>2. Call(c, d, found) = ReplaceSkips(d, c.skips)
        BY <1>11 DEF Call
    <2> QED
        BY <2>1, <2>2, SkipsWent
<1>12. CASE c.call = "delete_all"
    <2>1. /\ c.table \in {"contacts", "endpoints", "failures", "skips"}
          /\ c = [call |-> "delete_all", table |-> c.table]
        BY <1>12 DEF AnyCall
    <2>2. Call(c, d, found) = DeleteAll(d, c.table)
        BY <1>12 DEF Call
    <2> QED
        BY <2>1, <2>2, DeleteAllWent
<1>13. c.call \in {"find_by_uid", "list", "write", "delete_by_uid", "upsert_discovery", "set_sync_token",
                  "record_failure", "clear", "conflict", "delete_pending", "upsert_pending", "replace_all",
                  "delete_all"}
    BY DEF AnyCall
<1> QED
    BY <1>1, <1>2, <1>3, <1>4, <1>5, <1>6, <1>7, <1>8, <1>9, <1>10, <1>11, <1>12, <1>13

\* The errors a statement may come to.
LEMMA CallErrors ==
    ASSUME NEW d, NEW c \in AnyCall, NEW found
    PROVE  /\ Call(c, d, found).error \in {None, "unique", "NotFound", "Conflict"}
           /\ c.call \in {"find_by_uid", "list"} => Call(c, d, found).error = None /\ Call(c, d, found).rows = d
           /\ c.call = "list" => Call(c, d, found).found = d
           /\ c.call = "find_by_uid" => Call(c, d, found).found = FindByUid(d, c.uid).found
<1> DEFINE errors == {None, "unique", "NotFound", "Conflict"}
<1>1. \A row : Put(d, row).error \in errors
    BY DEF Put, Done, Error
<1>2. c.call = "write" => Call(c, d, found).error \in errors
    <2> SUFFICES ASSUME c.call = "write"
                 PROVE  Write(d, found, c.uid, c.at).error \in errors
        BY DEF Call
    <2>1. Add(d, c.uid, c.at).error \in errors
        BY <1>1 DEF Add
    <2>2. Update(d, found, c.at).error \in errors
        <3> DEFINE existing == CHOOSE r \in {r \in d.contacts : r.id = found.id} : TRUE
                   row == Saved([existing EXCEPT !.at = c.at])
        <3>1. Put(d, row).error \in errors
            BY <1>1
        <3>2. Update(d, found, c.at) \in {Error(d, "NotFound"), Error(d, "Conflict"), Put(d, row)}
            BY DEF Update
        <3> HIDE DEF row
        <3> QED
            BY <3>1, <3>2 DEF Error
    <2> QED
        BY <2>1, <2>2 DEF Write
<1>3. c.call = "delete_by_uid" => Call(c, d, found).error \in errors
    BY DEF Call, DeleteByUid, Done, Error
<1>4. c.call = "set_sync_token" => Call(c, d, found).error \in errors
    BY DEF Call, SetSyncToken, Done, Error
<1>5. c.call \notin {"write", "delete_by_uid", "set_sync_token"} => Call(c, d, found).error = None
    <2>1. c.call \in {"find_by_uid", "list", "write", "delete_by_uid", "upsert_discovery", "set_sync_token",
                     "record_failure", "clear", "conflict", "delete_pending", "upsert_pending", "replace_all",
                     "delete_all"}
        BY DEF AnyCall
    <2>2. c.call \in {"find_by_uid", "list", "upsert_discovery"} => Call(c, d, found).error = None
        BY DEF Call, FindByUid, Done, UpsertDiscovery
    <2>3. c.call \in {"record_failure", "clear"} => Call(c, d, found).error = None
        BY DEF Call, Done, RecordFailure, ClearFailure
    <2>4. c.call \in {"conflict", "delete_pending", "upsert_pending"} => Call(c, d, found).error = None
        BY DEF Call, Done, AddConflict, DeletePending, UpsertPending
    <2>5. c.call \in {"replace_all", "delete_all"} => Call(c, d, found).error = None
        BY DEF Call, Done, ReplaceSkips, DeleteAll
    <2> QED
        BY <2>1, <2>2, <2>3, <2>4, <2>5
<1>6. c.call \in {"find_by_uid", "list"} => Call(c, d, found).rows = d
    BY DEF Call, FindByUid, Done
<1>7. c.call = "list" => Call(c, d, found).found = d
    BY DEF Call, Done
<1>8. c.call = "find_by_uid" => Call(c, d, found).found = FindByUid(d, c.uid).found
    BY DEF Call
<1> QED
    BY <1>2, <1>3, <1>4, <1>5, <1>6, <1>7, <1>8

\* The empty tables are keyed.
LEMMA NoRowsKeyed == Keyed(NoRows) /\ View(NoRows) = Empty
<1>1. Ordered({})
    BY FS_EmptySet DEF Ordered
<1>2. NoRows \in Rows(Token)
    BY DEF NoRows, Rows
<1>3. Keyed(NoRows)
    BY <1>1, <1>2 DEF Keyed, NoRows
<1>4. Contacts(NoRows) = [u \in Uid |-> None]
    BY DEF Contacts, NoRows, One
<1>5. Endpoints(NoRows) = [s \in Side |-> None]
    BY DEF Endpoints, EndpointRows, NoRows, One
<1>6. Failures(NoRows) = [k \in Key |-> None]
    BY DEF Failures, FailureRows, NoRows, One
<1>7. Skips(NoRows) = {}
    BY DEF Skips, NoRows
<1>8. Cardinality({}) = 0
    BY FS_EmptySet
<1>9. Conflicts(NoRows) = << >> /\ Pending(NoRows) = << >>
    BY <1>8 DEF Conflicts, Pending, NoRows
<1> QED
    BY <1>3, <1>4, <1>5, <1>6, <1>7, <1>9 DEF View, Empty

(***************************************************************************)
(* The calls of a transaction, and what the tables are when only some of   *)
(* them are done.                                                          *)
(***************************************************************************)
OfUid(call, u) == [call |-> call, uid |-> u]
OfKey(k) == [call |-> "clear", key |-> k]
FailOf(x, k) == [call |-> "record_failure", key |-> k, etag |-> x.etag]
SetTokenOf(x, s) == [call |-> "set_sync_token", side |-> s, token |-> x.tokens[s]]
UpsertOf(x, s) == [call |-> "upsert_discovery", side |-> s, url |-> x.urls[s]]
DeleteOf(t) == [call |-> "delete_all", table |-> t]
WriteOf(x) == [call |-> "write", uid |-> x.uid, at |-> x.at]
ReplaceOf(x) == [call |-> "replace_all", skips |-> x.skips]
ResetTables == {"contacts", "endpoints", "failures", "skips"}

CallsOf(x) ==
    CASE x.tx = "load"      -> {[call |-> "list"]}
      [] x.tx = "discovery" -> {UpsertOf(x, s) : s \in Side}
      [] x.tx = "tokens"    -> {SetTokenOf(x, s) : s \in Side}
      [] x.tx = "reset"     -> {DeleteOf(t) : t \in ResetTables}
      [] x.tx = "save"      -> (IF x.recreated THEN {OfUid("delete_pending", x.uid)} ELSE {})
                               \cup {OfUid("find_by_uid", x.uid), WriteOf(x)} \cup {OfKey(k) : k \in x.clear}
      [] x.tx = "drop"      -> {OfUid("delete_by_uid", x.uid)} \cup {OfKey(k) : k \in x.clear}
      [] x.tx = "conflict"  -> {OfUid("conflict", x.uid)}
      [] x.tx = "journal"   -> {OfUid("upsert_pending", x.uid)}
      [] x.tx = "replayed"  -> {OfUid("delete_pending", x.uid)}
      [] x.tx = "fail"      -> {FailOf(x, k) : k \in x.keys}
      [] x.tx = "finish"    -> {ReplaceOf(x)} \cup {OfKey(k) : k \in x.clear} \cup {SetTokenOf(x, s) : s \in Side}

\* The tables when the calls cs of x are still to come.
HalfContacts(x, cs, t) ==
    CASE x.tx = "save" /\ WriteOf(x) \notin cs -> [t.contacts EXCEPT ![x.uid] = x.at]
      [] x.tx = "drop" /\ OfUid("delete_by_uid", x.uid) \notin cs -> [t.contacts EXCEPT ![x.uid] = None]
      [] x.tx = "reset" /\ DeleteOf("contacts") \notin cs -> Empty.contacts
      [] OTHER -> t.contacts

Discovered(endpoint, url) ==
    IF endpoint # None /\ endpoint.url = url THEN endpoint ELSE [url |-> url, token |-> None]

HalfEndpoints(x, cs, t) ==
    CASE x.tx = "discovery" ->
           [s \in Side |-> IF UpsertOf(x, s) \in cs THEN t.endpoints[s] ELSE Discovered(t.endpoints[s], x.urls[s])]
      [] x.tx \in {"tokens", "finish"} ->
           [s \in Side |-> IF SetTokenOf(x, s) \in cs THEN t.endpoints[s]
                           ELSE [t.endpoints[s] EXCEPT !.token = x.tokens[s]]]
      [] x.tx = "reset" /\ DeleteOf("endpoints") \notin cs -> Empty.endpoints
      [] OTHER -> t.endpoints

HalfFailures(x, cs, t) ==
    CASE x.tx \in {"save", "drop", "finish"} ->
           [k \in Key |-> IF k \in x.clear /\ OfKey(k) \notin cs THEN None ELSE t.failures[k]]
      [] x.tx = "fail" ->
           [k \in Key |-> IF k \in x.keys /\ FailOf(x, k) \notin cs THEN Failure(t.failures[k], x.etag) ELSE t.failures[k]]
      [] x.tx = "reset" /\ DeleteOf("failures") \notin cs -> Empty.failures
      [] OTHER -> t.failures

HalfSkips(x, cs, t) ==
    CASE x.tx = "finish" /\ ReplaceOf(x) \notin cs -> x.skips
      [] x.tx = "reset" /\ DeleteOf("skips") \notin cs -> Empty.skips
      [] OTHER -> t.skips

HalfConflicts(x, cs, t) ==
    IF x.tx = "conflict" /\ OfUid("conflict", x.uid) \notin cs THEN Append(t.conflicts, x.uid) ELSE t.conflicts

HalfPending(x, cs, t) ==
    CASE x.tx = "save" /\ x.recreated /\ OfUid("delete_pending", x.uid) \notin cs -> Without(t.pending, x.uid)
      [] x.tx = "replayed" /\ OfUid("delete_pending", x.uid) \notin cs -> Without(t.pending, x.uid)
      [] x.tx = "journal" /\ OfUid("upsert_pending", x.uid) \notin cs -> Append(Without(t.pending, x.uid), x.uid)
      [] OTHER -> t.pending

Half(x, cs, t) ==
    [contacts |-> HalfContacts(x, cs, t), endpoints |-> HalfEndpoints(x, cs, t), failures |-> HalfFailures(x, cs, t),
     skips |-> HalfSkips(x, cs, t), conflicts |-> HalfConflicts(x, cs, t), pending |-> HalfPending(x, cs, t)]

\* What the calls that are done have found to hold.
Passed(x, cs, t) ==
    /\ x.tx = "save" => WriteOf(x) \in cs \/ ~Taken(t, x.uid, x.at)
    /\ x.tx = "drop" => OfUid("delete_by_uid", x.uid) \in cs \/ t.contacts[x.uid] # None
    /\ x.tx \in {"tokens", "finish"} => \A s \in Side : SetTokenOf(x, s) \in cs \/ t.endpoints[s] # None

\* Tables that are what View makes of rows.
Tabular(t) ==
    /\ t = [k \in TableNames |-> t[k]]
    /\ t.contacts = [u \in Uid |-> t.contacts[u]]
    /\ t.endpoints = [s \in Side |-> t.endpoints[s]]
    /\ t.failures = [k \in Key |-> t.failures[k]]

\* A view has one field per table.
LEMMA ViewIsTabular == \A d : Tabular(View(d))
<1> TAKE d
<1>1. View(d) = [k \in TableNames |-> View(d)[k]]
    BY DEF View, TableNames
<1>2. View(d).contacts = [u \in Uid |-> View(d).contacts[u]]
    BY DEF View, Contacts
<1>3. View(d).endpoints = [s \in Side |-> View(d).endpoints[s]]
    BY DEF View, Endpoints
<1>4. View(d).failures = [k \in Key |-> View(d).failures[k]]
    BY DEF View, Failures
<1> QED
    BY <1>1, <1>2, <1>3, <1>4 DEF Tabular

\* Each call is of the transactions that make it.
Fits(c, x) ==
    /\ c.call = "list" => x.tx = "load"
    /\ c.call = "find_by_uid" => x.tx = "save" /\ c = OfUid("find_by_uid", x.uid)
    /\ c.call = "write" => x.tx = "save" /\ c = WriteOf(x)
    /\ c.call = "delete_by_uid" => x.tx = "drop" /\ c = OfUid("delete_by_uid", x.uid)
    /\ c.call = "upsert_discovery" => x.tx = "discovery" /\ c = UpsertOf(x, c.side)
    /\ c.call = "set_sync_token" => x.tx \in {"tokens", "finish"} /\ c = SetTokenOf(x, c.side)
    /\ c.call = "record_failure" => x.tx = "fail" /\ c.key \in x.keys /\ c = FailOf(x, c.key)
    /\ c.call = "clear" => x.tx \in {"save", "drop", "finish"} /\ c.key \in x.clear /\ c = OfKey(c.key)
    /\ c.call = "conflict" => x.tx = "conflict" /\ c = OfUid("conflict", x.uid)
    /\ c.call = "delete_pending" =>
         x.tx = "replayed" \/ (x.tx = "save" /\ x.recreated)
    /\ c.call = "delete_pending" => c = OfUid("delete_pending", x.uid)
    /\ c.call = "upsert_pending" => x.tx = "journal" /\ c = OfUid("upsert_pending", x.uid)
    /\ c.call = "replace_all" => x.tx = "finish" /\ c = ReplaceOf(x)
    /\ c.call = "delete_all" => x.tx = "reset" /\ c = DeleteOf(c.table)

\* The calls of a transaction are calls of the adapters, on its own rows.
LEMMA CallsFit ==
    ASSUME NEW x \in Transaction(Token), NEW c \in CallsOf(x)
    PROVE  c \in AnyCall /\ Fits(c, x)
<1>1. CASE x.tx = "load"
    <2>1. c = [call |-> "list"]
        BY <1>1 DEF CallsOf
    <2> QED
        BY <1>1, <2>1 DEF AnyCall, Fits
<1>2. CASE x.tx = "discovery"
    <2>1. PICK s \in Side : c = UpsertOf(x, s)
        BY <1>2 DEF CallsOf
    <2>2. x.urls \in [Side -> Url]
        BY <1>2 DEF Transaction, Operation
    <2>3. c.call = "upsert_discovery" /\ c.side = s
        BY <2>1 DEF UpsertOf
    <2>4. c \in AnyCall
        BY <2>1, <2>2 DEF UpsertOf, AnyCall
    <2> QED
        BY <1>2, <2>1, <2>3, <2>4 DEF Fits
<1>3. ASSUME x.tx \in {"tokens", "finish"}, NEW s \in Side, c = SetTokenOf(x, s)
      PROVE  c \in AnyCall /\ Fits(c, x)
    <2>1. x.tokens \in [Side -> Token]
        BY <1>3 DEF Transaction, Operation
    <2>2. c.call = "set_sync_token" /\ c.side = s
        BY <1>3 DEF SetTokenOf
    <2>3. c \in AnyCall
        BY <1>3, <2>1 DEF SetTokenOf, AnyCall
    <2> QED
        BY <1>3, <2>2, <2>3 DEF Fits
<1>4. CASE x.tx = "tokens"
    <2>1. PICK s \in Side : c = SetTokenOf(x, s)
        BY <1>4 DEF CallsOf
    <2> QED
        BY <1>3, <1>4, <2>1
<1>5. CASE x.tx = "reset"
    <2>1. PICK t \in ResetTables : c = DeleteOf(t)
        BY <1>5 DEF CallsOf
    <2>2. c.call = "delete_all" /\ c.table = t
        BY <2>1 DEF DeleteOf
    <2>3. c \in AnyCall
        BY <2>1 DEF DeleteOf, ResetTables, AnyCall
    <2> QED
        BY <1>5, <2>1, <2>2, <2>3 DEF Fits
<1>6. ASSUME x.tx \in {"save", "drop", "finish"}, NEW k \in x.clear, c = OfKey(k)
      PROVE  c \in AnyCall /\ Fits(c, x)
    <2>1. k \in Key
        BY <1>6 DEF Transaction, Operation
    <2>2. c.call = "clear" /\ c.key = k
        BY <1>6 DEF OfKey
    <2>3. c \in AnyCall
        BY <1>6, <2>1 DEF OfKey, AnyCall
    <2> QED
        BY <1>6, <2>2, <2>3 DEF Fits
<1>7. ASSUME x.tx \in {"save", "drop", "conflict", "journal", "replayed"},
             NEW call \in {"find_by_uid", "delete_by_uid", "conflict", "delete_pending", "upsert_pending"},
             c = OfUid(call, x.uid)
      PROVE  c \in AnyCall /\ c.call = call
    <2>1. x.uid \in Uid
        BY <1>7 DEF Transaction, Operation
    <2> QED
        BY <1>7, <2>1 DEF OfUid, AnyCall
<1>8. CASE x.tx = "save"
    <2>1. CASE x.recreated /\ c = OfUid("delete_pending", x.uid)
        <3>1. c \in AnyCall /\ c.call = "delete_pending"
            BY <1>7, <1>8, <2>1
        <3> QED
            BY <1>8, <2>1, <3>1 DEF Fits
    <2>2. CASE c = OfUid("find_by_uid", x.uid)
        <3>1. c \in AnyCall /\ c.call = "find_by_uid"
            BY <1>7, <1>8, <2>2
        <3> QED
            BY <1>8, <2>2, <3>1 DEF Fits
    <2>3. CASE c = WriteOf(x)
        <3>1. x.uid \in Uid /\ x.at \in ContactState
            BY <1>8 DEF Transaction, Operation
        <3>2. c \in AnyCall /\ c.call = "write"
            BY <2>3, <3>1 DEF WriteOf, AnyCall
        <3> QED
            BY <1>8, <2>3, <3>2 DEF Fits
    <2>4. CASE \E k \in x.clear : c = OfKey(k)
        BY <1>6, <1>8, <2>4
    <2> QED
        BY <1>8, <2>1, <2>2, <2>3, <2>4 DEF CallsOf
<1>9. CASE x.tx = "drop"
    <2>1. CASE c = OfUid("delete_by_uid", x.uid)
        <3>1. c \in AnyCall /\ c.call = "delete_by_uid"
            BY <1>7, <1>9, <2>1
        <3> QED
            BY <1>9, <2>1, <3>1 DEF Fits
    <2>2. CASE \E k \in x.clear : c = OfKey(k)
        BY <1>6, <1>9, <2>2
    <2> QED
        BY <1>9, <2>1, <2>2 DEF CallsOf
<1>10. CASE x.tx = "conflict"
    <2>1. c = OfUid("conflict", x.uid)
        BY <1>10 DEF CallsOf
    <2>2. c \in AnyCall /\ c.call = "conflict"
        BY <1>7, <1>10, <2>1
    <2> QED
        BY <1>10, <2>1, <2>2 DEF Fits
<1>11. CASE x.tx = "journal"
    <2>1. c = OfUid("upsert_pending", x.uid)
        BY <1>11 DEF CallsOf
    <2>2. c \in AnyCall /\ c.call = "upsert_pending"
        BY <1>7, <1>11, <2>1
    <2> QED
        BY <1>11, <2>1, <2>2 DEF Fits
<1>12. CASE x.tx = "replayed"
    <2>1. c = OfUid("delete_pending", x.uid)
        BY <1>12 DEF CallsOf
    <2>2. c \in AnyCall /\ c.call = "delete_pending"
        BY <1>7, <1>12, <2>1
    <2> QED
        BY <1>12, <2>1, <2>2 DEF Fits
<1>13. CASE x.tx = "fail"
    <2>1. PICK k \in x.keys : c = FailOf(x, k)
        BY <1>13 DEF CallsOf
    <2>2. k \in Key /\ x.etag \in Etag \cup {None}
        BY <1>13, <2>1 DEF Transaction, Operation
    <2>3. c.call = "record_failure" /\ c.key = k
        BY <2>1 DEF FailOf
    <2>4. c \in AnyCall
        BY <2>1, <2>2 DEF FailOf, AnyCall
    <2> QED
        BY <1>13, <2>1, <2>3, <2>4 DEF Fits
<1>14. CASE x.tx = "finish"
    <2>1. CASE c = ReplaceOf(x)
        <3>1. x.skips \in SUBSET Key
            BY <1>14 DEF Transaction, Operation
        <3>2. c \in AnyCall /\ c.call = "replace_all"
            BY <2>1, <3>1 DEF ReplaceOf, AnyCall
        <3> QED
            BY <1>14, <2>1, <3>2 DEF Fits
    <2>2. CASE \E k \in x.clear : c = OfKey(k)
        BY <1>6, <1>14, <2>2
    <2>3. CASE \E s \in Side : c = SetTokenOf(x, s)
        BY <1>3, <1>14, <2>3
    <2> QED
        BY <1>14, <2>1, <2>2, <2>3 DEF CallsOf
<1>15. x.tx \in {"load", "discovery", "tokens", "reset", "save", "drop", "conflict", "journal", "replayed", "fail", "finish"}
    BY DEF Transaction, Operation
<1> QED
    BY <1>1, <1>2, <1>4, <1>5, <1>8, <1>9, <1>10, <1>11, <1>12, <1>13, <1>14, <1>15

\* The tables after the calls that are no longer left, table by table.
LEMMA HalfIs ==
    ASSUME NEW x, NEW cs, NEW t
    PROVE  LET h == Half(x, cs, t) IN
           /\ h = [k \in TableNames |-> h[k]]
           /\ h.contacts = HalfContacts(x, cs, t) /\ h.endpoints = HalfEndpoints(x, cs, t)
           /\ h.failures = HalfFailures(x, cs, t) /\ h.skips = HalfSkips(x, cs, t)
           /\ h.conflicts = HalfConflicts(x, cs, t) /\ h.pending = HalfPending(x, cs, t)
BY DEF Half, TableNames

\* What each call is told from.
LEMMA CallsAre ==
    /\ \A call, u : OfUid(call, u).call = call /\ OfUid(call, u).uid = u
    /\ \A k : OfKey(k).call = "clear" /\ OfKey(k).key = k
    /\ \A x : WriteOf(x).call = "write" /\ WriteOf(x).uid = x.uid /\ WriteOf(x).at = x.at
    /\ \A x : ReplaceOf(x).call = "replace_all" /\ ReplaceOf(x).skips = x.skips
    /\ \A x, k : FailOf(x, k).call = "record_failure" /\ FailOf(x, k).key = k /\ FailOf(x, k).etag = x.etag
    /\ \A x, s : SetTokenOf(x, s).call = "set_sync_token" /\ SetTokenOf(x, s).side = s
                 /\ SetTokenOf(x, s).token = x.tokens[s]
    /\ \A x, s : UpsertOf(x, s).call = "upsert_discovery" /\ UpsertOf(x, s).side = s /\ UpsertOf(x, s).url = x.urls[s]
    /\ \A t : DeleteOf(t).call = "delete_all" /\ DeleteOf(t).table = t
BY DEF OfUid, OfKey, WriteOf, ReplaceOf, FailOf, SetTokenOf, UpsertOf, DeleteOf

ContactsMove(c, was, is, t) ==
    /\ c.call = "write" => was = t.contacts /\ is = [was EXCEPT ![c.uid] = c.at]
    /\ c.call = "delete_by_uid" => was = t.contacts /\ is = [was EXCEPT ![c.uid] = None]
    /\ c.call = "delete_all" /\ c.table = "contacts" => is = Empty.contacts
    /\ c.call = "delete_all" /\ c.table # "contacts" => is = was
    /\ c.call \notin {"write", "delete_by_uid", "delete_all"} => is = was

\* One call more of a transaction, on the contacts.
LEMMA ContactsStep ==
    ASSUME NEW x \in Transaction(Token), NEW cs, NEW c \in cs, Fits(c, x), NEW less, less = cs \ {c}, NEW t, Tabular(t)
    PROVE  ContactsMove(c, HalfContacts(x, cs, t), HalfContacts(x, less, t), t)
<1>1. CASE c.call = "write"
    <2>1. x.tx = "save" /\ c = WriteOf(x) /\ c \notin less /\ c.uid = x.uid /\ c.at = x.at
        BY <1>1, CallsAre DEF Fits
    <2> QED
        BY <1>1, <2>1 DEF HalfContacts, ContactsMove
<1>2. CASE c.call = "delete_by_uid"
    <2>1. x.tx = "drop" /\ c = OfUid("delete_by_uid", x.uid) /\ c \notin less /\ c.uid = x.uid
        BY <1>2, CallsAre DEF Fits
    <2> QED
        BY <1>2, <2>1 DEF HalfContacts, ContactsMove
<1>3. CASE c.call = "delete_all"
    <2>1. x.tx = "reset" /\ c = DeleteOf(c.table) /\ c \notin less
        BY <1>3 DEF Fits
    <2>2. c.table # "contacts" => DeleteOf("contacts") # c
        BY CallsAre
    <2> QED
        BY <1>3, <2>1, <2>2 DEF HalfContacts, ContactsMove
<1>4. CASE c.call \notin {"write", "delete_by_uid", "delete_all"}
    <2>1. WriteOf(x) # c /\ OfUid("delete_by_uid", x.uid) # c /\ DeleteOf("contacts") # c
        BY <1>4, CallsAre
    <2> QED
        BY <1>4, <2>1 DEF HalfContacts, ContactsMove
<1> QED
    BY <1>1, <1>2, <1>3, <1>4 DEF ContactsMove

EndpointsMove(c, was, is, t) ==
    /\ c.call = "upsert_discovery" => is = [was EXCEPT ![c.side] = Discovered(@, c.url)]
    /\ c.call = "set_sync_token" => was[c.side] = t.endpoints[c.side] /\ is = [was EXCEPT ![c.side].token = c.token]
    /\ c.call = "delete_all" /\ c.table = "endpoints" => is = Empty.endpoints
    /\ c.call = "delete_all" /\ c.table # "endpoints" => is = was
    /\ c.call \notin {"upsert_discovery", "set_sync_token", "delete_all"} => is = was

\* One call more of a transaction, on the endpoints.
LEMMA EndpointsStep ==
    ASSUME NEW x \in Transaction(Token), NEW cs, NEW c \in cs, Fits(c, x), NEW less, less = cs \ {c}, NEW t, Tabular(t),
           c.call \in {"upsert_discovery", "set_sync_token"} => c.side \in Side
    PROVE  EndpointsMove(c, HalfEndpoints(x, cs, t), HalfEndpoints(x, less, t), t)
<1>1. CASE c.call = "upsert_discovery"
    <2>1. x.tx = "discovery" /\ c = UpsertOf(x, c.side) /\ c \notin less /\ c.url = x.urls[c.side]
        BY <1>1, CallsAre DEF Fits
    <2>2. \A s : s # c.side => UpsertOf(x, s) # c
        BY CallsAre
    <2>3. \A s : s # c.side => (UpsertOf(x, s) \in cs <=> UpsertOf(x, s) \in less)
        BY <2>2
    <2>4. \A e : HalfEndpoints(x, e, t) =
            [s \in Side |-> IF UpsertOf(x, s) \in e THEN t.endpoints[s] ELSE Discovered(t.endpoints[s], x.urls[s])]
        BY <2>1 DEF HalfEndpoints
    <2>5. HalfEndpoints(x, less, t) = [HalfEndpoints(x, cs, t) EXCEPT ![c.side] = Discovered(@, c.url)]
        BY <2>1, <2>3, <2>4
    <2> QED
        BY <1>1, <2>5 DEF EndpointsMove
<1>2. CASE c.call = "set_sync_token"
    <2>1. x.tx \in {"tokens", "finish"} /\ c = SetTokenOf(x, c.side) /\ c \notin less /\ c.token = x.tokens[c.side]
        BY <1>2, CallsAre DEF Fits
    <2>2. \A s : s # c.side => SetTokenOf(x, s) # c
        BY CallsAre
    <2>3. \A s : s # c.side => (SetTokenOf(x, s) \in cs <=> SetTokenOf(x, s) \in less)
        BY <2>2
    <2> DEFINE on(s) == [t.endpoints[s] EXCEPT !.token = x.tokens[s]]
    <2>4. \A e : HalfEndpoints(x, e, t) = [s \in Side |-> IF SetTokenOf(x, s) \in e THEN t.endpoints[s] ELSE on(s)]
        BY <2>1 DEF HalfEndpoints
    <2>5. HalfEndpoints(x, cs, t)[c.side] = t.endpoints[c.side]
        BY <1>2, <2>1, <2>4
    <2>6. [HalfEndpoints(x, cs, t)[c.side] EXCEPT !.token = c.token] = on(c.side)
        BY <2>1, <2>5
    <2> HIDE DEF on
    <2>7. HalfEndpoints(x, less, t) = [HalfEndpoints(x, cs, t) EXCEPT ![c.side] = on(c.side)]
        BY <1>2, <2>1, <2>3, <2>4
    <2>8. HalfEndpoints(x, less, t) = [HalfEndpoints(x, cs, t) EXCEPT ![c.side].token = c.token]
        BY <2>6, <2>7
    <2> QED
        BY <1>2, <2>5, <2>8 DEF EndpointsMove
<1>3. CASE c.call = "delete_all"
    <2>1. x.tx = "reset" /\ c = DeleteOf(c.table) /\ c \notin less
        BY <1>3 DEF Fits
    <2>2. c.table # "endpoints" => DeleteOf("endpoints") # c
        BY CallsAre
    <2> QED
        BY <1>3, <2>1, <2>2 DEF HalfEndpoints, EndpointsMove
<1>4. CASE c.call \notin {"upsert_discovery", "set_sync_token", "delete_all"}
    <2>1. DeleteOf("endpoints") # c /\ \A s : UpsertOf(x, s) # c /\ SetTokenOf(x, s) # c
        BY <1>4, CallsAre
    <2>2. \A s : /\ UpsertOf(x, s) \in cs <=> UpsertOf(x, s) \in less
                 /\ SetTokenOf(x, s) \in cs <=> SetTokenOf(x, s) \in less
        BY <2>1
    <2>3. HalfEndpoints(x, less, t) = HalfEndpoints(x, cs, t)
        BY <2>1, <2>2 DEF HalfEndpoints
    <2> QED
        BY <1>4, <2>3 DEF EndpointsMove
<1> QED
    BY <1>1, <1>2, <1>3, <1>4 DEF EndpointsMove

FailuresMove(c, was, is) ==
    /\ c.call = "clear" => is = [was EXCEPT ![c.key] = None]
    /\ c.call = "record_failure" => is = [was EXCEPT ![c.key] = Failure(@, c.etag)]
    /\ c.call = "delete_all" /\ c.table = "failures" => is = Empty.failures
    /\ c.call = "delete_all" /\ c.table # "failures" => is = was
    /\ c.call \notin {"clear", "record_failure", "delete_all"} => is = was

\* One call more of a transaction, on the failures.
LEMMA FailuresStep ==
    ASSUME NEW x \in Transaction(Token), NEW cs, NEW c \in cs, Fits(c, x), NEW less, less = cs \ {c}, NEW t, Tabular(t)
    PROVE  FailuresMove(c, HalfFailures(x, cs, t), HalfFailures(x, less, t))
<1>1. CASE c.call = "clear"
    <2>1. x.tx \in {"save", "drop", "finish"} /\ c.key \in x.clear /\ c = OfKey(c.key) /\ c \notin less
        BY <1>1 DEF Fits
    <2>2. \A k : k # c.key => (OfKey(k) \in cs <=> OfKey(k) \in less)
        BY CallsAre
    <2>3. \A e : HalfFailures(x, e, t) = [k \in Key |-> IF k \in x.clear /\ OfKey(k) \notin e THEN None ELSE t.failures[k]]
        BY <2>1 DEF HalfFailures
    <2>4. HalfFailures(x, less, t) = [HalfFailures(x, cs, t) EXCEPT ![c.key] = None]
        BY <2>1, <2>2, <2>3
    <2> QED
        BY <1>1, <2>4 DEF FailuresMove
<1>2. CASE c.call = "record_failure"
    <2>1. x.tx = "fail" /\ c.key \in x.keys /\ c = FailOf(x, c.key) /\ c \notin less /\ c.etag = x.etag
        BY <1>2, CallsAre DEF Fits
    <2>2. c.key \in Key
        BY <2>1 DEF Transaction, Operation
    <2>3. \A k : k # c.key => (FailOf(x, k) \in cs <=> FailOf(x, k) \in less)
        BY CallsAre
    <2>4. \A e : HalfFailures(x, e, t) =
            [k \in Key |-> IF k \in x.keys /\ FailOf(x, k) \notin e THEN Failure(t.failures[k], x.etag) ELSE t.failures[k]]
        BY <2>1 DEF HalfFailures
    <2>5. HalfFailures(x, less, t) = [HalfFailures(x, cs, t) EXCEPT ![c.key] = Failure(@, c.etag)]
        BY <2>1, <2>2, <2>3, <2>4
    <2> QED
        BY <1>2, <2>5 DEF FailuresMove
<1>3. CASE c.call = "delete_all"
    <2>1. x.tx = "reset" /\ c = DeleteOf(c.table) /\ c \notin less
        BY <1>3 DEF Fits
    <2>2. c.table # "failures" => DeleteOf("failures") # c
        BY CallsAre
    <2> QED
        BY <1>3, <2>1, <2>2 DEF HalfFailures, FailuresMove
<1>4. CASE c.call \notin {"clear", "record_failure", "delete_all"}
    <2>1. DeleteOf("failures") # c /\ \A k : OfKey(k) # c /\ FailOf(x, k) # c
        BY <1>4, CallsAre
    <2>2. \A k : /\ OfKey(k) \in cs <=> OfKey(k) \in less
                 /\ FailOf(x, k) \in cs <=> FailOf(x, k) \in less
        BY <2>1
    <2>3. HalfFailures(x, less, t) = HalfFailures(x, cs, t)
        BY <2>1, <2>2 DEF HalfFailures
    <2> QED
        BY <1>4, <2>3 DEF FailuresMove
<1> QED
    BY <1>1, <1>2, <1>3, <1>4 DEF FailuresMove

ListsMove(c, h, g) ==
    /\ c.call = "replace_all" => g.skips = c.skips
    /\ c.call = "delete_all" /\ c.table = "skips" => g.skips = Empty.skips
    /\ c.call = "delete_all" /\ c.table # "skips" => g.skips = h.skips
    /\ c.call \notin {"replace_all", "delete_all"} => g.skips = h.skips
    /\ c.call = "conflict" => g.conflicts = Append(h.conflicts, c.uid)
    /\ c.call # "conflict" => g.conflicts = h.conflicts
    /\ c.call = "delete_pending" => g.pending = Without(h.pending, c.uid)
    /\ c.call = "upsert_pending" => g.pending = Append(Without(h.pending, c.uid), c.uid)
    /\ c.call \notin {"delete_pending", "upsert_pending"} => g.pending = h.pending

\* One call more of a transaction, on skips, conflicts and pending replays.
LEMMA ListsStep ==
    ASSUME NEW x \in Transaction(Token), NEW cs, NEW c \in cs, Fits(c, x), NEW less, less = cs \ {c}, NEW t
    PROVE  ListsMove(c, Half(x, cs, t), Half(x, less, t))
<1>1. c.call = "replace_all" => HalfSkips(x, less, t) = c.skips
    BY CallsAre DEF Fits, HalfSkips
<1>2. c.call = "delete_all" /\ c.table = "skips" => HalfSkips(x, less, t) = Empty.skips
    BY CallsAre DEF Fits, HalfSkips
<1>3. c.call = "delete_all" /\ c.table # "skips" => HalfSkips(x, less, t) = HalfSkips(x, cs, t)
    BY CallsAre DEF Fits, HalfSkips
<1>4. c.call \notin {"replace_all", "delete_all"} => HalfSkips(x, less, t) = HalfSkips(x, cs, t)
    BY CallsAre DEF HalfSkips
<1>5. c.call = "conflict" => HalfConflicts(x, less, t) = Append(HalfConflicts(x, cs, t), c.uid)
    BY CallsAre DEF Fits, HalfConflicts
<1>6. c.call # "conflict" => HalfConflicts(x, less, t) = HalfConflicts(x, cs, t)
    BY CallsAre DEF HalfConflicts
<1>7. c.call = "delete_pending" => HalfPending(x, less, t) = Without(HalfPending(x, cs, t), c.uid)
    BY CallsAre DEF Fits, HalfPending
<1>8. c.call = "upsert_pending" => HalfPending(x, less, t) = Append(Without(HalfPending(x, cs, t), c.uid), c.uid)
    BY CallsAre DEF Fits, HalfPending
<1>9. c.call \notin {"delete_pending", "upsert_pending"} => HalfPending(x, less, t) = HalfPending(x, cs, t)
    BY CallsAre DEF HalfPending
<1> DEFINE h == Half(x, cs, t)
           g == Half(x, less, t)
<1>10. /\ h.skips = HalfSkips(x, cs, t) /\ h.conflicts = HalfConflicts(x, cs, t) /\ h.pending = HalfPending(x, cs, t)
       /\ g.skips = HalfSkips(x, less, t) /\ g.conflicts = HalfConflicts(x, less, t)
       /\ g.pending = HalfPending(x, less, t)
    BY HalfIs
<1> HIDE DEF h, g
<1>11. ListsMove(c, h, g)
    BY <1>1, <1>2, <1>3, <1>4, <1>5, <1>6, <1>7, <1>8, <1>9, <1>10 DEF ListsMove
<1> QED
    BY <1>11 DEF h, g

\* One more call brings the tables one step on.
LEMMA HalfStep ==
    ASSUME NEW x \in Transaction(Token), NEW cs, cs \subseteq CallsOf(x), NEW c \in cs, NEW less, less = cs \ {c},
           NEW t, Tabular(t), Passed(x, cs, t), Passes(c, Half(x, cs, t))
    PROVE  Does(c, Half(x, cs, t)) = Half(x, less, t) /\ Passed(x, less, t)
<1>1. c \in AnyCall /\ Fits(c, x)
    BY CallsFit
<1> DEFINE h == Half(x, cs, t)
           g == Half(x, less, t)
<1>2. /\ h = [k \in TableNames |-> h[k]]
      /\ h.contacts = HalfContacts(x, cs, t) /\ h.endpoints = HalfEndpoints(x, cs, t)
      /\ h.failures = HalfFailures(x, cs, t) /\ h.skips = HalfSkips(x, cs, t)
      /\ h.conflicts = HalfConflicts(x, cs, t) /\ h.pending = HalfPending(x, cs, t)
    BY HalfIs
<1>3. /\ g = [k \in TableNames |-> g[k]]
      /\ g.contacts = HalfContacts(x, less, t) /\ g.endpoints = HalfEndpoints(x, less, t)
      /\ g.failures = HalfFailures(x, less, t) /\ g.skips = HalfSkips(x, less, t)
      /\ g.conflicts = HalfConflicts(x, less, t) /\ g.pending = HalfPending(x, less, t)
    BY HalfIs
<1> HIDE DEF h, g
<1>4. ContactsMove(c, h.contacts, g.contacts, t)
    BY <1>1, <1>2, <1>3, ContactsStep
<1>5. c.call \in {"upsert_discovery", "set_sync_token"} => c.side \in Side
    BY <1>1 DEF AnyCall
<1>6. EndpointsMove(c, h.endpoints, g.endpoints, t)
    BY <1>1, <1>2, <1>3, <1>5, EndpointsStep
<1>7. FailuresMove(c, h.failures, g.failures)
    BY <1>1, <1>2, <1>3, FailuresStep
<1>8. ListsMove(c, h, g)
    BY <1>1, ListsStep DEF h, g
<1>10. ASSUME NEW f \in TableNames, \A k \in TableNames \ {f} : g[k] = h[k]
       PROVE  g = [h EXCEPT ![f] = g[f]]
    BY <1>2, <1>3, <1>10
<1>11. Does(c, h) = g
    <2>1. CASE c.call \in {"find_by_uid", "list"}
        <3>1. \A k \in TableNames : g[k] = h[k]
            BY <1>4, <1>6, <1>7, <1>8, <2>1 DEF TableNames, ContactsMove, EndpointsMove, FailuresMove, ListsMove
        <3>2. g = h
            BY <1>2, <1>3, <3>1
        <3> QED
            BY <2>1, <3>2 DEF Does
    <2>2. CASE c.call \in {"write", "delete_by_uid"}
        <3>1. \A k \in TableNames \ {"contacts"} : g[k] = h[k]
            BY <1>6, <1>7, <1>8, <2>2 DEF TableNames, EndpointsMove, FailuresMove, ListsMove
        <3>2. g = [h EXCEPT !["contacts"] = g["contacts"]]
            BY <1>10, <3>1 DEF TableNames
        <3> QED
            BY <1>4, <2>2, <3>2 DEF Does, ContactsMove
    <2>3. CASE c.call \in {"upsert_discovery", "set_sync_token"}
        <3>1. \A k \in TableNames \ {"endpoints"} : g[k] = h[k]
            BY <1>4, <1>7, <1>8, <2>3 DEF TableNames, ContactsMove, FailuresMove, ListsMove
        <3>2. g = [h EXCEPT !["endpoints"] = g["endpoints"]]
            BY <1>10, <3>1 DEF TableNames
        <3> QED
            BY <1>6, <2>3, <3>2 DEF Does, Discovered, EndpointsMove
    <2>4. CASE c.call \in {"clear", "record_failure"}
        <3>1. \A k \in TableNames \ {"failures"} : g[k] = h[k]
            BY <1>4, <1>6, <1>8, <2>4 DEF TableNames, ContactsMove, EndpointsMove, ListsMove
        <3>2. g = [h EXCEPT !["failures"] = g["failures"]]
            BY <1>10, <3>1 DEF TableNames
        <3> QED
            BY <1>7, <2>4, <3>2 DEF Does, FailuresMove
    <2>5. CASE c.call = "replace_all"
        <3>1. \A k \in TableNames \ {"skips"} : g[k] = h[k]
            BY <1>4, <1>6, <1>7, <1>8, <2>5 DEF TableNames, ContactsMove, EndpointsMove, FailuresMove, ListsMove
        <3>2. g = [h EXCEPT !["skips"] = g["skips"]]
            BY <1>10, <3>1 DEF TableNames
        <3> QED
            BY <1>8, <2>5, <3>2 DEF Does, ListsMove
    <2>6. CASE c.call = "conflict"
        <3>1. \A k \in TableNames \ {"conflicts"} : g[k] = h[k]
            BY <1>4, <1>6, <1>7, <1>8, <2>6 DEF TableNames, ContactsMove, EndpointsMove, FailuresMove, ListsMove
        <3>2. g = [h EXCEPT !["conflicts"] = g["conflicts"]]
            BY <1>10, <3>1 DEF TableNames
        <3> QED
            BY <1>8, <2>6, <3>2 DEF Does, ListsMove
    <2>7. CASE c.call \in {"delete_pending", "upsert_pending"}
        <3>1. \A k \in TableNames \ {"pending"} : g[k] = h[k]
            BY <1>4, <1>6, <1>7, <1>8, <2>7 DEF TableNames, ContactsMove, EndpointsMove, FailuresMove, ListsMove
        <3>2. g = [h EXCEPT !["pending"] = g["pending"]]
            BY <1>10, <3>1 DEF TableNames
        <3> QED
            BY <1>8, <2>7, <3>2 DEF Does, ListsMove
    <2>8. CASE c.call = "delete_all"
        <3>1. c.table \in ResetTables /\ c.table \in TableNames
            BY <1>1, <2>8 DEF AnyCall, ResetTables, TableNames
        <3>2. \A k \in TableNames \ {c.table} : g[k] = h[k]
            BY <1>4, <1>6, <1>7, <1>8, <2>8 DEF TableNames, ContactsMove, EndpointsMove, FailuresMove, ListsMove
        <3>3. g = [h EXCEPT ![c.table] = g[c.table]]
            BY <1>10, <3>1, <3>2
        <3>4. g[c.table] = Empty[c.table]
            BY <1>4, <1>6, <1>7, <1>8, <2>8, <3>1 DEF ResetTables, ContactsMove, EndpointsMove, FailuresMove, ListsMove
        <3> QED
            BY <2>8, <3>3, <3>4 DEF Does
    <2> QED
        BY <1>1, <2>1, <2>2, <2>3, <2>4, <2>5, <2>6, <2>7, <2>8 DEF AnyCall
<1>12. x.tx = "save" => WriteOf(x) \in less \/ ~Taken(t, x.uid, x.at)
    <2> SUFFICES ASSUME x.tx = "save", c = WriteOf(x)
                 PROVE  ~Taken(t, x.uid, x.at)
        BY DEF Passed
    <2>1. c.call = "write" /\ c.uid = x.uid /\ c.at = x.at
        BY CallsAre
    <2> QED
        BY <1>4, <2>1 DEF Passes, Taken, h, ContactsMove
<1>13. x.tx = "drop" => OfUid("delete_by_uid", x.uid) \in less \/ t.contacts[x.uid] # None
    <2> SUFFICES ASSUME x.tx = "drop", c = OfUid("delete_by_uid", x.uid)
                 PROVE  t.contacts[x.uid] # None
        BY DEF Passed
    <2>1. c.call = "delete_by_uid" /\ c.uid = x.uid
        BY CallsAre
    <2> QED
        BY <1>4, <2>1 DEF Passes, h, ContactsMove
<1>14. x.tx \in {"tokens", "finish"} => \A s \in Side : SetTokenOf(x, s) \in less \/ t.endpoints[s] # None
    <2> SUFFICES ASSUME x.tx \in {"tokens", "finish"}, NEW s \in Side, c = SetTokenOf(x, s)
                 PROVE  t.endpoints[s] # None
        BY DEF Passed
    <2>1. c.call = "set_sync_token" /\ c.side = s
        BY CallsAre
    <2> QED
        BY <1>6, <2>1 DEF Passes, h, EndpointsMove
<1>15. Passed(x, less, t)
    BY <1>12, <1>13, <1>14 DEF Passed
<1> QED
    BY <1>11, <1>15 DEF h, g

\* Before its first call a transaction has done nothing.
LEMMA HalfStart ==
    ASSUME NEW x \in Transaction(Token), NEW cs, cs = CallsOf(x), NEW t, Tabular(t)
    PROVE  Half(x, cs, t) = t /\ Passed(x, cs, t)
<1>1. x.tx \in {"load", "discovery", "tokens", "reset", "save", "drop", "conflict", "journal", "replayed", "fail", "finish"}
    BY DEF Transaction, Operation
<1>2. /\ x.tx = "save" => WriteOf(x) \in cs /\ (x.recreated => OfUid("delete_pending", x.uid) \in cs)
      /\ x.tx = "drop" => OfUid("delete_by_uid", x.uid) \in cs
      /\ x.tx = "reset" => \A k \in ResetTables : DeleteOf(k) \in cs
      /\ x.tx = "conflict" => OfUid("conflict", x.uid) \in cs
      /\ x.tx = "journal" => OfUid("upsert_pending", x.uid) \in cs
      /\ x.tx = "replayed" => OfUid("delete_pending", x.uid) \in cs
      /\ x.tx = "finish" => ReplaceOf(x) \in cs
    BY <1>1 DEF CallsOf
<1>3. /\ x.tx = "discovery" => \A s \in Side : UpsertOf(x, s) \in cs
      /\ x.tx \in {"tokens", "finish"} => \A s \in Side : SetTokenOf(x, s) \in cs
      /\ x.tx \in {"save", "drop", "finish"} => \A k \in x.clear : OfKey(k) \in cs
      /\ x.tx = "fail" => \A k \in x.keys : FailOf(x, k) \in cs
    BY <1>1 DEF CallsOf
<1>4. HalfContacts(x, cs, t) = t.contacts
    BY <1>2 DEF HalfContacts, ResetTables
<1>5. HalfEndpoints(x, cs, t) = t.endpoints
    BY <1>2, <1>3 DEF HalfEndpoints, ResetTables, Tabular
<1>6. HalfFailures(x, cs, t) = t.failures
    BY <1>2, <1>3 DEF HalfFailures, ResetTables, Tabular
<1>7. HalfSkips(x, cs, t) = t.skips
    BY <1>2 DEF HalfSkips, ResetTables
<1>8. HalfConflicts(x, cs, t) = t.conflicts
    BY <1>2 DEF HalfConflicts
<1>9. HalfPending(x, cs, t) = t.pending
    BY <1>2 DEF HalfPending
<1> DEFINE h == Half(x, cs, t)
<1>10. /\ h = [k \in TableNames |-> h[k]]
       /\ h.contacts = t.contacts /\ h.endpoints = t.endpoints /\ h.failures = t.failures
       /\ h.skips = t.skips /\ h.conflicts = t.conflicts /\ h.pending = t.pending
    BY <1>4, <1>5, <1>6, <1>7, <1>8, <1>9, HalfIs
<1> HIDE DEF h
<1>11. t = [k \in TableNames |-> t[k]]
    BY DEF Tabular
<1>12. \A k \in TableNames : h[k] = t[k]
    BY <1>10 DEF TableNames
<1>13. h = t
    BY <1>10, <1>11, <1>12
<1> QED
    BY <1>2, <1>3, <1>13 DEF Passed, h

\* After its last it has done what the ports say of it.
LEMMA HalfDone ==
    ASSUME NEW x \in Transaction(Token), NEW t, Tabular(t), Passed(x, {}, t)
    PROVE  Outcome(x, t) = Ok(Half(x, {}, t))
<1> DEFINE h == Half(x, {}, t)
<1>1. /\ h = [k \in TableNames |-> h[k]]
      /\ h.contacts = HalfContacts(x, {}, t) /\ h.endpoints = HalfEndpoints(x, {}, t)
      /\ h.failures = HalfFailures(x, {}, t) /\ h.skips = HalfSkips(x, {}, t)
      /\ h.conflicts = HalfConflicts(x, {}, t) /\ h.pending = HalfPending(x, {}, t)
    BY HalfIs
<1>2. t = [k \in TableNames |-> t[k]]
    BY DEF Tabular
<1>3. ASSUME NEW g, g = [k \in TableNames |-> g[k]],
             g.contacts = h.contacts, g.endpoints = h.endpoints, g.failures = h.failures,
             g.skips = h.skips, g.conflicts = h.conflicts, g.pending = h.pending
      PROVE  g = h
    <2> HIDE DEF h
    <2>1. \A k \in TableNames : g[k] = h[k]
        BY <1>3 DEF TableNames
    <2> QED
        BY <1>1, <1>3, <2>1
<1> HIDE DEF h
<1>4. CASE x.tx = "load"
    <2>1. h = t
        BY <1>1, <1>2, <1>3, <1>4 DEF HalfContacts, HalfEndpoints, HalfFailures, HalfSkips, HalfConflicts, HalfPending
    <2> QED
        BY <1>4, <2>1 DEF Outcome, h
<1>5. CASE x.tx = "discovery"
    <2> DEFINE E == [s \in Side |-> Discovered(t.endpoints[s], x.urls[s])]
               g == [t EXCEPT !.endpoints = E]
    <2>1. h.endpoints = E
        BY <1>1, <1>5 DEF HalfEndpoints
    <2>2. /\ h.contacts = t.contacts /\ h.failures = t.failures
          /\ h.skips = t.skips /\ h.conflicts = t.conflicts /\ h.pending = t.pending
        BY <1>1, <1>5 DEF HalfContacts, HalfFailures, HalfSkips, HalfConflicts, HalfPending
    <2>3. Outcome(x, t) = Ok(g)
        BY <1>5 DEF Outcome, Discovery, Discovered
    <2> HIDE DEF E
    <2>4. g = h
        <3>1. g = [k \in TableNames |-> g[k]] /\ g.endpoints = E /\ \A k \in TableNames \ {"endpoints"} : g[k] = t[k]
            BY <1>2 DEF TableNames
        <3> HIDE DEF g
        <3> QED
            BY <1>3, <2>1, <2>2, <3>1 DEF TableNames
    <2> QED
        BY <2>3, <2>4 DEF h
<1>6. ASSUME x.tx \in {"tokens", "finish"}
      PROVE  /\ \A s \in Side : t.endpoints[s] # None
             /\ WithTokens(t, x.tokens) = [t EXCEPT !.endpoints = h.endpoints]
    <2>1. h.endpoints = [s \in Side |-> [t.endpoints[s] EXCEPT !.token = x.tokens[s]]]
        BY <1>1, <1>6 DEF HalfEndpoints
    <2> QED
        BY <1>6, <2>1 DEF Passed, WithTokens
<1>7. CASE x.tx = "tokens"
    <2> DEFINE g == [t EXCEPT !.endpoints = h.endpoints]
    <2>1. Outcome(x, t) = Ok(g)
        BY <1>6, <1>7 DEF Outcome, Tokens
    <2>2. /\ h.contacts = t.contacts /\ h.failures = t.failures
          /\ h.skips = t.skips /\ h.conflicts = t.conflicts /\ h.pending = t.pending
        BY <1>1, <1>7 DEF HalfContacts, HalfFailures, HalfSkips, HalfConflicts, HalfPending
    <2>3. g = [k \in TableNames |-> g[k]] /\ g.endpoints = h.endpoints /\ \A k \in TableNames \ {"endpoints"} : g[k] = t[k]
        BY <1>2 DEF TableNames
    <2> HIDE DEF g
    <2>4. g = h
        BY <1>3, <2>2, <2>3 DEF TableNames
    <2> QED
        BY <2>1, <2>4 DEF h
<1>8. CASE x.tx = "reset"
    <2> DEFINE g == [Empty EXCEPT !.conflicts = t.conflicts, !.pending = t.pending]
    <2>1. Outcome(x, t) = Ok(g)
        BY <1>8 DEF Outcome, Reset
    <2>2. /\ h.contacts = Empty.contacts /\ h.endpoints = Empty.endpoints /\ h.failures = Empty.failures
          /\ h.skips = Empty.skips /\ h.conflicts = t.conflicts /\ h.pending = t.pending
        BY <1>1, <1>8 DEF HalfContacts, HalfEndpoints, HalfFailures, HalfSkips, HalfConflicts, HalfPending
    <2>3. Empty = [k \in TableNames |-> Empty[k]]
        BY DEF Empty, TableNames
    <2>4. /\ g = [k \in TableNames |-> g[k]] /\ g.conflicts = t.conflicts /\ g.pending = t.pending
          /\ \A k \in TableNames \ {"conflicts", "pending"} : g[k] = Empty[k]
        BY <2>3 DEF TableNames
    <2> HIDE DEF g
    <2>5. g = h
        BY <1>3, <2>2, <2>4 DEF TableNames
    <2> QED
        BY <2>1, <2>5 DEF h
<1>9. ASSUME x.tx \in {"save", "drop", "finish"}
      PROVE  h.failures = Cleared(t.failures, x.clear)
    BY <1>1, <1>9 DEF HalfFailures, Cleared
<1>10. CASE x.tx = "save"
    <2> DEFINE P == IF x.recreated THEN Without(t.pending, x.uid) ELSE t.pending
               C == [t.contacts EXCEPT ![x.uid] = x.at]
               g == [t EXCEPT !.contacts = C, !.failures = h.failures, !.pending = P]
    <2>1. ~Taken(t, x.uid, x.at)
        BY <1>10 DEF Passed
    <2>2. Outcome(x, t) = Ok(g)
        <3>1. Outcome(x, t) = Save(t, x.uid, x.at, x.recreated, x.clear)
            BY <1>10 DEF Outcome
        <3>2. h.failures = Cleared(t.failures, x.clear)
            BY <1>9, <1>10
        <3> QED
            BY <2>1, <3>1, <3>2 DEF Save
    <2>3. /\ h.contacts = C /\ h.endpoints = t.endpoints /\ h.skips = t.skips
          /\ h.conflicts = t.conflicts /\ h.pending = P
        BY <1>1, <1>10 DEF HalfContacts, HalfEndpoints, HalfSkips, HalfConflicts, HalfPending
    <2> HIDE DEF P, C
    <2>4. /\ g = [k \in TableNames |-> g[k]] /\ g.contacts = C /\ g.failures = h.failures /\ g.pending = P
          /\ \A k \in TableNames \ {"contacts", "failures", "pending"} : g[k] = t[k]
        BY <1>2 DEF TableNames
    <2> HIDE DEF g
    <2>5. g = h
        BY <1>3, <2>3, <2>4 DEF TableNames
    <2> QED
        BY <2>2, <2>5 DEF h
<1>11. CASE x.tx = "drop"
    <2> DEFINE C == [t.contacts EXCEPT ![x.uid] = None]
               g == [t EXCEPT !.contacts = C, !.failures = h.failures]
    <2>1. t.contacts[x.uid] # None
        BY <1>11 DEF Passed
    <2>2. Outcome(x, t) = Ok(g)
        <3>1. Outcome(x, t) = Drop(t, x.uid, x.clear)
            BY <1>11 DEF Outcome
        <3>2. h.failures = Cleared(t.failures, x.clear)
            BY <1>9, <1>11
        <3> QED
            BY <2>1, <3>1, <3>2 DEF Drop
    <2>3. /\ h.contacts = C /\ h.endpoints = t.endpoints /\ h.skips = t.skips
          /\ h.conflicts = t.conflicts /\ h.pending = t.pending
        BY <1>1, <1>11 DEF HalfContacts, HalfEndpoints, HalfSkips, HalfConflicts, HalfPending
    <2> HIDE DEF C
    <2>4. /\ g = [k \in TableNames |-> g[k]] /\ g.contacts = C /\ g.failures = h.failures
          /\ \A k \in TableNames \ {"contacts", "failures"} : g[k] = t[k]
        BY <1>2 DEF TableNames
    <2> HIDE DEF g
    <2>5. g = h
        BY <1>3, <2>3, <2>4 DEF TableNames
    <2> QED
        BY <2>2, <2>5 DEF h
<1>12. CASE x.tx = "conflict"
    <2> DEFINE C == Append(t.conflicts, x.uid)
               g == [t EXCEPT !.conflicts = C]
    <2>1. Outcome(x, t) = Ok(g)
        BY <1>12 DEF Outcome, Conflict
    <2>2. /\ h.contacts = t.contacts /\ h.endpoints = t.endpoints /\ h.failures = t.failures
          /\ h.skips = t.skips /\ h.conflicts = C /\ h.pending = t.pending
        BY <1>1, <1>12 DEF HalfContacts, HalfEndpoints, HalfFailures, HalfSkips, HalfConflicts, HalfPending
    <2> HIDE DEF C
    <2>3. g = [k \in TableNames |-> g[k]] /\ g.conflicts = C /\ \A k \in TableNames \ {"conflicts"} : g[k] = t[k]
        BY <1>2 DEF TableNames
    <2> HIDE DEF g
    <2>4. g = h
        BY <1>3, <2>2, <2>3 DEF TableNames
    <2> QED
        BY <2>1, <2>4 DEF h
<1>13. CASE x.tx \in {"journal", "replayed"}
    <2> DEFINE P == IF x.tx = "journal" THEN Append(Without(t.pending, x.uid), x.uid) ELSE Without(t.pending, x.uid)
               g == [t EXCEPT !.pending = P]
    <2>1. Outcome(x, t) = Ok(g)
        BY <1>13 DEF Outcome, Journal, Replayed
    <2>2. /\ h.contacts = t.contacts /\ h.endpoints = t.endpoints /\ h.failures = t.failures
          /\ h.skips = t.skips /\ h.conflicts = t.conflicts /\ h.pending = P
        BY <1>1, <1>13 DEF HalfContacts, HalfEndpoints, HalfFailures, HalfSkips, HalfConflicts, HalfPending
    <2> HIDE DEF P
    <2>3. g = [k \in TableNames |-> g[k]] /\ g.pending = P /\ \A k \in TableNames \ {"pending"} : g[k] = t[k]
        BY <1>2 DEF TableNames
    <2> HIDE DEF g
    <2>4. g = h
        BY <1>3, <2>2, <2>3 DEF TableNames
    <2> QED
        BY <2>1, <2>4 DEF h
<1>14. CASE x.tx = "fail"
    <2> DEFINE F == [k \in Key |-> IF k \in x.keys THEN Failure(t.failures[k], x.etag) ELSE t.failures[k]]
               g == [t EXCEPT !.failures = F]
    <2>1. Outcome(x, t) = Ok(g)
        BY <1>14 DEF Outcome, Fail
    <2>2. /\ h.contacts = t.contacts /\ h.endpoints = t.endpoints
          /\ h.skips = t.skips /\ h.conflicts = t.conflicts /\ h.pending = t.pending
        BY <1>1, <1>14 DEF HalfContacts, HalfEndpoints, HalfSkips, HalfConflicts, HalfPending
    <2>3. h.failures = F
        BY <1>1, <1>14 DEF HalfFailures
    <2> HIDE DEF F
    <2>4. g = [k \in TableNames |-> g[k]] /\ g.failures = F /\ \A k \in TableNames \ {"failures"} : g[k] = t[k]
        BY <1>2 DEF TableNames
    <2> HIDE DEF g
    <2>5. g = h
        BY <1>3, <2>2, <2>3, <2>4 DEF TableNames
    <2> QED
        BY <2>1, <2>5 DEF h
<1>15. CASE x.tx = "finish"
    <2> DEFINE with == [t EXCEPT !.endpoints = h.endpoints]
               g == [with EXCEPT !.skips = x.skips, !.failures = h.failures]
    <2>1. Outcome(x, t) = Ok(g)
        <3>1. Outcome(x, t) = Finish(t, x.skips, x.clear, x.tokens)
            BY <1>15 DEF Outcome
        <3>2. Finish(t, x.skips, x.clear, x.tokens)
                = Ok([WithTokens(t, x.tokens) EXCEPT !.skips = x.skips, !.failures = Cleared(@, x.clear)])
            BY <1>6, <1>15 DEF Finish
        <3>3. WithTokens(t, x.tokens) = with /\ with.failures = t.failures
            BY <1>2, <1>6, <1>15 DEF TableNames
        <3>4. h.failures = Cleared(t.failures, x.clear)
            BY <1>9, <1>15
        <3> HIDE DEF with
        <3> QED
            BY <3>1, <3>2, <3>3, <3>4
    <2>2. /\ h.contacts = t.contacts /\ h.skips = x.skips /\ h.conflicts = t.conflicts /\ h.pending = t.pending
        BY <1>1, <1>15 DEF HalfContacts, HalfSkips, HalfConflicts, HalfPending
    <2>3. /\ g = [k \in TableNames |-> g[k]] /\ g.endpoints = h.endpoints /\ g.failures = h.failures
          /\ g.skips = x.skips /\ \A k \in {"contacts", "conflicts", "pending"} : g[k] = t[k]
        BY <1>2 DEF TableNames
    <2> HIDE DEF g
    <2>4. g = h
        BY <1>3, <2>2, <2>3
    <2> QED
        BY <2>1, <2>4 DEF h
<1>16. x.tx \in {"load", "discovery", "tokens", "reset", "save", "drop", "conflict", "journal", "replayed", "fail", "finish"}
    BY DEF Transaction, Operation
<1> QED
    BY <1>4, <1>5, <1>7, <1>8, <1>10, <1>11, <1>12, <1>13, <1>14, <1>15, <1>16

\* A call that writes nothing leaves the rows.
LEMMA CallReads ==
    ASSUME NEW d, Keyed(d), NEW c \in AnyCall, NEW found, ~Writes(c, d), Call(c, d, found).error = None
    PROVE  Call(c, d, found).rows = d
<1>1. CASE c.call \in {"find_by_uid", "list"}
    BY <1>1, CallErrors
<1>2. CASE c.call = "upsert_discovery"
    <2>1. PICK r \in EndpointRows(d, c.side) : r.url = c.url
        BY <1>2 DEF Writes
    <2>2. \A q \in EndpointRows(d, c.side) : q = r
        BY <2>1 DEF EndpointRows, Keyed
    <2>3. EndpointRows(d, c.side) # {} /\ {q \in EndpointRows(d, c.side) : q.url # c.url} = {}
        BY <2>1, <2>2
    <2>4. Call(c, d, found).rows = [d EXCEPT !.endpoints = d.endpoints]
        BY <1>2, <2>3 DEF Call, UpsertDiscovery, Done
    <2>5. d \in Rows(Token)
        BY DEF Keyed
    <2> QED
        BY <2>4, <2>5 DEF Rows
<1>3. CASE c.call = "set_sync_token"
    <2> DEFINE rs == EndpointRows(d, c.side)
    <2>1. \A r \in rs : r.token = c.token
        BY <1>3 DEF Writes
    <2>2. d \in Rows(Token) /\ rs \subseteq d.endpoints /\ d.endpoints \subseteq EndpointTable(Token)
        BY DEF EndpointRows, Keyed, Rows
    <2>3. \A r \in rs : [r EXCEPT !.token = c.token] = r
        BY <2>1, <2>2 DEF EndpointTable
    <2>4. {[r EXCEPT !.token = c.token] : r \in rs} = rs
        BY <2>3
    <2>5. (d.endpoints \ rs) \cup rs = d.endpoints
        BY <2>2
    <2>6. rs # {}
        <3>1. Call(c, d, found) = SetSyncToken(d, c.side, c.token)
            BY <1>3 DEF Call
        <3>2. None # "NotFound"
            BY NoneAssumption DEF NoneAssumption
        <3> QED
            BY <3>1, <3>2 DEF SetSyncToken, Error
    <2>7. Call(c, d, found).rows = [d EXCEPT !.endpoints = (d.endpoints \ rs) \cup {[r EXCEPT !.token = c.token] : r \in rs}]
        BY <1>3, <2>6 DEF Call, SetSyncToken, Done
    <2>8. Call(c, d, found).rows = [d EXCEPT !.endpoints = d.endpoints]
        BY <2>4, <2>5, <2>7
    <2> QED
        BY <2>2, <2>8 DEF Rows
<1> QED
    BY <1>1, <1>2, <1>3 DEF Writes

(***************************************************************************)
(* The calls to come, as a queue.                                          *)
(***************************************************************************)
Ran(s) == {s[i] : i \in 1..Len(s)}

\* s holds each member of S once.
Lists(S, s) ==
    /\ s \in Seq(S) /\ Ran(s) = S
    /\ \A i, j \in 1..Len(s) : s[i] = s[j] => i = j

\* Each contact of s is looked up right before it is written.
Foreseen(s) ==
    \A i \in 1..Len(s) : s[i].call = "write" => i > 1 /\ s[i - 1] = OfUid("find_by_uid", s[i].uid)

\* The empty list of calls.
LEMMA ListsNothing == Lists({}, << >>) /\ Foreseen(<< >>)
BY DEF Lists, Ran, Foreseen

\* A list of one call.
LEMMA ListsOne == \A c : Lists({c}, <<c>>) /\ (c.call # "write" => Foreseen(<<c>>))
<1> TAKE c
<1>1. <<c>> \in Seq({c}) /\ Len(<<c>>) = 1 /\ <<c>>[1] = c
    OBVIOUS
<1> QED
    BY <1>1 DEF Lists, Ran, Foreseen

\* A list of two calls.
LEMMA ListsTwo ==
    ASSUME NEW a, NEW b, a # b
    PROVE  Lists({a, b}, <<a, b>>)
<1> DEFINE s == <<a, b>>
<1>1. s \in Seq({a, b}) /\ Len(s) = 2 /\ s[1] = a /\ s[2] = b
    OBVIOUS
<1> HIDE DEF s
<1>2. \A i \in 1..Len(s) : i = 1 \/ i = 2
    BY <1>1
<1>3. Ran(s) = {a, b}
    BY <1>1, <1>2 DEF Ran
<1>4. \A i, j \in 1..Len(s) : s[i] = s[j] => i = j
    BY <1>1, <1>2
<1> QED
    BY <1>1, <1>3, <1>4 DEF Lists, s

\* Two lists with no call in common, one after the other.
LEMMA ListsBoth ==
    ASSUME NEW S, NEW T, NEW s, NEW t, Lists(S, s), Lists(T, t), S \cap T = {}
    PROVE  Lists(S \cup T, s \o t) /\ (Foreseen(s) /\ Foreseen(t) => Foreseen(s \o t))
<1> DEFINE u == s \o t
           m == Len(s)
           n == Len(t)
<1>1. s \in Seq(S) /\ t \in Seq(T) /\ Ran(s) = S /\ Ran(t) = T
    BY DEF Lists
<1>2. s \in Seq(S \cup T) /\ t \in Seq(S \cup T)
    BY <1>1, SeqMonotonic
<1>3. m \in Nat /\ n \in Nat
    BY <1>2, LenProperties
<1>4. u \in Seq(S \cup T) /\ Len(u) = m + n /\ \A i \in 1..m + n : u[i] = IF i <= m THEN s[i] ELSE t[i - m]
    BY <1>2, ConcatProperties
<1> HIDE DEF u, m, n
<1>5. \A i \in 1..Len(u) : \/ i \in 1..m /\ u[i] = s[i]
                           \/ i - m \in 1..n /\ u[i] = t[i - m] /\ i > m
    BY <1>3, <1>4
<1>6. /\ \A i \in 1..m : i \in 1..Len(u) /\ u[i] = s[i] /\ s[i] \in S
      /\ \A i \in 1..n : i + m \in 1..Len(u) /\ u[i + m] = t[i] /\ t[i] \in T
    <2>1. \A i \in 1..m : i \in 1..Len(u) /\ u[i] = s[i]
        BY <1>3, <1>4
    <2>2. \A i \in 1..n : i + m \in 1..Len(u) /\ u[i + m] = t[i]
        BY <1>3, <1>4
    <2> QED
        BY <1>1, <2>1, <2>2 DEF Ran, m, n
<1>7. Ran(u) = S \cup T
    <2>1. \A x \in Ran(u) : x \in S \cup T
        BY <1>1, <1>5 DEF Ran, m, n
    <2>2. \A x \in S : \E i \in 1..m : s[i] = x
        BY <1>1 DEF Ran, m
    <2>3. \A x \in T : \E i \in 1..n : t[i] = x
        BY <1>1 DEF Ran, n
    <2>4. \A x \in S \cup T : \E i \in 1..Len(u) : u[i] = x
        BY <1>6, <2>2, <2>3
    <2> QED
        BY <2>1, <2>4 DEF Ran
<1>8. ASSUME NEW i \in 1..Len(u), NEW j \in 1..Len(u), u[i] = u[j]
      PROVE  i = j
    <2>1. CASE i \in 1..m /\ j \in 1..m /\ u[i] = s[i] /\ u[j] = s[j]
        BY <1>8, <2>1 DEF Lists, m
    <2>2. CASE i - m \in 1..n /\ j - m \in 1..n /\ u[i] = t[i - m] /\ u[j] = t[j - m]
        <3>1. i - m = j - m
            BY <1>8, <2>2 DEF Lists, n
        <3>2. i \in Nat /\ j \in Nat
            BY <1>3, <1>4
        <3> QED
            BY <1>3, <3>1, <3>2
    <2>3. ~(u[i] \in S /\ u[i] \in T)
        OBVIOUS
    <2>4. \A k \in 1..m : s[k] \in S
        BY <1>6
    <2>5. \A k \in 1..n : t[k] \in T
        BY <1>6
    <2> QED
        BY <1>5, <1>8, <2>1, <2>2, <2>3, <2>4, <2>5
<1>9. ASSUME Foreseen(s), Foreseen(t)
      PROVE  Foreseen(u)
    <2> SUFFICES ASSUME NEW i \in 1..Len(u), u[i].call = "write"
                 PROVE  i > 1 /\ u[i - 1] = OfUid("find_by_uid", u[i].uid)
        BY DEF Foreseen
    <2>1. CASE i \in 1..m /\ u[i] = s[i]
        <3>1. i > 1 /\ s[i - 1] = OfUid("find_by_uid", s[i].uid)
            BY <1>9, <2>1 DEF Foreseen, m
        <3>2. i - 1 \in 1..m
            BY <1>3, <2>1, <3>1
        <3> QED
            BY <1>6, <2>1, <3>1, <3>2
    <2>2. CASE i - m \in 1..n /\ u[i] = t[i - m] /\ i > m
        <3> DEFINE k == i - m
        <3>1. k > 1 /\ t[k - 1] = OfUid("find_by_uid", t[k].uid)
            BY <1>9, <2>2 DEF Foreseen, n
        <3>2. i \in Nat
            BY <1>3, <1>4
        <3>3. k - 1 \in 1..n /\ (k - 1) + m = i - 1 /\ i > 1
            BY <1>3, <2>2, <3>1, <3>2
        <3> QED
            BY <1>6, <2>2, <3>1, <3>3
    <2> QED
        BY <1>5, <2>1, <2>2
<1> QED
    BY <1>4, <1>7, <1>8, <1>9 DEF Lists, u

\* What is left when the first call was made.
LEMMA ListsTail ==
    ASSUME NEW S, NEW s, Lists(S, s), s # << >>
    PROVE  /\ Head(s) \in S /\ Head(s) = s[1] /\ Lists(S \ {Head(s)}, Tail(s))
           /\ Len(s) \in Nat \ {0} /\ Len(Tail(s)) = Len(s) - 1
           /\ \A i \in 1..Len(Tail(s)) : Tail(s)[i] = s[i + 1]
<1>1. s \in Seq(S) /\ Len(s) \in Nat \ {0} /\ Ran(s) = S
    BY EmptySeq DEF Lists
<1>2. Head(s) \in S /\ Head(s) = s[1] /\ Tail(s) \in Seq(S) /\ Len(Tail(s)) = Len(s) - 1
      /\ \A i \in 1..Len(Tail(s)) : Tail(s)[i] = s[i + 1]
    BY <1>1
<1> DEFINE t == Tail(s)
           n == Len(s)
           m == Len(t)
<1>3. /\ \A i \in 1..m : i + 1 \in 1..n /\ i + 1 # 1 /\ t[i] = s[i + 1]
      /\ \A i \in 1..n : i = 1 \/ (i - 1 \in 1..m /\ t[i - 1] = s[i])
    BY <1>1, <1>2
<1>4. m \in Nat
    BY <1>1, <1>2
<1>5. \A i, j \in 1..n : s[i] = s[j] => i = j
    BY DEF Lists
<1> HIDE DEF t, n, m
<1>6. 1 \in 1..n
    BY <1>1 DEF n
<1>7. \A i \in 1..m : t[i] \in S /\ t[i] # s[1]
    <2>1. \A i \in 1..n : s[i] \in S
        BY <1>1 DEF Ran, n
    <2> QED
        BY <1>3, <1>5, <1>6, <2>1
<1>8. \A x \in S : x # s[1] => \E i \in 1..m : t[i] = x
    <2>1. \A x \in S : \E i \in 1..n : s[i] = x
        BY <1>1 DEF Ran, n
    <2> QED
        BY <1>3, <2>1
<1>9. Ran(t) = S \ {s[1]}
    BY <1>7, <1>8 DEF Ran, m
<1>10. t \in [1..m -> S \ {s[1]}]
    <2>1. t \in [1..m -> S]
        BY <1>2, LenProperties DEF t, m
    <2> QED
        BY <1>7, <2>1
<1>11. t \in Seq(S \ {s[1]})
    BY <1>4, <1>10
<1>12. \A i, j \in 1..m : t[i] = t[j] => i = j
    BY <1>3, <1>4, <1>5
<1> QED
    BY <1>1, <1>2, <1>9, <1>11, <1>12 DEF Lists, t, m

\* A set of keys as a list.
LEMMA KeysAreListed ==
    ASSUME NEW keys \in SUBSET Key
    PROVE  Lists(keys, SetToSeq(keys))
<1>1. IsFiniteSet(Side)
    <2>1. IsFiniteSet({"icloud"}) 
        BY FS_Singleton
    <2>2. IsFiniteSet({"icloud"} \cup {"fastmail"})
        BY <2>1, FS_AddElement
    <2>3. Side = {"icloud"} \cup {"fastmail"}
        BY DEF Side
    <2> QED
        BY <2>2, <2>3
<1>2. IsFiniteSet(Key)
    BY <1>1, DatabaseAssumptions, FS_Product DEF Key, DatabaseAssumptions
<1>3. IsFiniteSet(keys)
    BY <1>2, FS_Subset
<1> DEFINE n == Cardinality(keys)
           s == SetToSeq(keys)
<1>4. n \in Nat /\ ExistsBijection(1..n, keys)
    BY <1>3, FS_CardinalityType
<1>5. \E f \in [1..n -> keys] : IsInjective(f)
    BY <1>4 DEF ExistsBijection, Bijection, Injection
<1>6. s \in [1..n -> keys] /\ IsInjective(s)
    BY <1>5 DEF SetToSeq
<1>7. IsFiniteSet(1..n) /\ Cardinality(1..n) = n
    BY <1>4, FS_Interval
<1>8. s \in Injection(1..n, keys)
    BY <1>6 DEF Injection
<1>9. s \in Surjection(1..n, keys)
    BY <1>3, <1>7, <1>8, FS_Injection
<1> HIDE DEF s, n
<1>10. s \in Seq(keys) /\ Len(s) = n
    BY <1>4, <1>6
<1>11. \A k \in keys : \E i \in 1..n : s[i] = k
    BY <1>9 DEF Surjection
<1>12. Ran(s) = keys
    BY <1>6, <1>10, <1>11 DEF Ran
<1>13. \A i, j \in 1..n : s[i] = s[j] => i = j
    BY <1>6 DEF IsInjective
<1> QED
    BY <1>10, <1>12, <1>13 DEF Lists, s

\* One clear, or one failure, for each key.
LEMMA EachIsListed ==
    ASSUME NEW keys \in SUBSET Key, NEW x
    PROVE  /\ Lists({OfKey(k) : k \in keys}, ClearEach(keys)) /\ Foreseen(ClearEach(keys))
           /\ Lists({FailOf(x, k) : k \in keys}, FailEach(keys, x.etag)) /\ Foreseen(FailEach(keys, x.etag))
<1> DEFINE q == SetToSeq(keys)
           n == Len(q)
           s == ClearEach(keys)
           t == FailEach(keys, x.etag)
           S == {OfKey(k) : k \in keys}
           T == {FailOf(x, k) : k \in keys}
<1>1. Lists(keys, q)
    BY KeysAreListed
<1>2. n \in Nat /\ Ran(q) = keys /\ \A i, j \in 1..n : q[i] = q[j] => i = j
    BY <1>1, LenProperties DEF Lists
<1>3. s = [i \in 1..n |-> OfKey(q[i])] /\ t = [i \in 1..n |-> FailOf(x, q[i])]
    BY DEF ClearEach, FailEach, OfKey, FailOf
<1>4. \A k : OfKey(k).call = "clear" /\ OfKey(k).key = k /\ FailOf(x, k).call = "record_failure" /\ FailOf(x, k).key = k
    BY CallsAre
<1> HIDE DEF q, n, s, t, S, T
<1>5. \A i \in 1..n : q[i] \in keys
    BY <1>2 DEF Ran, n
<1>6. \A k \in keys : \E i \in 1..n : q[i] = k
    BY <1>2 DEF Ran, n
<1>7. s \in [1..n -> S] /\ t \in [1..n -> T]
    BY <1>3, <1>5 DEF S, T
<1>8. s \in Seq(S) /\ Len(s) = n /\ t \in Seq(T) /\ Len(t) = n
    BY <1>2, <1>7
<1>9. Ran(s) = S
    BY <1>3, <1>5, <1>6, <1>8 DEF Ran, S
<1>10. Ran(t) = T
    BY <1>3, <1>5, <1>6, <1>8 DEF Ran, T
<1>11. \A i, j \in 1..n : (s[i] = s[j] => i = j) /\ (t[i] = t[j] => i = j)
    BY <1>2, <1>3, <1>4
<1>12. \A i \in 1..n : s[i].call # "write" /\ t[i].call # "write"
    BY <1>3, <1>4
<1>13. Foreseen(s) /\ Foreseen(t)
    BY <1>8, <1>12 DEF Foreseen
<1>14. Lists(S, s) /\ Lists(T, t)
    BY <1>8, <1>9, <1>10, <1>11 DEF Lists
<1> QED
    BY <1>13, <1>14 DEF s, t, S, T

\* A sequence whose members differ is listed by them.
LEMMA ListsTwoOf ==
    ASSUME NEW s, NEW a, NEW b, s = <<a, b>>, a # b, a.call # "write", b.call # "write"
    PROVE  Lists({a, b}, s) /\ Foreseen(s)
<1>1. Lists({a, b}, s)
    BY ListsTwo
<1>2. Len(s) = 2 /\ s[1] = a /\ s[2] = b
    OBVIOUS
<1> HIDE DEF Lists
<1>3. \A i \in 1..Len(s) : s[i].call # "write"
    <2>1. \A i \in 1..Len(s) : i = 1 \/ i = 2
        BY <1>2
    <2> QED
        BY <1>2, <2>1
<1>4. Foreseen(s)
    BY <1>3 DEF Foreseen
<1> QED
    BY <1>1, <1>4

\* The two tokens of a cycle as calls.
LEMMA TokensAreListed ==
    ASSUME NEW x
    PROVE  Lists({SetTokenOf(x, s) : s \in Side}, SetTokens(x.tokens)) /\ Foreseen(SetTokens(x.tokens))
<1> DEFINE a == SetTokenOf(x, "icloud")
           b == SetTokenOf(x, "fastmail")
<1>1. BothSides[1] = "icloud" /\ BothSides[2] = "fastmail"
    BY DEF BothSides
<1>2. SetTokens(x.tokens) = <<a, b>>
    BY <1>1 DEF SetTokens, SetTokenOf
<1>3. a # b /\ a.call # "write" /\ b.call # "write"
    BY CallsAre
<1>4. {SetTokenOf(x, s) : s \in Side} = {a, b}
    BY DEF Side
<1> HIDE DEF a, b
<1> QED
    BY <1>2, <1>3, <1>4, ListsTwoOf

\* What a transaction has to do is a queue of its calls, each once.
LEMMA CallsAreListed ==
    ASSUME NEW x \in Transaction(Token)
    PROVE  Lists(CallsOf(x), Calls(x)) /\ Foreseen(Calls(x))
<1>1. CASE x.tx = "load"
    <2> DEFINE c == [call |-> "list"]
    <2>1. c.call # "write" /\ CallsOf(x) = {c} /\ Calls(x) = <<c>>
        BY <1>1 DEF CallsOf, Calls
    <2> HIDE DEF c
    <2> QED
        BY <2>1, ListsOne
<1>2. CASE x.tx = "discovery"
    <2> DEFINE a == UpsertOf(x, "icloud")
               b == UpsertOf(x, "fastmail")
    <2>1. BothSides[1] = "icloud" /\ BothSides[2] = "fastmail"
        BY DEF BothSides
    <2>2. Calls(x) = [i \in 1..2 |-> UpsertOf(x, BothSides[i])]
        BY <1>2 DEF Calls, UpsertOf
    <2>3. a # b /\ a.call # "write" /\ b.call # "write"
        BY CallsAre
    <2>4. CallsOf(x) = {a, b}
        BY <1>2 DEF CallsOf, Side
    <2>5. Calls(x) = <<a, b>>
        BY <2>1, <2>2
    <2> HIDE DEF a, b
    <2> QED
        BY <2>3, <2>4, <2>5, ListsTwoOf
<1>3. CASE x.tx = "tokens"
    <2>1. CallsOf(x) = {SetTokenOf(x, s) : s \in Side} /\ Calls(x) = SetTokens(x.tokens)
        BY <1>3 DEF CallsOf, Calls
    <2> QED
        BY <2>1, TokensAreListed
<1>4. CASE x.tx = "reset"
    <2> DEFINE a == DeleteOf("contacts")
               b == DeleteOf("endpoints")
               c == DeleteOf("failures")
               d == DeleteOf("skips")
    <2>1. Calls(x) = <<a, b>> \o <<c, d>>
        <3> DEFINE names == <<"contacts", "endpoints", "failures", "skips">>
        <3>1. names[1] = "contacts" /\ names[2] = "endpoints" /\ names[3] = "failures" /\ names[4] = "skips"
            OBVIOUS
        <3>2. Calls(x) = [i \in 1..4 |-> DeleteOf(names[i])]
            BY <1>4 DEF Calls, DeleteOf
        <3> HIDE DEF names, a, b, c, d
        <3>3. Calls(x) = <<a, b, c, d>>
            BY <3>1, <3>2 DEF a, b, c, d
        <3>4. <<a, b, c, d>> = <<a, b>> \o <<c, d>>
            OBVIOUS
        <3> QED
            BY <3>3, <3>4
    <2>2. a # b /\ c # d /\ {a, b} \cap {c, d} = {}
        BY CallsAre
    <2>3. a.call # "write" /\ b.call # "write" /\ c.call # "write" /\ d.call # "write"
        BY CallsAre
    <2>4. CallsOf(x) = {a, b} \cup {c, d}
        BY <1>4 DEF CallsOf, ResetTables
    <2> HIDE DEF a, b, c, d
    <2>5. /\ Lists({a, b}, <<a, b>>) /\ Foreseen(<<a, b>>)
          /\ Lists({c, d}, <<c, d>>) /\ Foreseen(<<c, d>>)
        BY <2>2, <2>3, ListsTwoOf
    <2>6. Lists({a, b} \cup {c, d}, <<a, b>> \o <<c, d>>) /\ Foreseen(<<a, b>> \o <<c, d>>)
        BY <2>2, <2>5, ListsBoth
    <2> QED
        BY <2>1, <2>4, <2>6
<1>5. ASSUME x.tx \in {"save", "drop", "finish"}
      PROVE  Lists({OfKey(k) : k \in x.clear}, ClearEach(x.clear)) /\ Foreseen(ClearEach(x.clear))
    <2>1. x.clear \in SUBSET Key
        BY <1>5 DEF Transaction, Operation
    <2> QED
        BY <2>1, EachIsListed
<1>6. CASE x.tx = "save"
    <2> DEFINE P == IF x.recreated THEN {OfUid("delete_pending", x.uid)} ELSE {}
               p == IF x.recreated THEN <<OfUid("delete_pending", x.uid)>> ELSE << >>
               f == OfUid("find_by_uid", x.uid)
               w == WriteOf(x)
               K == {OfKey(k) : k \in x.clear}
               k == ClearEach(x.clear)
    <2>1. CallsOf(x) = (P \cup {f, w}) \cup K
        BY <1>6 DEF CallsOf
    <2>2. Calls(x) = (p \o <<f, w>>) \o k
        BY <1>6 DEF Calls, OfUid, WriteOf
    <2>3. f # w /\ P \cap {f, w} = {} /\ (P \cup {f, w}) \cap K = {}
        BY CallsAre
    <2>4. f.call # "write" /\ w.call = "write" /\ f = OfUid("find_by_uid", w.uid)
        BY CallsAre
    <2>5. Lists(P, p) /\ Foreseen(p)
        <3>1. OfUid("delete_pending", x.uid).call # "write"
            BY CallsAre
        <3> QED
            BY <3>1, ListsNothing, ListsOne
    <2>6. Lists(K, k) /\ Foreseen(k)
        BY <1>5, <1>6
    <2> HIDE DEF P, p, f, w, K, k
    <2>7. Lists({f, w}, <<f, w>>)
        BY <2>3, ListsTwo
    <2>8. Foreseen(<<f, w>>)
        <3> DEFINE s == <<f, w>>
        <3>1. Len(s) = 2 /\ s[1] = f /\ s[2] = w
            OBVIOUS
        <3> HIDE DEF s
        <3>2. \A i \in 1..Len(s) : i = 1 \/ i = 2
            BY <3>1
        <3>3. Foreseen(s)
            BY <2>4, <3>1, <3>2 DEF Foreseen
        <3> QED
            BY <3>3 DEF s
    <2>9. Lists(P \cup {f, w}, p \o <<f, w>>) /\ Foreseen(p \o <<f, w>>)
        BY <2>3, <2>5, <2>7, <2>8, ListsBoth
    <2>10. Lists((P \cup {f, w}) \cup K, (p \o <<f, w>>) \o k) /\ Foreseen((p \o <<f, w>>) \o k)
        BY <2>3, <2>6, <2>9, ListsBoth
    <2> QED
        BY <2>1, <2>2, <2>10
<1>7. CASE x.tx = "drop"
    <2> DEFINE c == OfUid("delete_by_uid", x.uid)
               K == {OfKey(k) : k \in x.clear}
               k == ClearEach(x.clear)
    <2>1. CallsOf(x) = {c} \cup K
        BY <1>7 DEF CallsOf
    <2>2. Calls(x) = <<c>> \o k
        BY <1>7 DEF Calls, OfUid
    <2>3. c.call # "write" /\ {c} \cap K = {}
        BY CallsAre
    <2>4. Lists(K, k) /\ Foreseen(k)
        BY <1>5, <1>7
    <2> HIDE DEF c, K, k
    <2>5. Lists({c}, <<c>>) /\ Foreseen(<<c>>)
        BY <2>3, ListsOne
    <2>6. Lists({c} \cup K, <<c>> \o k) /\ Foreseen(<<c>> \o k)
        BY <2>3, <2>4, <2>5, ListsBoth
    <2> QED
        BY <2>1, <2>2, <2>6
<1>8. CASE x.tx \in {"conflict", "journal", "replayed"}
    <2> DEFINE call == IF x.tx = "conflict" THEN "conflict" ELSE IF x.tx = "journal" THEN "upsert_pending" ELSE "delete_pending"
               c == OfUid(call, x.uid)
    <2>1. CallsOf(x) = {c} /\ Calls(x) = <<c>>
        BY <1>8 DEF CallsOf, Calls, OfUid
    <2>2. c.call # "write"
        BY CallsAre
    <2> HIDE DEF c
    <2> QED
        BY <2>1, <2>2, ListsOne
<1>9. CASE x.tx = "fail"
    <2>1. x.keys \in SUBSET Key
        BY <1>9 DEF Transaction, Operation
    <2>2. CallsOf(x) = {FailOf(x, k) : k \in x.keys} /\ Calls(x) = FailEach(x.keys, x.etag)
        BY <1>9 DEF CallsOf, Calls
    <2> QED
        BY <2>1, <2>2, EachIsListed
<1>10. CASE x.tx = "finish"
    <2> DEFINE c == ReplaceOf(x)
               K == {OfKey(k) : k \in x.clear}
               k == ClearEach(x.clear)
               T == {SetTokenOf(x, s) : s \in Side}
               t == SetTokens(x.tokens)
    <2>1. CallsOf(x) = ({c} \cup K) \cup T
        BY <1>10 DEF CallsOf
    <2>2. Calls(x) = (<<c>> \o k) \o t
        BY <1>10 DEF Calls, ReplaceOf
    <2>3. c.call # "write" /\ {c} \cap K = {} /\ ({c} \cup K) \cap T = {}
        BY CallsAre
    <2>4. Lists(K, k) /\ Foreseen(k)
        BY <1>5, <1>10
    <2>5. Lists(T, t) /\ Foreseen(t)
        BY TokensAreListed
    <2> HIDE DEF c, K, k, T, t
    <2>6. Lists({c}, <<c>>) /\ Foreseen(<<c>>)
        BY <2>3, ListsOne
    <2>7. Lists({c} \cup K, <<c>> \o k) /\ Foreseen(<<c>> \o k)
        BY <2>3, <2>4, <2>6, ListsBoth
    <2>8. Lists(({c} \cup K) \cup T, (<<c>> \o k) \o t) /\ Foreseen((<<c>> \o k) \o t)
        BY <2>3, <2>5, <2>7, ListsBoth
    <2> QED
        BY <2>1, <2>2, <2>8
<1>11. x.tx \in {"load", "discovery", "tokens", "reset", "save", "drop", "conflict", "journal", "replayed", "fail", "finish"}
    BY DEF Transaction, Operation
<1> QED
    BY <1>1, <1>2, <1>3, <1>4, <1>6, <1>7, <1>8, <1>9, <1>10, <1>11

(***************************************************************************)
(* The inductive invariant.                                                *)
(***************************************************************************)
\* A contact is written right after it was looked up.
FindsFirst(c) ==
    \A i \in 1..Len(c.todo) : c.todo[i].call = "write" =>
        IF i = 1 THEN c.data # None /\ c.found = FindByUid(c.data, c.todo[i].uid).found
        ELSE c.todo[i - 1] = OfUid("find_by_uid", c.todo[i].uid)

Cycle ==
    [pc : {"rest", "reset", "collections", "load", "listing", "ops"} \cup Awaiting, dryRun : BOOLEAN,
     urls : [Side -> Url] \cup {None}, tokens : [Side -> Token] \cup {None}]

\* What a process may be asking, x, where its cycle is.
AskingOK(x, cy) ==
    /\ x = None <=> cy.pc \notin Awaiting
    /\ cy.pc = "resetting" => x.tx = "reset"
    /\ cy.pc = "recording" => x.tx = "discovery" /\ x.urls = cy.urls
    /\ cy.pc = "loading" => x.tx = "load"
    /\ cy.pc = "operating" => x \in Operation
    /\ cy.pc = "ending" => x.tx \in {"tokens", "finish"}

CycleOK(cy) ==
    /\ cy.pc \in {"recording", "load", "loading", "listing", "ops", "operating", "ending"} => cy.urls # None
    /\ cy.pc \in {"ops", "operating"} => cy.tokens # None
    /\ cy.dryRun => cy.pc \in {"collections", "load", "loading", "listing"}

Types ==
    /\ Keyed(rows)
    /\ conn = [p \in Proc |-> conn[p]] /\ loaded = [p \in Proc |-> loaded[p]]
    /\ asked \in [Proc -> Transaction(Token) \cup {None}]
    /\ cycle \in [Proc -> Cycle]
    /\ known \in [Proc -> [Side -> Url] \cup {None}]
    /\ hosts \in Seq(Url \ {"fastmail"}) /\ hosts # << >>
    /\ resets \in Nat /\ overlap \in BOOLEAN

Errors == {None, "Constraint", "NotFound", "Conflict", "Busy", "Database"}

Fields(c) ==
    /\ c = [open |-> c.open, queryOnly |-> c.queryOnly, data |-> c.data, stale |-> c.stale,
            locked |-> c.locked, todo |-> c.todo, found |-> c.found, error |-> c.error]
    /\ c.open \in BOOLEAN /\ c.queryOnly \in BOOLEAN /\ c.stale \in BOOLEAN /\ c.locked \in BOOLEAN
    /\ c.error \in Errors

\* A snapshot goes stale when somebody commits; only who holds the lock
\* commits, so whoever holds it is not stale.
LockOK(c) ==
    /\ c.data = None \/ Keyed(c.data)
    /\ c.data = None => ~c.stale
    /\ c.locked => ~c.stale /\ (c.error = None => c.data # None)

\* An open connection, in transaction x.
OpenOK(c, x) ==
    /\ c.queryOnly = ReadOnly(x)
    /\ Lists(Ran(c.todo), c.todo) /\ Ran(c.todo) \subseteq CallsOf(x)
    /\ c.data = None => Ran(c.todo) = CallsOf(x)
    /\ FindsFirst(c)
    /\ ReadOnly(x) => ~c.locked /\ c.error = None /\ (c.todo = << >> => c.found = c.data)

\* A connection, closed or in the transaction x its process asked for.
ConnOK(c, x) ==
    /\ Fields(c) /\ LockOK(c)
    /\ c.open <=> x # None
    /\ ~c.open => c = Closed(c.queryOnly)
    /\ c.open => OpenOK(c, x)

\* A snapshot nobody committed over: the committed rows and what the calls
\* that are done did to them.
SnapshotOK(c, x, d) ==
    c.open /\ c.data # None /\ ~c.stale /\ c.error = None =>
        /\ View(c.data) = Half(x, Ran(c.todo), View(d))
        /\ Passed(x, Ran(c.todo), View(d))
        /\ ~c.locked => c.data = d

OneLock == \A p, q \in Proc : conn[p].locked /\ conn[q].locked => p = q

ProcOK(p) ==
    /\ AskingOK(asked[p], cycle[p]) /\ CycleOK(cycle[p])
    /\ ConnOK(conn[p], asked[p]) /\ SnapshotOK(conn[p], asked[p], rows)

Inv == Types /\ OneLock /\ \A p \in Proc : ProcOK(p)

(***************************************************************************)
(* One connection, in each thing it does.                                  *)
(***************************************************************************)
LEMMA NoneIsNoRows == \A d : Keyed(d) => d # None
BY NoneAssumption DEF NoneAssumption, Keyed

\* No transaction is None.
LEMMA NoneIsNoTransaction == \A x \in Transaction(Token) : x # None
BY NoneAssumption DEF NoneAssumption

\* A closed connection is well formed.
LEMMA ClosedOK ==
    ASSUME NEW b \in BOOLEAN, NEW d
    PROVE  ConnOK(Closed(b), None) /\ SnapshotOK(Closed(b), None, d) /\ ~Closed(b).locked
<1> DEFINE c == Closed(b)
<1>1. /\ c.open = FALSE /\ c.queryOnly = b /\ c.data = None /\ c.stale = FALSE
      /\ c.locked = FALSE /\ c.todo = << >> /\ c.found = << >> /\ c.error = None
      /\ c = [open |-> c.open, queryOnly |-> c.queryOnly, data |-> c.data, stale |-> c.stale,
              locked |-> c.locked, todo |-> c.todo, found |-> c.found, error |-> c.error]
    BY DEF Closed
<1>2. c = Closed(c.queryOnly)
    BY <1>1
<1> HIDE DEF c
<1> QED
    BY <1>1, <1>2 DEF ConnOK, Fields, LockOK, Errors, SnapshotOK, c

\* A connection that just began is well formed.
LEMMA BegunOK ==
    ASSUME NEW x \in Transaction(Token), NEW c, NEW d
    PROVE  ConnOK(Begun(c, x), x) /\ SnapshotOK(Begun(c, x), x, d) /\ ~Begun(c, x).locked
<1> DEFINE e == Begun(c, x)
<1>1. /\ e.open = TRUE /\ e.queryOnly = ReadOnly(x) /\ e.data = None /\ e.stale = FALSE
      /\ e.locked = FALSE /\ e.todo = Calls(x) /\ e.found = << >> /\ e.error = None
      /\ e = [open |-> e.open, queryOnly |-> e.queryOnly, data |-> e.data, stale |-> e.stale,
              locked |-> e.locked, todo |-> e.todo, found |-> e.found, error |-> e.error]
    <2> DEFINE z == Closed(ReadOnly(x))
    <2>1. /\ z.queryOnly = ReadOnly(x) /\ z.data = None /\ z.stale = FALSE
          /\ z.locked = FALSE /\ z.found = << >> /\ z.error = None
          /\ z = [open |-> z.open, queryOnly |-> z.queryOnly, data |-> z.data, stale |-> z.stale,
                  locked |-> z.locked, todo |-> z.todo, found |-> z.found, error |-> z.error]
        BY DEF Closed
    <2>2. e = [z EXCEPT !.open = TRUE, !.todo = Calls(x)]
        BY DEF Begun
    <2> HIDE DEF e, z
    <2>3. e = [open |-> TRUE, queryOnly |-> z.queryOnly, data |-> z.data, stale |-> z.stale,
               locked |-> z.locked, todo |-> Calls(x), found |-> z.found, error |-> z.error]
        BY <2>1, <2>2
    <2> QED
        BY <2>1, <2>3
<1>2. Lists(CallsOf(x), Calls(x)) /\ Foreseen(Calls(x))
    BY CallsAreListed
<1>3. Ran(Calls(x)) = CallsOf(x)
    BY <1>2 DEF Lists
<1>4. ReadOnly(x) => Calls(x) # << >>
    BY DEF ReadOnly, Calls
<1> HIDE DEF e
<1>5. FindsFirst(e)
    <2> SUFFICES ASSUME NEW i \in 1..Len(Calls(x)), Calls(x)[i].call = "write"
                 PROVE  i # 1 /\ Calls(x)[i - 1] = OfUid("find_by_uid", Calls(x)[i].uid)
        BY <1>1 DEF FindsFirst
    <2> QED
        BY <1>2 DEF Foreseen
<1>6. x # None
    BY NoneIsNoTransaction
<1>7. OpenOK(e, x)
    BY <1>1, <1>2, <1>3, <1>4, <1>5 DEF OpenOK
<1> QED
    BY <1>1, <1>6, <1>7 DEF ConnOK, Fields, LockOK, Errors, SnapshotOK, ReadOnly, e

\* A statement's first query keeps the connection well formed.
LEMMA QueryOK ==
    ASSUME NEW x \in Transaction(Token), NEW c, ConnOK(c, x), c.open, c.data = None, c.todo # << >>,
           NEW d, Keyed(d), NEW e, e = [c EXCEPT !.data = d]
    PROVE  ConnOK(e, x) /\ SnapshotOK(e, x, d) /\ e.locked = c.locked
<1>1. Fields(c) /\ LockOK(c) /\ OpenOK(c, x) /\ x # None
    BY NoneIsNoTransaction DEF ConnOK
<1>2. /\ e.open = c.open /\ e.queryOnly = c.queryOnly /\ e.data = d /\ e.stale = c.stale
      /\ e.locked = c.locked /\ e.todo = c.todo /\ e.found = c.found /\ e.error = c.error
      /\ e = [open |-> e.open, queryOnly |-> e.queryOnly, data |-> e.data, stale |-> e.stale,
              locked |-> e.locked, todo |-> e.todo, found |-> e.found, error |-> e.error]
    BY <1>1 DEF Fields
<1>3. Fields(e)
    BY <1>1, <1>2 DEF Fields
<1>4. d # None
    BY NoneIsNoRows
<1>5. ~c.stale /\ (c.locked => c.error # None)
    BY <1>1 DEF LockOK
<1>6. LockOK(e)
    BY <1>2, <1>4, <1>5 DEF LockOK
<1>7. FindsFirst(e)
    <2>1. FindsFirst(c)
        BY <1>1 DEF OpenOK
    <2> QED
        BY <1>2, <2>1 DEF FindsFirst
<1>8. OpenOK(e, x)
    BY <1>1, <1>2, <1>4, <1>7 DEF OpenOK
<1>9. Ran(c.todo) = CallsOf(x)
    BY <1>1 DEF OpenOK
<1>10. Half(x, Ran(c.todo), View(d)) = View(d) /\ Passed(x, Ran(c.todo), View(d))
    BY <1>9, ViewIsTabular, HalfStart
<1>11. SnapshotOK(e, x, d)
    BY <1>2, <1>10 DEF SnapshotOK
<1> QED
    BY <1>1, <1>2, <1>3, <1>6, <1>8, <1>11 DEF ConnOK

\* A connection whose snapshot somebody committed over.
LEMMA StaleOK ==
    ASSUME NEW x, NEW c, ConnOK(c, x), ~c.locked, c.data # None, NEW d, NEW e, e = [c EXCEPT !.stale = TRUE]
    PROVE  ConnOK(e, x) /\ SnapshotOK(e, x, d) /\ ~e.locked
<1>1. Fields(c) /\ LockOK(c)
    BY DEF ConnOK
<1>2. /\ e.open = c.open /\ e.queryOnly = c.queryOnly /\ e.data = c.data /\ e.stale = TRUE
      /\ e.locked = c.locked /\ e.todo = c.todo /\ e.found = c.found /\ e.error = c.error
      /\ e = [open |-> e.open, queryOnly |-> e.queryOnly, data |-> e.data, stale |-> e.stale,
              locked |-> e.locked, todo |-> e.todo, found |-> e.found, error |-> e.error]
    BY <1>1 DEF Fields
<1>3. Fields(e) /\ LockOK(e)
    BY <1>1, <1>2 DEF Fields, LockOK
<1>4. c.open
    <2>1. ~c.open => c.data = None
        BY DEF ConnOK, Closed
    <2> QED
        BY <2>1
<1>5. OpenOK(c, x)
    BY <1>4 DEF ConnOK
<1>6. FindsFirst(e)
    <2>1. FindsFirst(c)
        BY <1>5 DEF OpenOK
    <2> QED
        BY <1>2, <2>1 DEF FindsFirst
<1>7. OpenOK(e, x)
    BY <1>2, <1>5, <1>6 DEF OpenOK
<1>8. SnapshotOK(e, x, d)
    BY <1>2 DEF SnapshotOK
<1> QED
    BY <1>2, <1>3, <1>4, <1>7, <1>8 DEF ConnOK

\* A statement that failed: the transaction does nothing more.
FailedConn(c, error, locked) == [c EXCEPT !.error = error, !.locked = locked]

\* So does a statement that fails.
LEMMA FailedOK ==
    ASSUME NEW x, NEW c, ConnOK(c, x), c.open, ~ReadOnly(x), NEW error \in Errors \ {None},
           NEW b \in BOOLEAN, b => ~c.stale,
           NEW e, e = FailedConn(c, error, b), NEW d
    PROVE  ConnOK(e, x) /\ SnapshotOK(e, x, d) /\ e.locked = b
<1>1. Fields(c) /\ LockOK(c) /\ OpenOK(c, x) /\ x # None
    BY DEF ConnOK
<1>2. /\ e.open = c.open /\ e.queryOnly = c.queryOnly /\ e.data = c.data /\ e.stale = c.stale
      /\ e.locked = b /\ e.todo = c.todo /\ e.found = c.found /\ e.error = error
      /\ e = [open |-> e.open, queryOnly |-> e.queryOnly, data |-> e.data, stale |-> e.stale,
              locked |-> e.locked, todo |-> e.todo, found |-> e.found, error |-> e.error]
    BY <1>1 DEF Fields, FailedConn
<1>3. Fields(e)
    BY <1>1, <1>2 DEF Fields
<1>4. LockOK(e)
    BY <1>1, <1>2 DEF LockOK
<1>5. FindsFirst(e)
    <2>1. FindsFirst(c)
        BY <1>1 DEF OpenOK
    <2> QED
        BY <1>2, <2>1 DEF FindsFirst
<1>6. OpenOK(e, x)
    BY <1>1, <1>2, <1>5 DEF OpenOK
<1>7. SnapshotOK(e, x, d)
    BY <1>2 DEF SnapshotOK
<1> QED
    BY <1>1, <1>2, <1>3, <1>4, <1>6, <1>7 DEF ConnOK

\* The rows a statement of c works on.
Reads(c, d) == IF c.data = None THEN d ELSE c.data

\* A statement that went well brings the snapshot one call on.
WentConn(c, done, wrote) ==
    [c EXCEPT !.data = done.rows, !.found = done.found, !.todo = Tail(@), !.locked = @ \/ wrote]

\* So does a statement that goes through, whose tables are then one call further.
LEMMA WentOK ==
    ASSUME NEW x \in Transaction(Token), NEW c, ConnOK(c, x), c.open, c.error = None, c.todo # << >>,
           NEW d, Keyed(d), SnapshotOK(c, x, d),
           NEW call, call = Head(c.todo), c.data = None => ~QueriesFirst(call),
           NEW data, data = Reads(c, d),
           NEW wrote \in BOOLEAN, wrote <=> Writes(call, data), wrote => ~c.stale /\ ~c.queryOnly,
           NEW done, done = Call(call, data, c.found), done.error = None,
           NEW e, e = WentConn(c, done, wrote)
    PROVE  ConnOK(e, x) /\ SnapshotOK(e, x, d) /\ e.locked = (c.locked \/ wrote)
<1>1. Fields(c) /\ LockOK(c) /\ OpenOK(c, x) /\ x # None
    BY NoneIsNoTransaction DEF ConnOK
<1>2. Lists(Ran(c.todo), c.todo) /\ Ran(c.todo) \subseteq CallsOf(x) /\ FindsFirst(c)
    BY <1>1 DEF OpenOK
<1> DEFINE cs == Ran(c.todo)
           less == cs \ {call}
           todo == Tail(c.todo)
<1>3. /\ call \in cs /\ call = c.todo[1] /\ Lists(less, todo)
      /\ Len(c.todo) \in Nat \ {0} /\ Len(todo) = Len(c.todo) - 1
      /\ \A i \in 1..Len(todo) : todo[i] = c.todo[i + 1]
    BY <1>2, ListsTail
<1>4. call \in CallsOf(x) /\ call \in AnyCall /\ Fits(call, x)
    BY <1>2, <1>3, CallsFit
<1>5. Ran(todo) = less /\ less \subseteq CallsOf(x)
    BY <1>2, <1>3 DEF Lists
<1>6. /\ e.open = c.open /\ e.queryOnly = c.queryOnly /\ e.data = done.rows /\ e.stale = c.stale
      /\ e.locked = (c.locked \/ wrote) /\ e.todo = todo /\ e.found = done.found /\ e.error = None
      /\ e = [open |-> e.open, queryOnly |-> e.queryOnly, data |-> e.data, stale |-> e.stale,
              locked |-> e.locked, todo |-> e.todo, found |-> e.found, error |-> e.error]
    BY <1>1 DEF Fields, WentConn
<1>7. Keyed(data)
    BY <1>1 DEF Reads, LockOK
<1>8. call.call = "write" => data = c.data /\ c.found = FindByUid(data, call.uid).found
    <2>1. call.call = "write" => c.data # None /\ c.found = FindByUid(c.data, call.uid).found
        <3>1. 1 \in 1..Len(c.todo)
            BY <1>3
        <3> QED
            BY <1>2, <1>3, <3>1 DEF FindsFirst
    <2> QED
        BY <2>1 DEF Reads
<1>9. Went(call, data, done.rows)
    BY <1>4, <1>7, <1>8, CallWent
<1>10. Keyed(done.rows) /\ done.rows # None
    BY <1>9, NoneIsNoRows DEF Went
<1> HIDE DEF cs, less, todo
<1>11. Fields(e)
    BY <1>1, <1>6 DEF Fields
<1>12. LockOK(e)
    BY <1>1, <1>6, <1>10 DEF LockOK
<1>13. \A i \in 1..Len(todo) : todo[i].call = "write" =>
          IF i = 1 THEN done.found = FindByUid(done.rows, todo[i].uid).found
          ELSE todo[i - 1] = OfUid("find_by_uid", todo[i].uid)
    <2> SUFFICES ASSUME NEW i \in 1..Len(todo), todo[i].call = "write"
                 PROVE  IF i = 1 THEN done.found = FindByUid(done.rows, todo[i].uid).found
                        ELSE todo[i - 1] = OfUid("find_by_uid", todo[i].uid)
        OBVIOUS
    <2>1. i + 1 \in 1..Len(c.todo) /\ i + 1 # 1 /\ todo[i] = c.todo[i + 1] /\ (i + 1) - 1 = i
        BY <1>3
    <2>2. c.todo[i] = OfUid("find_by_uid", todo[i].uid)
        BY <1>2, <2>1 DEF FindsFirst
    <2>3. CASE i = 1
        <3>1. call = OfUid("find_by_uid", todo[i].uid) /\ call.call = "find_by_uid" /\ call.uid = todo[i].uid
            BY <1>3, <2>2, <2>3, CallsAre
        <3>2. done.rows = data /\ done.found = FindByUid(data, call.uid).found
            BY <1>4, <3>1, CallErrors
        <3> QED
            BY <2>3, <3>1, <3>2
    <2>4. CASE i # 1
        <3>1. i - 1 \in 1..Len(todo) /\ (i - 1) + 1 = i
            BY <2>4
        <3>2. todo[i - 1] = c.todo[i]
            BY <1>3, <3>1
        <3> QED
            BY <2>2, <2>4, <3>2
    <2> QED
        BY <2>3, <2>4
<1>14. ReadOnly(x) => ~e.locked /\ e.found = e.data
    <2> SUFFICES ASSUME ReadOnly(x)
                 PROVE  ~e.locked /\ e.found = e.data
        OBVIOUS
    <2>1. call.call = "list"
        BY <1>4 DEF ReadOnly, CallsOf
    <2>2. done.rows = data /\ done.found = data
        BY <1>4, <2>1, CallErrors
    <2>3. c.queryOnly /\ ~c.locked
        BY <1>1 DEF OpenOK
    <2> QED
        BY <1>6, <2>2, <2>3
<1>15. OpenOK(e, x)
    <2>1. e.queryOnly = ReadOnly(x)
        BY <1>1, <1>6 DEF OpenOK
    <2>2. Lists(Ran(e.todo), e.todo) /\ Ran(e.todo) \subseteq CallsOf(x)
        <3>1. Lists(Ran(todo), todo)
            BY <1>3, <1>5
        <3> QED
            BY <1>5, <1>6, <3>1
    <2>3. e.data # None /\ e.error = None
        BY <1>6, <1>10
    <2>4. FindsFirst(e)
        <3>1. e.todo = todo /\ e.data # None /\ e.data = done.rows /\ e.found = done.found
            BY <1>6, <2>3
        <3> QED
            BY <1>13, <3>1 DEF FindsFirst
    <2> QED
        BY <1>14, <2>1, <2>2, <2>3, <2>4 DEF OpenOK
<1>16. SnapshotOK(e, x, d)
    <2> SUFFICES ASSUME ~c.stale
                 PROVE  /\ View(done.rows) = Half(x, less, View(d))
                        /\ Passed(x, less, View(d))
                        /\ ~e.locked => done.rows = d
        BY <1>5, <1>6 DEF SnapshotOK
    <2>1. View(data) = Half(x, cs, View(d)) /\ Passed(x, cs, View(d)) /\ (~c.locked => data = d)
        <3>1. CASE c.data # None
            BY <3>1 DEF SnapshotOK, Reads, cs
        <3>2. CASE c.data = None
            <4>1. data = d /\ cs = CallsOf(x)
                BY <1>1, <3>2 DEF Reads, OpenOK, cs
            <4>2. Half(x, cs, View(d)) = View(d) /\ Passed(x, cs, View(d))
                BY <4>1, ViewIsTabular, HalfStart
            <4> QED
                BY <4>1, <4>2
        <3> QED
            BY <3>1, <3>2
    <2>2. View(done.rows) = Does(call, View(data)) /\ Passes(call, View(data))
        BY <1>9 DEF Went
    <2>3. Passes(call, Half(x, cs, View(d)))
        BY <2>1, <2>2
    <2>4. Does(call, Half(x, cs, View(d))) = Half(x, less, View(d)) /\ Passed(x, less, View(d))
        <3>1. cs \subseteq CallsOf(x) /\ call \in cs /\ less = cs \ {call}
            BY <1>2, <1>3 DEF cs, less
        <3>2. Tabular(View(d))
            BY ViewIsTabular
        <3> QED
            BY <2>1, <2>3, <3>1, <3>2, HalfStep
    <2>5. ~e.locked => done.rows = data /\ data = d
        <3> SUFFICES ASSUME ~e.locked
                     PROVE  done.rows = data /\ data = d
            OBVIOUS
        <3>1. ~c.locked /\ ~wrote
            BY <1>6
        <3>2. done.rows = data
            BY <1>4, <1>7, <3>1, CallReads
        <3> QED
            BY <2>1, <3>1, <3>2
    <2> QED
        BY <2>1, <2>2, <2>4, <2>5
<1> QED
    BY <1>1, <1>6, <1>11, <1>12, <1>15, <1>16 DEF ConnOK

(***************************************************************************)
(* The invariant is inductive.                                             *)
(***************************************************************************)
\* A step of p alone that commits nothing.
LEMMA OneMoves ==
    ASSUME Inv, Types', NEW p \in Proc, rows' = rows,
           \A q \in Proc \ {p} : conn'[q] = conn[q] /\ asked'[q] = asked[q] /\ cycle'[q] = cycle[q],
           ProcOK(p)', conn'[p].locked => conn[p].locked \/ ~SomeoneElseHolds(p)
    PROVE  Inv'
<1>1. \A q \in Proc \ {p} : ProcOK(q)'
    BY DEF Inv, ProcOK
<1>2. OneLock'
    BY DEF Inv, OneLock, SomeoneElseHolds
<1> QED
    BY <1>1, <1>2 DEF Inv

\* A step of p's cycle that asks for nothing.
LEMMA Goes ==
    ASSUME Inv, NEW p \in Proc, asked[p] = None, UNCHANGED <<rows, conn, asked, hosts, resets>>, overlap' \in BOOLEAN,
           NEW cy \in Cycle, cycle' = [cycle EXCEPT ![p] = cy], AskingOK(None, cy), CycleOK(cy),
           known' \in [Proc -> [Side -> Url] \cup {None}], loaded' = [q \in Proc |-> loaded'[q]]
    PROVE  Inv'
<1>1. Types'
    BY DEF Inv, Types
<1>2. cycle'[p] = cy /\ \A q \in Proc \ {p} : cycle'[q] = cycle[q]
    BY DEF Inv, Types
<1>3. ProcOK(p)'
    BY <1>2 DEF Inv, ProcOK
<1> QED
    BY <1>1, <1>2, <1>3, OneMoves

\* A step of p's cycle that asks for transaction x.
LEMMA Asks ==
    ASSUME Inv, NEW p \in Proc, NEW x \in Transaction(Token), Begin(p, x), UNCHANGED <<rows, loaded, known, hosts, resets, overlap>>,
           NEW cy \in Cycle, cycle' = [cycle EXCEPT ![p] = cy], AskingOK(x, cy), CycleOK(cy)
    PROVE  Inv'
<1>1. /\ asked' = [asked EXCEPT ![p] = x] /\ asked'[p] = x
      /\ conn' = [conn EXCEPT ![p] = Begun(conn[p], x)] /\ conn'[p] = Begun(conn[p], x)
      /\ \A q \in Proc \ {p} : conn'[q] = conn[q] /\ asked'[q] = asked[q] /\ cycle'[q] = cycle[q]
      /\ cycle'[p] = cy
    BY DEF Inv, Types, Begin
<1>2. Types'
    BY <1>1 DEF Inv, Types
<1>3. ConnOK(conn'[p], x) /\ SnapshotOK(conn'[p], x, rows) /\ ~conn'[p].locked
    BY <1>1, BegunOK
<1>4. ProcOK(p)'
    BY <1>1, <1>3 DEF ProcOK
<1> QED
    BY <1>1, <1>2, <1>3, <1>4, OneMoves

\* Inv holds initially.
LEMMA InitInv == Init => Inv
<1> SUFFICES ASSUME Init
             PROVE  Inv
    OBVIOUS
<1>1. conn = [p \in Proc |-> conn[p]] /\ \A p \in Proc : conn[p] = Closed(FALSE) /\ asked[p] = None /\ cycle[p] = Resting
    BY DEF Init
<1>2. Resting \in Cycle /\ AskingOK(None, Resting) /\ CycleOK(Resting)
    BY DEF Resting, Cycle, AskingOK, CycleOK, Awaiting
<1>3. Keyed(rows)
    BY NoRowsKeyed DEF Init
<1>4. hosts \in Seq(Url \ {"fastmail"}) /\ hosts # << >>
    <2>1. PICK url \in Homes : hosts = <<url>>
        BY DEF Init
    <2>2. url \in Url \ {"fastmail"}
        BY DatabaseAssumptions DEF DatabaseAssumptions
    <2> QED
        BY <2>1, <2>2
<1>5. Types
    BY <1>1, <1>2, <1>3, <1>4 DEF Init, Types
<1>6. ~Closed(FALSE).locked /\ ConnOK(Closed(FALSE), None) /\ SnapshotOK(Closed(FALSE), None, rows)
    BY ClosedOK
<1>7. OneLock
    BY <1>1, <1>6 DEF OneLock
<1>8. \A p \in Proc : ProcOK(p)
    BY <1>1, <1>2, <1>6 DEF ProcOK
<1> QED
    BY <1>5, <1>7, <1>8 DEF Inv

\* A query keeps Inv.
LEMMA QueryInv ==
    ASSUME Inv, NEW p \in Proc, Query(p)
    PROVE  Inv'
<1> DEFINE c == conn[p]
           e == [c EXCEPT !.data = rows]
<1>1. c.open /\ c.data = None /\ c.todo # << >>
    BY DEF Query, InCall
<1>2. Keyed(rows) /\ asked[p] \in Transaction(Token) \cup {None}
    BY DEF Inv, Types
<1>3. ConnOK(c, asked[p])
    BY DEF Inv, ProcOK
<1>4. asked[p] \in Transaction(Token)
    BY <1>1, <1>2, <1>3 DEF ConnOK
<1>5. /\ conn' = [conn EXCEPT ![p] = e] /\ conn'[p] = e /\ \A q \in Proc \ {p} : conn'[q] = conn[q]
      /\ UNCHANGED <<rows, asked, loaded, cycle, known, hosts, resets, overlap>>
    BY DEF Query, Inv, Types
<1>6. Types'
    BY <1>5 DEF Inv, Types
<1>7. ConnOK(e, asked[p]) /\ SnapshotOK(e, asked[p], rows) /\ e.locked = c.locked
    BY <1>1, <1>2, <1>3, <1>4, QueryOK
<1> HIDE DEF e
<1>8. ProcOK(p)'
    BY <1>5, <1>7 DEF Inv, ProcOK
<1> QED
    BY <1>5, <1>6, <1>7, <1>8, OneMoves

\* What a statement of p does to its connection.
LEMMA StatementConn ==
    ASSUME Inv, NEW p \in Proc, Statement(p)
    PROVE  /\ \A q \in Proc \ {p} : conn'[q] = conn[q]
           /\ conn' = [q \in Proc |-> conn'[q]]
           /\ ConnOK(conn'[p], asked[p]) /\ SnapshotOK(conn'[p], asked[p], rows)
           /\ conn'[p].locked => conn[p].locked \/ ~SomeoneElseHolds(p)
           /\ conn[p].locked => conn'[p].locked
           /\ conn'[p].queryOnly = conn[p].queryOnly /\ conn'[p].open
           /\ conn'[p].stale = conn[p].stale
<1> DEFINE c == conn[p]
           x == asked[p]
           call == Head(c.todo)
           data == Reads(c, rows)
           wrote == Writes(call, data)
           done == Call(call, data, c.found)
           e == conn'[p]
<1>1. c.open /\ c.error = None /\ c.todo # << >> /\ (c.data = None => ~QueriesFirst(call))
    BY DEF Statement, InCall
<1>2. Keyed(rows) /\ x \in Transaction(Token) \cup {None} /\ conn = [q \in Proc |-> conn[q]]
    BY DEF Inv, Types
<1>3. ConnOK(c, x) /\ SnapshotOK(c, x, rows)
    BY DEF Inv, ProcOK
<1>4. x \in Transaction(Token) /\ OpenOK(c, x) /\ Fields(c) /\ LockOK(c)
    BY <1>1, <1>2, <1>3 DEF ConnOK
<1>5. call \in AnyCall /\ call \in CallsOf(x)
    <2>1. call \in Ran(c.todo) /\ Ran(c.todo) \subseteq CallsOf(x)
        BY <1>1, <1>4, ListsTail DEF OpenOK
    <2> QED
        BY <1>4, <2>1, CallsFit
<1>6. PICK refusal \in IF wrote THEN Refusals(p) ELSE {None} :
          conn' = [conn EXCEPT ![p] = IF refusal = None THEN Finished(p, done, wrote) ELSE [@ EXCEPT !.error = DbError(refusal)]]
    BY DEF Statement, Reads
<1>7. wrote \in BOOLEAN
    BY DEF Writes
<1> HIDE DEF wrote
<1>8. /\ \A q \in Proc \ {p} : conn'[q] = conn[q]
      /\ conn' = [q \in Proc |-> conn'[q]]
      /\ e = IF refusal = None THEN Finished(p, done, wrote) ELSE [c EXCEPT !.error = DbError(refusal)]
    BY <1>2, <1>6
<1>9. ReadOnly(x) => call.call = "list" /\ ~wrote /\ refusal = None /\ done.error = None
    <2> SUFFICES ASSUME ReadOnly(x)
                 PROVE  call.call = "list" /\ ~wrote /\ refusal = None /\ done.error = None
        OBVIOUS
    <2>1. call.call = "list"
        BY <1>5 DEF ReadOnly, CallsOf
    <2>2. ~wrote
        BY <2>1 DEF Writes, wrote
    <2>3. done.error = None
        BY <1>5, <2>1, CallErrors
    <2> QED
        BY <1>6, <2>1, <2>2, <2>3
<1>10. CASE refusal # None
    <2>1. wrote /\ refusal \in Refusals(p) /\ ~ReadOnly(x)
        BY <1>6, <1>9, <1>10
    <2>2. ~c.queryOnly
        BY <1>4, <2>1 DEF OpenOK
    <2>3. refusal \in {"5", "517"}
        BY <1>10, <2>1, <2>2 DEF Refusals
    <2>4. DbError(refusal) \in Errors \ {None}
        BY <2>3, NoneAssumption DEF DbError, Errors, NoneAssumption
    <2>5. c.locked \in BOOLEAN /\ (c.locked => ~c.stale)
        BY <1>4 DEF Fields, LockOK
    <2>6. c = [open |-> c.open, queryOnly |-> c.queryOnly, data |-> c.data, stale |-> c.stale,
               locked |-> c.locked, todo |-> c.todo, found |-> c.found, error |-> c.error]
        BY <1>4 DEF Fields
    <2>7. e = FailedConn(c, DbError(refusal), c.locked)
        BY <1>8, <1>10, <2>6 DEF FailedConn
    <2> HIDE DEF c, e, x
    <2>8. ConnOK(e, x) /\ SnapshotOK(e, x, rows) /\ e.locked = c.locked
        BY <1>1, <1>3, <2>1, <2>4, <2>5, <2>7, FailedOK
    <2>9. e.queryOnly = c.queryOnly /\ e.open /\ e.stale = c.stale
        BY <1>1, <2>6, <2>7 DEF FailedConn
    <2> QED
        BY <1>8, <2>8, <2>9 DEF c, e, x
<1>11. ASSUME refusal = None, wrote
       PROVE  ~c.stale /\ ~c.queryOnly /\ ~SomeoneElseHolds(p)
    <2>1. None \in Refusals(p)
        BY <1>6, <1>11
    <2>2. None \notin {"readonly", "517", "5"}
        BY NoneAssumption DEF NoneAssumption
    <2> QED
        BY <2>1, <2>2 DEF Refusals
<1>12. CASE refusal = None /\ done.error # None
    <2>1. e = [c EXCEPT !.error = DbError(done.error), !.locked = @ \/ wrote]
        BY <1>8, <1>12 DEF Finished
    <2>2. DbError(done.error) \in Errors \ {None}
        <3>1. done.error \in {"unique", "NotFound", "Conflict"}
            BY <1>5, <1>12, CallErrors
        <3> QED
            BY <3>1, NoneAssumption DEF DbError, Errors, NoneAssumption
    <2>3. (c.locked \/ wrote) \in BOOLEAN /\ (c.locked \/ wrote => ~c.stale)
        BY <1>4, <1>11, <1>12 DEF LockOK
    <2>4. ~ReadOnly(x)
        BY <1>9, <1>12
    <2>5. c = [open |-> c.open, queryOnly |-> c.queryOnly, data |-> c.data, stale |-> c.stale,
               locked |-> c.locked, todo |-> c.todo, found |-> c.found, error |-> c.error]
        BY <1>4 DEF Fields
    <2>6. e = FailedConn(c, DbError(done.error), c.locked \/ wrote)
        BY <2>1 DEF FailedConn
    <2> HIDE DEF c, e, x, done
    <2>7. ConnOK(e, x) /\ SnapshotOK(e, x, rows) /\ e.locked = (c.locked \/ wrote)
        BY <1>1, <1>3, <2>2, <2>3, <2>4, <2>6, FailedOK
    <2>8. e.queryOnly = c.queryOnly /\ e.open /\ e.stale = c.stale
        BY <1>1, <2>5, <2>6 DEF FailedConn
    <2> QED
        BY <1>8, <1>11, <1>12, <2>7, <2>8 DEF c, e, x
<1>13. CASE refusal = None /\ done.error = None
    <2>1. e = WentConn(c, done, wrote)
        BY <1>8, <1>13 DEF Finished, WentConn
    <2>2. c = [open |-> c.open, queryOnly |-> c.queryOnly, data |-> c.data, stale |-> c.stale,
               locked |-> c.locked, todo |-> c.todo, found |-> c.found, error |-> c.error]
        BY <1>4 DEF Fields
    <2>3. wrote => ~c.stale /\ ~c.queryOnly
        BY <1>11, <1>13
    <2>4. wrote <=> Writes(call, data)
        BY DEF wrote
    <2> HIDE DEF c, e, x, call, data
    <2>5. done = Call(call, data, c.found) /\ call = Head(c.todo) /\ data = Reads(c, rows)
        BY DEF call, data
    <2> HIDE DEF done
    <2>6. ConnOK(e, x) /\ SnapshotOK(e, x, rows) /\ e.locked = (c.locked \/ wrote)
        BY <1>1, <1>2, <1>3, <1>4, <1>7, <1>13, <2>1, <2>3, <2>4, <2>5, WentOK
    <2>7. e.queryOnly = c.queryOnly /\ e.open /\ e.stale = c.stale
        BY <1>1, <2>1, <2>2 DEF WentConn
    <2> QED
        BY <1>8, <1>11, <1>13, <2>6, <2>7 DEF c, e, x
<1> QED
    BY <1>10, <1>12, <1>13

\* A statement keeps Inv.
LEMMA StatementInv ==
    ASSUME Inv, NEW p \in Proc, Statement(p)
    PROVE  Inv'
<1>1. UNCHANGED <<rows, asked, loaded, cycle, known, hosts, resets, overlap>>
    BY DEF Statement
<1>2. /\ \A q \in Proc \ {p} : conn'[q] = conn[q]
      /\ conn' = [q \in Proc |-> conn'[q]]
      /\ ConnOK(conn'[p], asked[p]) /\ SnapshotOK(conn'[p], asked[p], rows)
      /\ conn'[p].locked => conn[p].locked \/ ~SomeoneElseHolds(p)
    BY StatementConn
<1>3. Types'
    BY <1>1, <1>2 DEF Inv, Types
<1>4. ProcOK(p)'
    BY <1>1, <1>2 DEF Inv, ProcOK
<1> QED
    BY <1>1, <1>2, <1>3, <1>4, OneMoves

\* Where a cycle is after its transaction.
LEMMA ResumeCycle ==
    ASSUME Inv, NEW p \in Proc, NEW error, Resume(p, error), asked[p] # None
    PROVE  /\ asked' = [asked EXCEPT ![p] = None]
           /\ \A q \in Proc \ {p} : cycle'[q] = cycle[q]
           /\ cycle' \in [Proc -> Cycle] /\ AskingOK(None, cycle'[p]) /\ CycleOK(cycle'[p])
           /\ known' \in [Proc -> [Side -> Url] \cup {None}] /\ loaded' = [q \in Proc |-> loaded'[q]]
<1>1. /\ cycle \in [Proc -> Cycle] /\ known \in [Proc -> [Side -> Url] \cup {None}]
      /\ loaded = [q \in Proc |-> loaded[q]]
    BY DEF Inv, Types
<1> DEFINE cy == cycle[p]
           over == Fatal(p, error) \/ cy.pc = "ending"
<1>2. cy \in Cycle /\ AskingOK(asked[p], cy) /\ CycleOK(cy)
    BY <1>1 DEF Inv, ProcOK
<1>3. cy.pc \in Awaiting
    BY <1>2 DEF AskingOK
<1>4. asked' = [asked EXCEPT ![p] = None]
    BY DEF Resume
<1>5. CASE over
    <2>1. cycle' = [cycle EXCEPT ![p] = Resting] /\ loaded' = [loaded EXCEPT ![p] = None] /\ known' = Kept(p, known[p])
        BY <1>5 DEF Resume, Over
    <2>2. Resting \in Cycle /\ AskingOK(None, Resting) /\ CycleOK(Resting)
        BY DEF Resting, Cycle, AskingOK, CycleOK, Awaiting
    <2>3. known' \in [Proc -> [Side -> Url] \cup {None}]
        BY <1>1, <2>1 DEF Kept
    <2> QED
        BY <1>1, <1>4, <2>1, <2>2, <2>3
<1>6. CASE ~over
    <2> DEFINE next == [cy EXCEPT !.pc = After(cy.pc)]
    <2>1. /\ cycle' = [cycle EXCEPT ![p] = next]
          /\ known' = CASE cy.pc = "resetting" -> [known EXCEPT ![p] = None]
                        [] cy.pc = "recording" -> [known EXCEPT ![p] = cy.urls]
                        [] OTHER -> known
          /\ loaded' = IF cy.pc = "loading" THEN [loaded EXCEPT ![p] = Loaded(conn[p].found)] ELSE loaded
        BY <1>6 DEF Resume, Goto
    <2>2. cy.pc \in {"resetting", "recording", "loading", "operating"}
        BY <1>3, <1>6 DEF Awaiting
    <2>3. /\ cy.pc = "resetting" => After(cy.pc) = "collections"
          /\ cy.pc = "recording" => After(cy.pc) = "load"
          /\ cy.pc = "loading" => After(cy.pc) = "listing"
          /\ cy.pc = "operating" => After(cy.pc) = "ops"
        BY DEF After
    <2>4. After(cy.pc) \in {"collections", "load", "listing", "ops"}
        BY <2>2, <2>3
    <2>5. /\ next \in Cycle /\ next.pc = After(cy.pc) /\ next.urls = cy.urls
          /\ next.tokens = cy.tokens /\ next.dryRun = cy.dryRun
        BY <1>2, <2>4 DEF Cycle
    <2>6. AskingOK(None, next)
        BY <2>4, <2>5 DEF AskingOK, Awaiting
    <2>7. CycleOK(next)
        BY <1>2, <2>2, <2>3, <2>5 DEF CycleOK
    <2> HIDE DEF next
    <2>8. cycle' \in [Proc -> Cycle] /\ cycle'[p] = next /\ \A q \in Proc \ {p} : cycle'[q] = cycle[q]
        BY <1>1, <2>1, <2>5
    <2>9. cy.urls \in [Side -> Url] \cup {None}
        BY <1>2 DEF Cycle
    <2>10. known' \in [Proc -> [Side -> Url] \cup {None}]
        BY <1>1, <2>1, <2>2, <2>9
    <2>11. loaded' = [q \in Proc |-> loaded'[q]]
        BY <1>1, <2>1
    <2> QED
        BY <1>4, <2>6, <2>7, <2>8, <2>10, <2>11
<1> QED
    BY <1>5, <1>6

\* A commit keeps Inv.
LEMMA CommitInv ==
    ASSUME Inv, NEW p \in Proc, Commit(p)
    PROVE  Inv'
<1> DEFINE c == conn[p]
           x == asked[p]
<1>1. /\ x # None /\ c.error = None /\ c.todo = << >>
      /\ rows' = (IF c.locked THEN c.data ELSE rows)
      /\ conn' = Committed(p)
      /\ resets' = resets + (IF x.tx = "reset" THEN 1 ELSE 0)
      /\ Resume(p, None) /\ UNCHANGED <<hosts, overlap>>
    BY DEF Commit
<1>2. /\ asked' = [asked EXCEPT ![p] = None]
      /\ \A q \in Proc \ {p} : cycle'[q] = cycle[q]
      /\ cycle' \in [Proc -> Cycle] /\ AskingOK(None, cycle'[p]) /\ CycleOK(cycle'[p])
      /\ known' \in [Proc -> [Side -> Url] \cup {None}] /\ loaded' = [q \in Proc |-> loaded'[q]]
    BY <1>1, ResumeCycle
<1>3. ConnOK(c, x) /\ Fields(c) /\ LockOK(c)
    BY DEF Inv, ProcOK, ConnOK
<1>4. Keyed(rows')
    BY <1>1, <1>3 DEF LockOK, Inv, Types
<1>5. resets' \in Nat
    BY <1>1 DEF Inv, Types
<1>6. conn' = [q \in Proc |-> conn'[q]] /\ conn'[p] = Closed(c.queryOnly)
    BY <1>1 DEF Committed
<1>7. \A q \in Proc \ {p} : conn'[q] = IF c.locked /\ conn[q].data # None THEN [conn[q] EXCEPT !.stale = TRUE] ELSE conn[q]
    BY <1>1 DEF Committed
<1>8. asked'[p] = None /\ \A q \in Proc \ {p} : asked'[q] = asked[q]
    BY <1>2 DEF Inv, Types
<1>9. Types'
    BY <1>1, <1>2, <1>4, <1>5, <1>6 DEF Inv, Types
<1>10. c.queryOnly \in BOOLEAN
    BY <1>3 DEF Fields
<1>11. ConnOK(conn'[p], None) /\ SnapshotOK(conn'[p], None, rows') /\ ~conn'[p].locked
    BY <1>6, <1>10, ClosedOK
<1>12. ProcOK(p)'
    BY <1>2, <1>8, <1>11 DEF ProcOK
<1>13. ASSUME NEW q \in Proc \ {p}
       PROVE  ProcOK(q)' /\ (conn'[q].locked => conn[q].locked)
    <2>1. AskingOK(asked[q], cycle[q]) /\ CycleOK(cycle[q]) /\ ConnOK(conn[q], asked[q]) /\ SnapshotOK(conn[q], asked[q], rows)
        BY DEF Inv, ProcOK
    <2>2. CASE c.locked /\ conn[q].data # None
        <3>1. ~conn[q].locked
            BY <2>2 DEF Inv, OneLock
        <3>2. conn'[q] = [conn[q] EXCEPT !.stale = TRUE]
            BY <1>7, <2>2
        <3>3. ConnOK(conn'[q], asked[q]) /\ SnapshotOK(conn'[q], asked[q], rows') /\ ~conn'[q].locked
            BY <2>1, <2>2, <3>1, <3>2, StaleOK
        <3> QED
            BY <1>2, <1>8, <2>1, <3>3 DEF ProcOK
    <2>3. CASE ~(c.locked /\ conn[q].data # None)
        <3>1. conn'[q] = conn[q]
            BY <1>7, <2>3
        <3>2. SnapshotOK(conn[q], asked[q], rows')
            BY <1>1, <2>1, <2>3 DEF SnapshotOK
        <3> QED
            BY <1>2, <1>8, <2>1, <3>1, <3>2 DEF ProcOK
    <2> QED
        BY <2>2, <2>3
<1>14. OneLock'
    BY <1>11, <1>13 DEF Inv, OneLock
<1> QED
    BY <1>9, <1>12, <1>13, <1>14 DEF Inv

\* A rollback keeps Inv.
LEMMA RollbackInv ==
    ASSUME Inv, NEW p \in Proc, Rollback(p)
    PROVE  Inv'
<1> DEFINE c == conn[p]
<1>1. /\ asked[p] # None /\ rows' = rows /\ conn' = [conn EXCEPT ![p] = Closed(c.queryOnly)]
      /\ Resume(p, c.error) /\ UNCHANGED <<hosts, resets, overlap>>
    BY DEF Rollback, Undone
<1>2. /\ asked' = [asked EXCEPT ![p] = None]
      /\ \A q \in Proc \ {p} : cycle'[q] = cycle[q]
      /\ cycle' \in [Proc -> Cycle] /\ AskingOK(None, cycle'[p]) /\ CycleOK(cycle'[p])
      /\ known' \in [Proc -> [Side -> Url] \cup {None}] /\ loaded' = [q \in Proc |-> loaded'[q]]
    BY <1>1, ResumeCycle
<1>3. /\ conn' = [q \in Proc |-> conn'[q]] /\ conn'[p] = Closed(c.queryOnly) /\ asked'[p] = None
      /\ \A q \in Proc \ {p} : conn'[q] = conn[q] /\ asked'[q] = asked[q] /\ cycle'[q] = cycle[q]
    BY <1>1, <1>2 DEF Inv, Types
<1>4. Types'
    BY <1>1, <1>2, <1>3 DEF Inv, Types
<1>5. c.queryOnly \in BOOLEAN
    BY DEF Inv, ProcOK, ConnOK, Fields
<1>6. ConnOK(conn'[p], None) /\ SnapshotOK(conn'[p], None, rows) /\ ~conn'[p].locked
    BY <1>3, <1>5, ClosedOK
<1>7. ProcOK(p)'
    BY <1>1, <1>2, <1>3, <1>6 DEF ProcOK
<1> QED
    BY <1>1, <1>3, <1>4, <1>6, <1>7, OneMoves

\* A crash keeps Inv.
LEMMA CrashInv ==
    ASSUME Inv, NEW p \in Proc, Crash(p)
    PROVE  Inv'
<1>1. /\ rows' = rows /\ conn' = [conn EXCEPT ![p] = Closed(FALSE)] /\ asked' = [asked EXCEPT ![p] = None]
      /\ cycle' = [cycle EXCEPT ![p] = Resting] /\ loaded' = [loaded EXCEPT ![p] = None] /\ known' = Kept(p, None)
      /\ UNCHANGED <<hosts, resets, overlap>>
    BY DEF Crash, Over
<1>2. Resting \in Cycle /\ AskingOK(None, Resting) /\ CycleOK(Resting)
    BY DEF Resting, Cycle, AskingOK, CycleOK, Awaiting
<1>3. /\ conn' = [q \in Proc |-> conn'[q]] /\ conn'[p] = Closed(FALSE) /\ asked'[p] = None /\ cycle'[p] = Resting
      /\ \A q \in Proc \ {p} : conn'[q] = conn[q] /\ asked'[q] = asked[q] /\ cycle'[q] = cycle[q]
    BY <1>1 DEF Inv, Types
<1>4. known' \in [Proc -> [Side -> Url] \cup {None}]
    BY <1>1 DEF Inv, Types, Kept
<1>5. Types'
    BY <1>1, <1>2, <1>3, <1>4 DEF Inv, Types
<1>6. ConnOK(conn'[p], None) /\ SnapshotOK(conn'[p], None, rows) /\ ~conn'[p].locked
    BY <1>3, ClosedOK
<1>7. ProcOK(p)'
    BY <1>1, <1>2, <1>3, <1>6 DEF ProcOK
<1> QED
    BY <1>1, <1>3, <1>5, <1>6, <1>7, OneMoves

\* The server's collection is a URL of iCloud's.
LEMMA HomeIs == Inv => home \in Url \ {"fastmail"} /\ Found \in [Side -> Url]
<1> SUFFICES ASSUME Inv
             PROVE  home \in Url \ {"fastmail"} /\ Found \in [Side -> Url]
    OBVIOUS
<1>1. hosts \in Seq(Url \ {"fastmail"}) /\ hosts # << >>
    BY DEF Inv, Types
<1>2. Len(hosts) \in 1..Len(hosts)
    BY <1>1
<1>3. home \in Url \ {"fastmail"}
    BY <1>1, <1>2 DEF home
<1> QED
    BY <1>3, DatabaseAssumptions DEF Found, Side, DatabaseAssumptions

\* The start of a cycle keeps Inv.
LEMMA StartInv ==
    ASSUME Inv, NEW p \in Proc, Start(p)
    PROVE  Inv'
<1>1. PICK dryRun \in BOOLEAN, reset \in BOOLEAN :
          cycle' = [cycle EXCEPT ![p] = [Resting EXCEPT !.pc = IF reset /\ ~dryRun THEN "reset" ELSE "collections",
                                                       !.dryRun = dryRun]]
    BY DEF Start
<1> DEFINE cy == [Resting EXCEPT !.pc = IF reset /\ ~dryRun THEN "reset" ELSE "collections", !.dryRun = dryRun]
<1>2. /\ cy.pc = (IF reset /\ ~dryRun THEN "reset" ELSE "collections") /\ cy.dryRun = dryRun
      /\ cy \in Cycle
    BY DEF Cycle, Resting
<1> HIDE DEF cy
<1>3. asked[p] = None
    BY DEF Start, Running, Inv, ProcOK, AskingOK, Awaiting
<1>4. AskingOK(None, cy) /\ CycleOK(cy)
    BY <1>2 DEF AskingOK, CycleOK, Awaiting
<1>5. overlap' \in BOOLEAN /\ UNCHANGED <<rows, conn, asked, loaded, known, hosts, resets>>
    BY DEF Start
<1>6. known' \in [Proc -> [Side -> Url] \cup {None}] /\ loaded' = [q \in Proc |-> loaded'[q]]
    BY <1>5 DEF Inv, Types
<1>7. cycle' = [cycle EXCEPT ![p] = cy]
    BY <1>1 DEF cy
<1> QED
    BY <1>2, <1>3, <1>4, <1>5, <1>6, <1>7, Goes

\* A step that asks for a transaction and goes to a place where it waits.
LEMMA AskInv ==
    ASSUME Inv, NEW p \in Proc, NEW x \in Transaction(Token), NEW pc \in Awaiting, Ask(p, x, pc),
           UNCHANGED <<rows, loaded, known, hosts, resets, overlap>>,
           AskingOK(x, [cycle[p] EXCEPT !.pc = pc]), CycleOK([cycle[p] EXCEPT !.pc = pc])
    PROVE  Inv'
<1> DEFINE cy == [cycle[p] EXCEPT !.pc = pc]
<1>1. cycle[p] \in Cycle
    BY DEF Inv, Types
<1>2. cy \in Cycle
    BY <1>1 DEF Cycle
<1>3. Begin(p, x) /\ cycle' = [cycle EXCEPT ![p] = cy]
    BY DEF Ask, Goto
<1> HIDE DEF cy
<1>4. AskingOK(x, cy) /\ CycleOK(cy)
    BY DEF cy
<1> QED
    BY <1>2, <1>3, <1>4, Asks

\* Dropping the state keeps Inv.
LEMMA DropStateInv ==
    ASSUME Inv, NEW p \in Proc, DropState(p)
    PROVE  Inv'
<1> DEFINE x == [tx |-> "reset"]
           cy == [cycle[p] EXCEPT !.pc = "resetting"]
<1>1. x \in Transaction(Token) /\ x.tx = "reset"
    BY DEF Transaction
<1>2. x # None
    BY <1>1, NoneIsNoTransaction
<1>3. cycle[p] \in Cycle /\ CycleOK(cycle[p]) /\ cycle[p].pc = "reset"
    BY DEF Inv, Types, ProcOK, DropState, At
<1>4. cy.pc = "resetting" /\ cy.urls = cycle[p].urls /\ cy.dryRun = cycle[p].dryRun
    BY <1>3 DEF Cycle
<1>5. AskingOK(x, cy) /\ CycleOK(cy)
    <2> HIDE DEF x, cy
    <2> QED
        BY <1>1, <1>2, <1>3, <1>4 DEF AskingOK, CycleOK, Awaiting
<1>6. "resetting" \in Awaiting
    BY DEF Awaiting
<1> QED
    BY <1>1, <1>5, <1>6, AskInv DEF DropState

\* Asking for the state keeps Inv.
LEMMA LoadInv ==
    ASSUME Inv, NEW p \in Proc, Load(p)
    PROVE  Inv'
<1> DEFINE x == [tx |-> "load"]
           cy == [cycle[p] EXCEPT !.pc = "loading"]
<1>1. x \in Transaction(Token) /\ x.tx = "load"
    BY DEF Transaction
<1>2. x # None
    BY <1>1, NoneIsNoTransaction
<1>3. cycle[p] \in Cycle /\ CycleOK(cycle[p]) /\ cycle[p].pc = "load"
    BY DEF Inv, Types, ProcOK, Load, At
<1>4. cy.pc = "loading" /\ cy.urls = cycle[p].urls /\ cy.dryRun = cycle[p].dryRun
    BY <1>3 DEF Cycle
<1>5. AskingOK(x, cy) /\ CycleOK(cy)
    <2> HIDE DEF x, cy
    <2> QED
        BY <1>1, <1>2, <1>3, <1>4 DEF AskingOK, CycleOK, Awaiting
<1>6. "loading" \in Awaiting
    BY DEF Awaiting
<1> QED
    BY <1>1, <1>5, <1>6, AskInv DEF Load

\* Where a cycle is once it found its collections.
Placed(cy, pc, urls) == [cy EXCEPT !.pc = pc, !.urls = urls]

\* A cycle that knows its collections is well formed.
LEMMA PlacedOK ==
    ASSUME NEW cy \in Cycle, CycleOK(cy), cy.pc = "collections", NEW urls \in [Side -> Url],
           NEW pc \in {"load", "listing", "recording"}, pc = "recording" => ~cy.dryRun
    PROVE  /\ Placed(cy, pc, urls) \in Cycle /\ CycleOK(Placed(cy, pc, urls))
           /\ pc # "recording" => AskingOK(None, Placed(cy, pc, urls))
           /\ pc = "recording" => AskingOK([tx |-> "discovery", urls |-> urls], Placed(cy, pc, urls))
<1> DEFINE next == Placed(cy, pc, urls)
           x == [tx |-> "discovery", urls |-> urls]
<1>1. next \in Cycle /\ next.pc = pc /\ next.urls = urls /\ next.dryRun = cy.dryRun
    BY DEF Placed, Cycle, Awaiting
<1>2. urls # None
    BY NoneAssumption DEF NoneAssumption
<1>3. x \in Transaction(Token) /\ x.tx = "discovery" /\ x.urls = urls
    BY DEF Transaction
<1>4. x # None
    BY <1>3, NoneIsNoTransaction
<1> HIDE DEF next, x
<1>5. CycleOK(next)
    BY <1>1, <1>2 DEF CycleOK
<1>6. pc # "recording" => AskingOK(None, next)
    BY <1>1 DEF AskingOK, Awaiting
<1>7. pc = "recording" => AskingOK(x, next)
    BY <1>1, <1>3, <1>4 DEF AskingOK, Awaiting
<1> QED
    BY <1>1, <1>5, <1>6, <1>7 DEF next, x

\* Finding the collections keeps Inv.
LEMMA CollectionsInv ==
    ASSUME Inv, NEW p \in Proc, Collections(p)
    PROVE  Inv'
<1>1. asked[p] = None /\ cycle[p].pc = "collections" /\ UNCHANGED <<rows, loaded, known, hosts, resets, overlap>>
    BY DEF Collections, At
<1>2. /\ cycle \in [Proc -> Cycle] /\ Found \in [Side -> Url] /\ CycleOK(cycle[p])
      /\ known \in [Proc -> [Side -> Url] \cup {None}] /\ loaded = [q \in Proc |-> loaded[q]] /\ overlap \in BOOLEAN
    BY HomeIs DEF Inv, Types, ProcOK
<1>3. \A pc, urls : [cycle EXCEPT ![p].pc = pc, ![p].urls = urls] = [cycle EXCEPT ![p] = Placed(cycle[p], pc, urls)]
    BY <1>2 DEF Placed
<1>4. ASSUME NEW pc \in {"load", "listing"}, NEW urls \in [Side -> Url],
             cycle' = [cycle EXCEPT ![p].pc = pc, ![p].urls = urls], UNCHANGED <<asked, conn>>
      PROVE  Inv'
    <2> DEFINE next == Placed(cycle[p], pc, urls)
    <2>1. next \in Cycle /\ CycleOK(next) /\ AskingOK(None, next)
        BY <1>1, <1>2, PlacedOK
    <2>2. cycle' = [cycle EXCEPT ![p] = next]
        BY <1>3, <1>4
    <2> HIDE DEF next
    <2>3. overlap' \in BOOLEAN /\ known' \in [Proc -> [Side -> Url] \cup {None}] /\ loaded' = [q \in Proc |-> loaded'[q]]
        BY <1>1, <1>2
    <2> QED
        BY <1>1, <1>4, <2>1, <2>2, <2>3, Goes
<1>5. ASSUME cycle' = [cycle EXCEPT ![p].pc = "recording", ![p].urls = Found],
             Begin(p, [tx |-> "discovery", urls |-> Found]), ~cycle[p].dryRun
      PROVE  Inv'
    <2> DEFINE next == Placed(cycle[p], "recording", Found)
               x == [tx |-> "discovery", urls |-> Found]
    <2>1. next \in Cycle /\ CycleOK(next) /\ AskingOK(x, next)
        BY <1>1, <1>2, <1>5, PlacedOK
    <2>2. cycle' = [cycle EXCEPT ![p] = next] /\ Begin(p, x)
        BY <1>3, <1>5
    <2>3. x \in Transaction(Token)
        BY <1>2 DEF Transaction
    <2> HIDE DEF next, x
    <2> QED
        BY <1>1, <2>1, <2>2, <2>3, Asks
<1>6. CASE known[p] # None
    <2>1. known[p] \in [Side -> Url]
        BY <1>2, <1>6
    <2> QED
        BY <1>4, <1>6, <2>1 DEF Collections
<1>7. CASE known[p] = None /\ cycle[p].dryRun
    <2>1. PICK pc \in {"load", "listing"} : cycle' = [cycle EXCEPT ![p].pc = pc, ![p].urls = Found]
        BY <1>7 DEF Collections
    <2>2. UNCHANGED <<asked, conn>>
        BY <1>7 DEF Collections
    <2> QED
        BY <1>2, <1>4, <2>1, <2>2
<1>8. CASE known[p] = None /\ ~cycle[p].dryRun
    BY <1>5, <1>8 DEF Collections
<1> QED
    BY <1>6, <1>7, <1>8

\* A listing returns a token for each side.
LEMMA ListedIs ==
    ASSUME Inv, NEW p \in Proc, cycle[p].pc \in {"listing", "ops"}
    PROVE  Listed(p) \in [Side -> Token]
<1>1. cycle[p] \in Cycle /\ CycleOK(cycle[p]) /\ resets \in Nat
    BY DEF Inv, Types, ProcOK
<1>2. cycle[p].urls \in [Side -> Url]
    BY <1>1 DEF Cycle, CycleOK
<1> QED
    BY <1>1, <1>2 DEF Listed, Token

\* A listing keeps Inv.
LEMMA ListInv ==
    ASSUME Inv, NEW p \in Proc, List(p)
    PROVE  Inv'
<1> DEFINE cy == cycle[p]
<1>1. /\ asked[p] = None /\ cy.pc = "listing" /\ UNCHANGED <<rows, hosts, resets, overlap>>
    BY DEF List, At
<1>2. /\ cycle \in [Proc -> Cycle] /\ cy \in Cycle /\ CycleOK(cy) /\ Listed(p) \in [Side -> Token]
      /\ known \in [Proc -> [Side -> Url] \cup {None}] /\ loaded = [q \in Proc |-> loaded[q]] /\ overlap' \in BOOLEAN
    BY <1>1, ListedIs DEF Inv, Types, ProcOK
<1>3. ASSUME Ask(p, [tx |-> "tokens", tokens |-> Listed(p)], "ending"), UNCHANGED <<loaded, known>>, ~cy.dryRun
      PROVE  Inv'
    <2> DEFINE x == [tx |-> "tokens", tokens |-> Listed(p)]
               next == [cycle[p] EXCEPT !.pc = "ending"]
    <2>1. x \in Transaction(Token) /\ x.tx = "tokens"
        BY <1>2 DEF Transaction
    <2>2. next.pc = "ending" /\ next.urls = cy.urls /\ next.dryRun = cy.dryRun
        BY <1>2 DEF Cycle
    <2>3. x # None
        BY <2>1, NoneIsNoTransaction
    <2>4. AskingOK(x, next) /\ CycleOK(next)
        <3> HIDE DEF x, next
        <3> QED
            BY <1>1, <1>2, <1>3, <2>1, <2>2, <2>3 DEF AskingOK, CycleOK, Awaiting
    <2>5. "ending" \in Awaiting /\ Ask(p, x, "ending")
        BY <1>3 DEF Awaiting
    <2> QED
        BY <1>1, <1>3, <2>1, <2>4, <2>5, AskInv
<1>4. ASSUME cycle' = [cycle EXCEPT ![p].pc = "ops", ![p].tokens = Listed(p)], UNCHANGED <<conn, asked, loaded, known>>, ~cy.dryRun
      PROVE  Inv'
    <2> DEFINE next == [cycle[p] EXCEPT !.pc = "ops", !.tokens = Listed(p)]
    <2>1. /\ next.pc = "ops" /\ next.urls = cy.urls /\ next.dryRun = cy.dryRun /\ next.tokens = Listed(p) /\ next \in Cycle
        BY <1>2 DEF Cycle
    <2>2. cycle' = [cycle EXCEPT ![p] = next]
        BY <1>2, <1>4
    <2>3. Listed(p) # None
        BY NoneAssumption, <1>2 DEF NoneAssumption
    <2> HIDE DEF next
    <2>4. AskingOK(None, next)
        BY <2>1 DEF AskingOK, Awaiting
    <2>5. CycleOK(next)
        BY <1>1, <1>2, <1>4, <2>1, <2>3 DEF CycleOK
    <2> QED
        BY <1>1, <1>2, <1>4, <2>1, <2>2, <2>4, <2>5, Goes
<1>5. ASSUME NEW cached \in [Side -> Url] \cup {None}, Over(p, cached), UNCHANGED <<conn, asked>>
      PROVE  Inv'
    <2>1. Resting \in Cycle /\ AskingOK(None, Resting) /\ CycleOK(Resting)
        BY DEF Resting, Cycle, AskingOK, CycleOK, Awaiting
    <2>2. cycle' = [cycle EXCEPT ![p] = Resting] /\ loaded' = [loaded EXCEPT ![p] = None] /\ known' = Kept(p, cached)
        BY <1>5 DEF Over
    <2>3. known' \in [Proc -> [Side -> Url] \cup {None}] /\ loaded' = [q \in Proc |-> loaded'[q]]
        BY <1>2, <1>5, <2>2 DEF Kept
    <2> QED
        BY <1>1, <1>2, <1>5, <2>1, <2>2, <2>3, Goes
<1>6. known[p] \in [Side -> Url] \cup {None} /\ None \in [Side -> Url] \cup {None}
    BY <1>2
<1> QED
    BY <1>3, <1>4, <1>5, <1>6 DEF List, MayIdle

\* An operation keeps Inv.
LEMMA OperateInv ==
    ASSUME Inv, NEW p \in Proc, Operate(p)
    PROVE  Inv'
<1>1. PICK x \in Operations[p] : Ask(p, x, "operating")
    BY DEF Operate
<1>2. x \in Operation
    BY DatabaseAssumptions DEF DatabaseAssumptions
<1>3. x \in Transaction(Token) /\ x # None
    BY <1>2, NoneIsNoTransaction DEF Transaction
<1>4. cycle[p] \in Cycle /\ CycleOK(cycle[p]) /\ cycle[p].pc = "ops"
    BY DEF Inv, Types, ProcOK, Operate, At
<1> DEFINE cy == [cycle[p] EXCEPT !.pc = "operating"]
<1>5. cy.pc = "operating" /\ cy.urls = cycle[p].urls /\ cy.dryRun = cycle[p].dryRun /\ cy.tokens = cycle[p].tokens
    BY <1>4 DEF Cycle
<1>6. AskingOK(x, cy) /\ CycleOK(cy)
    <2> HIDE DEF cy
    <2> QED
        BY <1>2, <1>3, <1>4, <1>5 DEF AskingOK, CycleOK, Awaiting
<1>7. "operating" \in Awaiting
    BY DEF Awaiting
<1> QED
    BY <1>1, <1>3, <1>6, <1>7, AskInv DEF Operate

\* The end of a cycle keeps Inv.
LEMMA FinishingInv ==
    ASSUME Inv, NEW p \in Proc, Finishing(p)
    PROVE  Inv'
<1> DEFINE x == [tx |-> "finish", skips |-> Unpaired(p), tokens |-> cycle[p].tokens,
                 clear |-> {k \in Key : loaded[p].failures[k] # None}]
           cy == [cycle[p] EXCEPT !.pc = "ending"]
<1>1. cycle[p] \in Cycle /\ CycleOK(cycle[p]) /\ cycle[p].pc = "ops"
    BY DEF Inv, Types, ProcOK, Finishing, At
<1>2. cycle[p].tokens \in [Side -> Token]
    BY <1>1 DEF CycleOK, Cycle
<1>3. Unpaired(p) \subseteq Key /\ {k \in Key : loaded[p].failures[k] # None} \subseteq Key
    BY DEF Unpaired
<1>4. x \in Transaction(Token) /\ x.tx = "finish"
    BY <1>2, <1>3 DEF Transaction
<1>5. x # None
    BY <1>4, NoneIsNoTransaction
<1>6. cy.pc = "ending" /\ cy.urls = cycle[p].urls /\ cy.dryRun = cycle[p].dryRun
    BY <1>1 DEF Cycle
<1>7. AskingOK(x, cy) /\ CycleOK(cy)
    <2> HIDE DEF x, cy
    <2> QED
        BY <1>1, <1>4, <1>5, <1>6 DEF AskingOK, CycleOK, Awaiting
<1>8. "ending" \in Awaiting /\ Ask(p, x, "ending")
    BY DEF Awaiting, Finishing
<1>9. UNCHANGED <<rows, loaded, known, hosts, resets, overlap>>
    BY DEF Finishing
<1> QED
    BY <1>4, <1>7, <1>8, <1>9, AskInv

\* A move of iCloud's collection keeps Inv.
LEMMA MoveInv == ASSUME Inv, Move PROVE Inv'
<1>1. UNCHANGED <<rows, conn, asked, loaded, cycle, known, resets, overlap>>
    BY DEF Move
<1>2. hosts' \in Seq(Url \ {"fastmail"}) /\ hosts' # << >>
    <2>1. PICK url \in Url \ {home, "fastmail"} : hosts' = Append(hosts, url)
        BY DEF Move
    <2>2. url \in Url \ {"fastmail"} /\ hosts \in Seq(Url \ {"fastmail"})
        BY DEF Inv, Types
    <2> QED
        BY <2>1, <2>2
<1>3. Types'
    BY <1>1, <1>2 DEF Inv, Types
<1>4. OneLock' /\ \A p \in Proc : ProcOK(p)'
    BY <1>1 DEF Inv, OneLock, ProcOK
<1> QED
    BY <1>3, <1>4 DEF Inv

\* A stuttering step keeps Inv.
LEMMA IdleInv == ASSUME Inv, UNCHANGED vars PROVE Inv'
<1>1. UNCHANGED <<rows, conn, asked, loaded, cycle, known, hosts, resets, overlap>>
    BY DEF vars
<1>2. Types'
    BY <1>1 DEF Inv, Types
<1>3. OneLock' /\ \A p \in Proc : ProcOK(p)'
    BY <1>1 DEF Inv, OneLock, ProcOK
<1> QED
    BY <1>2, <1>3 DEF Inv

\* Inv is inductive.
LEMMA NextInv == ASSUME Inv, [Next]_vars PROVE Inv'
<1>1. ASSUME NEW p \in Proc, Transact(p) PROVE Inv'
    BY <1>1, QueryInv, StatementInv, CommitInv, RollbackInv DEF Transact
<1>2. ASSUME NEW p \in Proc, Proceed(p) PROVE Inv'
    BY <1>2, DropStateInv, CollectionsInv, LoadInv, ListInv, OperateInv, FinishingInv DEF Proceed
<1> QED
    BY <1>1, <1>2, MoveInv, IdleInv, StartInv, CrashInv DEF Next

\* What every run of the database keeps.
THEOREM InvHolds == Spec => []Inv
<1>1. Init => Inv
    BY InitInv
<1>2. Inv /\ [Next]_vars => Inv'
    BY NextInv
<1> QED
    BY <1>1, <1>2, PTL DEF Spec

\* A connection that a load made read-only never refuses a later
\* transaction's write: begin sets query_only each time, whatever the
\* connection was (database/src/repository.rs:52-57).
THEOREM NeverReadOnlyHolds == Spec => []NeverReadOnly
<1>1. Inv => NeverReadOnly
    <2> SUFFICES ASSUME Inv, NEW p \in Proc
                 PROVE  conn[p].error # "ReadOnly"
        BY DEF NeverReadOnly
    <2>1. conn[p].error \in Errors
        BY DEF Inv, ProcOK, ConnOK, Fields
    <2> QED
        BY <2>1, NoneAssumption DEF Errors, NoneAssumption
<1> QED
    BY <1>1, InvHolds, PTL

(***************************************************************************)
(* The database implements a store whose transactions are atomic.          *)
(***************************************************************************)
\* The mapping: a load has happened once its first query was made.
AskedNow == [p \in Proc |-> IF Read(p) THEN None ELSE asked[p]]
LoadedNow == [p \in Proc |-> IF Read(p) THEN Loaded(conn[p].data) ELSE loaded[p]]

\* The two modules say the same of a transaction.
LEMMA SameOutcome ==
    /\ \A x, t : Store!Outcome(x, t) = Outcome(x, t)
    /\ Store!Empty = Empty
    /\ \A d : Store!Plannable(View(d)) = Loaded(d)
<1>1. \A x, t : Store!Outcome(x, t) = Outcome(x, t)
    BY DEF Store!Outcome, Outcome, Store!Ok, Ok, Store!Failed, Failed, Store!Discovery, Discovery, Store!WithTokens, WithTokens,
           Store!Tokens, Tokens, Store!Reset, Reset, Store!Cleared, Cleared, Store!Taken, Taken, Store!Without, Without,
           Store!Save, Save, Store!Drop, Drop, Store!Conflict, Conflict, Store!Journal, Journal, Store!Replayed, Replayed,
           Store!Failure, Failure, Store!Fail, Fail, Store!Finish, Finish, Store!Empty, Empty, Store!Side, Side, Store!Key, Key
<1>2. Store!Empty = Empty
    BY DEF Store!Empty, Empty, Store!Side, Side, Store!Key, Key
<1>3. \A d : Store!Plannable(View(d)) = Loaded(d)
    BY DEF Store!Plannable, View, Loaded
<1> QED
    BY <1>1, <1>2, <1>3

\* What p's step leaves of the other processes' transactions.
Leaves(p) ==
    \A q \in Proc \ {p} :
        /\ conn'[q].open = conn[q].open /\ conn'[q].data = conn[q].data
        /\ asked'[q] = asked[q] /\ loaded'[q] = loaded[q]

\* What a step of one process does to the store's requests and answers.
LEMMA StoreMoves ==
    ASSUME NEW p \in Proc, Leaves(p)
    PROVE  /\ AskedNow' = [AskedNow EXCEPT ![p] = AskedNow'[p]]
           /\ LoadedNow' = [LoadedNow EXCEPT ![p] = LoadedNow'[p]]
           /\ AskedNow[p] = (IF Read(p) THEN None ELSE asked[p])
           /\ LoadedNow[p] = (IF Read(p) THEN Loaded(conn[p].data) ELSE loaded[p])
           /\ AskedNow'[p] = (IF Read(p)' THEN None ELSE asked'[p])
           /\ LoadedNow'[p] = (IF Read(p)' THEN Loaded(conn'[p].data) ELSE loaded'[p])
<1>1. \A q \in Proc \ {p} : Read(q)' <=> Read(q)
    BY DEF Leaves, Read
<1>2. \A q \in Proc \ {p} : AskedNow'[q] = AskedNow[q] /\ LoadedNow'[q] = LoadedNow[q]
    BY <1>1 DEF Leaves, AskedNow, LoadedNow
<1>3. /\ AskedNow = [q \in Proc |-> AskedNow[q]] /\ AskedNow' = [q \in Proc |-> AskedNow'[q]]
      /\ LoadedNow = [q \in Proc |-> LoadedNow[q]] /\ LoadedNow' = [q \in Proc |-> LoadedNow'[q]]
    BY DEF AskedNow, LoadedNow
<1>4. AskedNow' = [AskedNow EXCEPT ![p] = AskedNow'[p]] /\ LoadedNow' = [LoadedNow EXCEPT ![p] = LoadedNow'[p]]
    BY <1>2, <1>3
<1> QED
    BY <1>4 DEF AskedNow, LoadedNow

\* The steps of the store that p's own may be.
LEMMA StoreStutters ==
    ASSUME NEW p \in Proc, Leaves(p), View(rows)' = View(rows), AskedNow'[p] = AskedNow[p], LoadedNow'[p] = LoadedNow[p]
    PROVE  UNCHANGED Store!vars
<1>1. AskedNow' = [AskedNow EXCEPT ![p] = AskedNow[p]] /\ LoadedNow' = [LoadedNow EXCEPT ![p] = LoadedNow[p]]
    BY StoreMoves
<1>2. AskedNow = [AskedNow EXCEPT ![p] = AskedNow[p]] /\ LoadedNow = [LoadedNow EXCEPT ![p] = LoadedNow[p]]
    BY DEF AskedNow, LoadedNow
<1> QED
    BY <1>1, <1>2 DEF Store!vars, AskedNow, LoadedNow

\* A step that asks is the store's Ask.
LEMMA StoreAsks ==
    ASSUME NEW p \in Proc, Leaves(p), View(rows)' = View(rows), AskedNow[p] = None, AskedNow'[p] # None, LoadedNow'[p] = LoadedNow[p]
    PROVE  Store!Next
<1>1. AskedNow' = [AskedNow EXCEPT ![p] = AskedNow'[p]] /\ LoadedNow' = [LoadedNow EXCEPT ![p] = LoadedNow[p]]
    BY StoreMoves
<1>2. LoadedNow = [LoadedNow EXCEPT ![p] = LoadedNow[p]]
    BY DEF LoadedNow
<1>3. Store!Ask(p)
    BY <1>1, <1>2 DEF Store!Ask, AskedNow, LoadedNow
<1> QED
    BY <1>3 DEF Store!Next

\* A step that gives up is a stutter or the store's Abort.
LEMMA StoreAborts ==
    ASSUME NEW p \in Proc, Leaves(p), View(rows)' = View(rows), AskedNow'[p] = None, LoadedNow'[p] \in {LoadedNow[p], None}
    PROVE  Store!Next
<1>1. AskedNow' = [AskedNow EXCEPT ![p] = None] /\ LoadedNow' = [LoadedNow EXCEPT ![p] = LoadedNow'[p]]
    BY StoreMoves
<1>2. LoadedNow = [LoadedNow EXCEPT ![p] = LoadedNow[p]]
    BY DEF LoadedNow
<1>3. LoadedNow' \in {LoadedNow, [LoadedNow EXCEPT ![p] = None]}
    BY <1>1, <1>2
<1>4. Store!Abort(p)
    BY <1>1, <1>3 DEF Store!Abort, Store!Kept, AskedNow, LoadedNow
<1> QED
    BY <1>4 DEF Store!Next

\* A load that took its snapshot of the rows is the store's Read.
LEMMA StoreReads ==
    ASSUME NEW p \in Proc, Leaves(p), View(rows)' = View(rows), AskedNow[p] \in Transaction(Token), AskedNow[p].tx = "load",
           AskedNow'[p] = None, LoadedNow'[p] = Loaded(rows)
    PROVE  Store!Next
<1> DEFINE x == AskedNow[p]
<1>1. AskedNow' = [AskedNow EXCEPT ![p] = None] /\ LoadedNow' = [LoadedNow EXCEPT ![p] = Store!Plannable(View(rows))]
    BY StoreMoves, SameOutcome
<1>2. x # None
    BY NoneIsNoTransaction
<1>3. Store!Outcome(x, View(rows)) = Ok(View(rows))
    BY SameOutcome DEF Outcome
<1>4. Store!Outcome(x, View(rows)).error = None /\ Store!Outcome(x, View(rows)).tables = View(rows)
    BY <1>3 DEF Ok
<1>5. Store!Commit(p)
    BY <1>1, <1>2, <1>4 DEF Store!Commit, AskedNow, LoadedNow
<1> QED
    BY <1>5 DEF Store!Next

\* A write that reaches the file is the store's Commit.
LEMMA StoreCommits ==
    ASSUME NEW p \in Proc, Leaves(p), AskedNow[p] \in Transaction(Token), AskedNow[p].tx # "load",
           Outcome(AskedNow[p], View(rows)) = Ok(View(rows)'), AskedNow'[p] = None, LoadedNow'[p] \in {LoadedNow[p], None}
    PROVE  Store!Next
<1> DEFINE x == AskedNow[p]
<1>1. AskedNow' = [AskedNow EXCEPT ![p] = None] /\ LoadedNow' = [LoadedNow EXCEPT ![p] = LoadedNow'[p]]
    BY StoreMoves
<1>2. LoadedNow = [LoadedNow EXCEPT ![p] = LoadedNow[p]]
    BY DEF LoadedNow
<1>3. LoadedNow' \in {LoadedNow, [LoadedNow EXCEPT ![p] = None]}
    BY <1>1, <1>2
<1>4. x # None
    BY NoneIsNoTransaction
<1>5. Store!Outcome(x, View(rows)).error = None /\ Store!Outcome(x, View(rows)).tables = View(rows)'
    BY SameOutcome DEF Ok
<1>6. Store!Commit(p)
    BY <1>1, <1>3, <1>4, <1>5 DEF Store!Commit, Store!Kept, AskedNow, LoadedNow
<1> QED
    BY <1>6 DEF Store!Next

\* Nothing of a load is undone, and it writes nothing.
LEMMA LoadIs ==
    ASSUME Inv, NEW p \in Proc, asked[p] # None, ReadOnly(asked[p])
    PROVE  /\ conn[p].open /\ conn[p].error = None /\ ~conn[p].locked /\ asked[p].tx = "load" /\ cycle[p].pc = "loading"
           /\ conn[p].todo = << >> => conn[p].data # None /\ conn[p].found = conn[p].data
           /\ conn[p].todo # << >> => QueriesFirst(Head(conn[p].todo)) /\ Head(conn[p].todo) \in AnyCall /\ Head(conn[p].todo).call = "list"
<1> DEFINE c == conn[p]
           x == asked[p]
<1>1. ConnOK(c, x) /\ AskingOK(x, cycle[p]) /\ x \in Transaction(Token)
    BY DEF Inv, Types, ProcOK
<1>2. c.open /\ OpenOK(c, x)
    BY <1>1 DEF ConnOK
<1>3. x.tx = "load"
    BY DEF ReadOnly
<1>4. CallsOf(x) = {[call |-> "list"]}
    BY <1>3 DEF CallsOf
<1>5. c.todo = << >> => c.data # None
    <2>1. c.todo = << >> => Ran(c.todo) = {}
        BY DEF Ran
    <2> QED
        BY <1>2, <1>4, <2>1 DEF OpenOK
<1>6. ASSUME c.todo # << >>
      PROVE  QueriesFirst(Head(c.todo)) /\ Head(c.todo) \in AnyCall /\ Head(c.todo).call = "list"
    <2>1. Head(c.todo) \in Ran(c.todo)
        BY <1>2, <1>6, ListsTail DEF OpenOK
    <2>2. Head(c.todo) \in CallsOf(x)
        BY <1>2, <2>1 DEF OpenOK
    <2>3. Head(c.todo) \in AnyCall
        BY <1>1, <2>2, CallsFit
    <2>4. Head(c.todo).call = "list"
        BY <1>4, <2>2
    <2> QED
        BY <2>3, <2>4 DEF QueriesFirst
<1>7. cycle[p].pc = "loading"
    <2>1. x \notin Operation
        BY <1>3 DEF Operation
    <2> QED
        BY <1>1, <1>3, <2>1 DEF AskingOK, Awaiting
<1> QED
    BY <1>2, <1>3, <1>5, <1>6, <1>7 DEF OpenOK

\* A query is a step of the store or a stutter.
LEMMA QueryRefines ==
    ASSUME Inv, NEW p \in Proc, Query(p)
    PROVE  [Store!Next]_(Store!vars)
<1>1. /\ conn[p].open /\ conn[p].data = None /\ conn[p].todo # << >>
      /\ conn' = [conn EXCEPT ![p].data = rows] /\ UNCHANGED <<rows, asked, loaded>>
    BY DEF Query, InCall
<1>2. /\ Keyed(rows) /\ conn = [q \in Proc |-> conn[q]] /\ asked[p] \in Transaction(Token) \cup {None}
      /\ ConnOK(conn[p], asked[p])
    BY DEF Inv, Types, ProcOK
<1>3. asked[p] \in Transaction(Token) /\ asked[p] # None /\ Fields(conn[p])
    BY <1>1, <1>2, NoneIsNoTransaction DEF ConnOK
<1>4. conn'[p].data = rows /\ conn'[p].open /\ Leaves(p)
    BY <1>1, <1>2, <1>3 DEF Leaves, Fields
<1>5. rows # None
    BY <1>2, NoneIsNoRows
<1>6. View(rows)' = View(rows)
    BY <1>1
<1>7. ~Read(p) /\ (Read(p)' <=> ReadOnly(asked[p]))
    BY <1>1, <1>4, <1>5 DEF Read, ReadOnly
<1>8. CASE ReadOnly(asked[p])
    <2>1. AskedNow[p] = asked[p] /\ AskedNow'[p] = None /\ LoadedNow'[p] = Loaded(rows)
        BY <1>4, <1>7, <1>8, StoreMoves
    <2> QED
        BY <1>3, <1>4, <1>6, <1>8, <2>1, StoreReads DEF ReadOnly
<1>9. CASE ~ReadOnly(asked[p])
    <2>1. AskedNow'[p] = AskedNow[p] /\ LoadedNow'[p] = LoadedNow[p]
        BY <1>1, <1>4, <1>7, <1>9, StoreMoves
    <2> QED
        BY <1>4, <1>6, <2>1, StoreStutters
<1> QED
    BY <1>8, <1>9

\* So is a statement.
LEMMA StatementRefines ==
    ASSUME Inv, NEW p \in Proc, Statement(p)
    PROVE  [Store!Next]_(Store!vars)
<1>1. UNCHANGED <<rows, asked, loaded>> /\ conn[p].open /\ conn[p].error = None /\ conn[p].todo # << >>
    BY DEF Statement, InCall
<1>2. \A q \in Proc \ {p} : conn'[q] = conn[q]
    BY StatementConn
<1>3. conn'[p].open
    BY StatementConn
<1>4. Leaves(p) /\ View(rows)' = View(rows)
    BY <1>1, <1>2 DEF Leaves
<1>5. asked[p] # None /\ asked[p] \in Transaction(Token) \cup {None} /\ conn = [q \in Proc |-> conn[q]] /\ Fields(conn[p])
    BY <1>1 DEF Inv, Types, ProcOK, ConnOK
<1>6. ReadOnly(asked[p]) => conn[p].data # None /\ conn'[p].data = conn[p].data
    <2> SUFFICES ASSUME ReadOnly(asked[p])
                 PROVE  conn[p].data # None /\ conn'[p].data = conn[p].data
        OBVIOUS
    <2> DEFINE c == Head(conn[p].todo)
               done == Call(c, conn[p].data, conn[p].found)
    <2>1. QueriesFirst(c) /\ c \in AnyCall /\ c.call = "list"
        BY <1>1, <1>5, LoadIs
    <2>2. conn[p].data # None
        BY <2>1 DEF Statement
    <2>3. Writes(c, conn[p].data) = FALSE
        BY <2>1 DEF Writes
    <2>4. done.error = None /\ done.rows = conn[p].data
        BY <2>1, CallErrors
    <2> HIDE DEF c, done
    <2>5. conn' = [conn EXCEPT ![p] = Finished(p, done, FALSE)]
        <3>1. \E refusal \in IF Writes(c, conn[p].data) THEN Refusals(p) ELSE {None} :
                 conn' = [conn EXCEPT ![p] = IF refusal = None THEN Finished(p, done, Writes(c, conn[p].data))
                                             ELSE [@ EXCEPT !.error = DbError(refusal)]]
            BY <2>2 DEF Statement, c, done
        <3> QED
            BY <2>3, <3>1
    <2>6. conn'[p] = [conn[p] EXCEPT !.data = done.rows, !.found = done.found, !.todo = Tail(@), !.locked = @ \/ FALSE]
        BY <1>5, <2>4, <2>5 DEF Finished
    <2>7. conn'[p].data = done.rows
        <3> DEFINE z == conn[p]
        <3>1. z = [open |-> z.open, queryOnly |-> z.queryOnly, data |-> z.data, stale |-> z.stale,
                   locked |-> z.locked, todo |-> z.todo, found |-> z.found, error |-> z.error]
            BY <1>5 DEF Fields
        <3> QED
            BY <2>6, <3>1
    <2> QED
        BY <2>2, <2>4, <2>7
<1>7. Read(p)' <=> Read(p)
    BY <1>1, <1>3, <1>6 DEF Read, ReadOnly
<1>8. Read(p) => conn'[p].data = conn[p].data
    BY <1>6 DEF Read
<1>9. AskedNow'[p] = AskedNow[p] /\ LoadedNow'[p] = LoadedNow[p]
    BY <1>1, <1>4, <1>7, <1>8, StoreMoves
<1> QED
    BY <1>4, <1>9, StoreStutters

\* What a cycle's plan is after its transaction.
LEMMA ResumeLoaded ==
    ASSUME Inv, NEW p \in Proc, NEW error, Resume(p, error)
    PROVE  /\ asked'[p] = None /\ \A q \in Proc \ {p} : asked'[q] = asked[q] /\ loaded'[q] = loaded[q]
           /\ cycle[p].pc # "loading" => loaded'[p] \in {loaded[p], None}
           /\ cycle[p].pc = "loading" /\ error = None => loaded'[p] = Loaded(conn[p].found)
<1>1. asked \in [Proc -> Transaction(Token) \cup {None}] /\ loaded = [q \in Proc |-> loaded[q]]
    BY DEF Inv, Types
<1>2. /\ asked' = [asked EXCEPT ![p] = None]
      /\ loaded' \in {loaded, [loaded EXCEPT ![p] = None], [loaded EXCEPT ![p] = Loaded(conn[p].found)]}
    BY DEF Resume, Over
<1>3. cycle[p].pc # "loading" => loaded' \in {loaded, [loaded EXCEPT ![p] = None]}
    BY DEF Resume, Over
<1>4. cycle[p].pc = "loading" /\ error = None => loaded' = [loaded EXCEPT ![p] = Loaded(conn[p].found)]
    BY DEF Resume, Fatal
<1> QED
    BY <1>1, <1>2, <1>3, <1>4

\* So is a commit.
LEMMA CommitRefines ==
    ASSUME Inv, NEW p \in Proc, Commit(p)
    PROVE  [Store!Next]_(Store!vars)
<1> DEFINE c == conn[p]
           x == asked[p]
<1>1. /\ x # None /\ c.error = None /\ c.todo = << >>
      /\ rows' = (IF c.locked THEN c.data ELSE rows) /\ conn' = Committed(p) /\ Resume(p, None)
    BY DEF Commit
<1>2. /\ asked'[p] = None /\ \A q \in Proc \ {p} : asked'[q] = asked[q] /\ loaded'[q] = loaded[q]
      /\ cycle[p].pc # "loading" => loaded'[p] \in {loaded[p], None}
      /\ cycle[p].pc = "loading" => loaded'[p] = Loaded(c.found)
    BY <1>1, ResumeLoaded
<1>3. /\ x \in Transaction(Token) /\ ConnOK(c, x) /\ SnapshotOK(c, x, rows) /\ AskingOK(x, cycle[p])
    BY <1>1 DEF Inv, Types, ProcOK
<1>4. conn'[p] = Closed(c.queryOnly)
    BY <1>1 DEF Committed
<1>5. ASSUME NEW q \in Proc \ {p}
      PROVE  conn'[q].open = conn[q].open /\ conn'[q].data = conn[q].data
    <2> DEFINE z == conn[q]
    <2>1. z = [open |-> z.open, queryOnly |-> z.queryOnly, data |-> z.data, stale |-> z.stale,
               locked |-> z.locked, todo |-> z.todo, found |-> z.found, error |-> z.error]
        BY DEF Inv, ProcOK, ConnOK, Fields
    <2>2. conn'[q] = IF c.locked /\ z.data # None THEN [z EXCEPT !.stale = TRUE] ELSE z
        BY <1>1 DEF Committed
    <2> QED
        BY <2>1, <2>2
<1>6. Leaves(p)
    BY <1>2, <1>5 DEF Leaves
<1>7. ~Read(p)'
    BY <1>4 DEF Read, Closed
<1>8. AskedNow'[p] = None /\ LoadedNow'[p] = loaded'[p]
    BY <1>2, <1>6, <1>7, StoreMoves
<1>9. CASE ReadOnly(x)
    <2>1. c.open /\ ~c.locked /\ c.data # None /\ c.found = c.data /\ cycle[p].pc = "loading"
        BY <1>1, <1>9, LoadIs
    <2>2. Read(p)
        BY <1>9, <2>1 DEF Read
    <2>3. AskedNow[p] = None /\ LoadedNow[p] = Loaded(c.data)
        BY <1>6, <2>2, StoreMoves
    <2>4. AskedNow'[p] = AskedNow[p] /\ LoadedNow'[p] = LoadedNow[p]
        BY <1>2, <1>8, <2>1, <2>3
    <2>5. View(rows)' = View(rows)
        BY <1>1, <2>1
    <2> QED
        BY <1>6, <2>4, <2>5, StoreStutters
<1>10. CASE ~ReadOnly(x)
    <2>1. AskedNow[p] = x /\ LoadedNow[p] = loaded[p]
        BY <1>6, <1>10, StoreMoves DEF Read
    <2>2. cycle[p].pc # "loading"
        BY <1>3, <1>10 DEF AskingOK, ReadOnly
    <2>3. LoadedNow'[p] \in {LoadedNow[p], None}
        BY <1>2, <1>8, <2>1, <2>2
    <2>4. CASE ~c.locked
        <3>1. View(rows)' = View(rows)
            BY <1>1, <2>4
        <3> QED
            BY <1>6, <1>8, <2>3, <3>1, StoreAborts
    <2>5. CASE c.locked
        <3>1. c.open /\ c.data # None /\ ~c.stale
            BY <1>1, <1>3, <2>5 DEF ConnOK, LockOK
        <3>2. Ran(c.todo) = {}
            BY <1>1 DEF Ran
        <3>3. View(c.data) = Half(x, {}, View(rows)) /\ Passed(x, {}, View(rows))
            BY <1>1, <1>3, <3>1, <3>2 DEF SnapshotOK
        <3>4. Outcome(x, View(rows)) = Ok(View(c.data))
            BY <1>3, <3>3, ViewIsTabular, HalfDone
        <3>5. View(rows)' = View(c.data)
            BY <1>1, <2>5
        <3> QED
            BY <1>3, <1>6, <1>8, <1>10, <2>1, <2>3, <3>4, <3>5, StoreCommits DEF ReadOnly
    <2> QED
        BY <2>4, <2>5
<1> QED
    BY <1>9, <1>10

\* So is a rollback.
LEMMA RollbackRefines ==
    ASSUME Inv, NEW p \in Proc, Rollback(p)
    PROVE  [Store!Next]_(Store!vars)
<1>1. /\ asked[p] # None /\ conn[p].error # None /\ rows' = rows
      /\ conn' = [conn EXCEPT ![p] = Closed(conn[p].queryOnly)] /\ Resume(p, conn[p].error)
    BY DEF Rollback, Undone
<1>2. ~ReadOnly(asked[p])
    BY <1>1, LoadIs
<1>3. AskingOK(asked[p], cycle[p]) /\ conn = [q \in Proc |-> conn[q]]
    BY DEF Inv, Types, ProcOK
<1>4. cycle[p].pc # "loading"
    BY <1>2, <1>3 DEF AskingOK, ReadOnly
<1>5. /\ asked'[p] = None /\ \A q \in Proc \ {p} : asked'[q] = asked[q] /\ loaded'[q] = loaded[q]
      /\ loaded'[p] \in {loaded[p], None}
    BY <1>1, <1>4, ResumeLoaded
<1>6. Leaves(p) /\ conn'[p] = Closed(conn[p].queryOnly)
    BY <1>1, <1>3, <1>5 DEF Leaves
<1>7. ~Read(p)' /\ ~Read(p)
    BY <1>2, <1>6 DEF Read, Closed
<1>8. AskedNow'[p] = None /\ LoadedNow'[p] \in {LoadedNow[p], None}
    BY <1>5, <1>6, <1>7, StoreMoves
<1>9. View(rows)' = View(rows)
    BY <1>1
<1> QED
    BY <1>6, <1>8, <1>9, StoreAborts

\* A step that ends p's transaction, if there is one, and its cycle.
LEMMA EndRefines ==
    ASSUME Inv, NEW p \in Proc, rows' = rows, ~conn'[p].open, asked' = [asked EXCEPT ![p] = None],
           \A q \in Proc \ {p} : conn'[q] = conn[q], loaded' = [loaded EXCEPT ![p] = None]
    PROVE  [Store!Next]_(Store!vars)
<1>1. asked \in [Proc -> Transaction(Token) \cup {None}] /\ loaded = [q \in Proc |-> loaded[q]]
    BY DEF Inv, Types
<1>2. Leaves(p) /\ asked'[p] = None /\ loaded'[p] = None
    BY <1>1 DEF Leaves
<1>3. ~Read(p)'
    BY DEF Read
<1>4. AskedNow'[p] = None /\ LoadedNow'[p] \in {LoadedNow[p], None}
    BY <1>2, <1>3, StoreMoves
<1>5. View(rows)' = View(rows)
    OBVIOUS
<1> QED
    BY <1>2, <1>4, <1>5, StoreAborts

\* So is a crash.
LEMMA CrashRefines ==
    ASSUME Inv, NEW p \in Proc, Crash(p)
    PROVE  [Store!Next]_(Store!vars)
<1>1. /\ conn' = [conn EXCEPT ![p] = Closed(FALSE)] /\ asked' = [asked EXCEPT ![p] = None]
      /\ loaded' = [loaded EXCEPT ![p] = None] /\ rows' = rows
    BY DEF Crash, Over
<1>2. conn'[p] = Closed(FALSE) /\ \A q \in Proc \ {p} : conn'[q] = conn[q]
    BY <1>1 DEF Inv, Types
<1>3. ~conn'[p].open
    BY <1>2 DEF Closed
<1> QED
    BY <1>1, <1>2, <1>3, EndRefines

\* A step of the cycle that asks for a transaction.
LEMMA BeginRefines ==
    ASSUME Inv, NEW p \in Proc, asked[p] = None, NEW x \in Transaction(Token), Begin(p, x), UNCHANGED <<rows, loaded>>
    PROVE  [Store!Next]_(Store!vars)
<1>1. asked' = [asked EXCEPT ![p] = x] /\ conn' = [conn EXCEPT ![p] = Begun(conn[p], x)] /\ ~conn[p].open
    BY DEF Begin
<1>2. asked \in [Proc -> Transaction(Token) \cup {None}] /\ conn = [q \in Proc |-> conn[q]]
    BY DEF Inv, Types
<1>3. Leaves(p) /\ asked'[p] = x /\ conn'[p] = Begun(conn[p], x)
    BY <1>1, <1>2 DEF Leaves
<1>4. Begun(conn[p], x).data = None
    BY DEF Begun, Closed
<1>5. ~Read(p) /\ ~Read(p)'
    BY <1>1, <1>3, <1>4 DEF Read
<1>6. AskedNow[p] = None /\ AskedNow'[p] = x /\ LoadedNow'[p] = LoadedNow[p]
    BY <1>3, <1>5, StoreMoves
<1>7. x # None /\ View(rows)' = View(rows)
    BY NoneIsNoTransaction
<1> QED
    BY <1>3, <1>6, <1>7, StoreAsks

\* A step that leaves the transactions alone.
LEMMA QuietRefines ==
    ASSUME UNCHANGED <<rows, conn, asked, loaded>>
    PROVE  UNCHANGED Store!vars
BY DEF Store!vars, Read

\* So is every step of the cycle.
LEMMA ProceedRefines ==
    ASSUME Inv, NEW p \in Proc, Proceed(p)
    PROVE  [Store!Next]_(Store!vars)
<1>1. CASE DropState(p)
    <2>1. [tx |-> "reset"] \in Transaction(Token)
        BY DEF Transaction
    <2> QED
        BY <1>1, <2>1, BeginRefines DEF DropState, At, Ask
<1>2. CASE Load(p)
    <2>1. [tx |-> "load"] \in Transaction(Token)
        BY DEF Transaction
    <2> QED
        BY <1>2, <2>1, BeginRefines DEF Load, At, Ask
<1>3. CASE Operate(p)
    <2>1. PICK x \in Operations[p] : Ask(p, x, "operating")
        BY <1>3 DEF Operate
    <2>2. x \in Transaction(Token)
        BY DatabaseAssumptions DEF DatabaseAssumptions, Transaction
    <2> QED
        BY <1>3, <2>1, <2>2, BeginRefines DEF Operate, At, Ask
<1>4. CASE Finishing(p)
    <2> DEFINE x == [tx |-> "finish", skips |-> Unpaired(p), tokens |-> cycle[p].tokens,
                     clear |-> {k \in Key : loaded[p].failures[k] # None}]
    <2>1. cycle[p] \in Cycle /\ CycleOK(cycle[p]) /\ cycle[p].pc = "ops"
        BY <1>4 DEF Inv, Types, ProcOK, Finishing, At
    <2>2. cycle[p].tokens \in [Side -> Token] /\ Unpaired(p) \subseteq Key
        BY <2>1 DEF CycleOK, Cycle, Unpaired
    <2>3. x \in Transaction(Token)
        BY <2>2 DEF Transaction
    <2>4. asked[p] = None /\ Begin(p, x) /\ UNCHANGED <<rows, loaded>>
        BY <1>4 DEF Finishing, At, Ask
    <2> QED
        BY <2>3, <2>4, BeginRefines
<1>5. CASE Collections(p)
    <2>1. CASE Begin(p, [tx |-> "discovery", urls |-> Found])
        <3>1. [tx |-> "discovery", urls |-> Found] \in Transaction(Token)
            BY HomeIs DEF Transaction
        <3> QED
            BY <1>5, <2>1, <3>1, BeginRefines DEF Collections, At
    <2>2. CASE UNCHANGED <<asked, conn>>
        BY <1>5, <2>2, QuietRefines DEF Collections
    <2> QED
        BY <1>5, <2>1, <2>2 DEF Collections
<1>6. CASE List(p)
    <2>1. asked[p] = None /\ cycle[p].pc = "listing" /\ UNCHANGED rows
        BY <1>6 DEF List, At
    <2>2. CASE Ask(p, [tx |-> "tokens", tokens |-> Listed(p)], "ending") /\ UNCHANGED <<loaded, known>>
        <3>1. [tx |-> "tokens", tokens |-> Listed(p)] \in Transaction(Token)
            BY <2>1, ListedIs DEF Transaction
        <3> QED
            BY <2>1, <2>2, <3>1, BeginRefines DEF Ask
    <2>3. CASE UNCHANGED <<conn, asked, loaded, known>>
        BY <2>1, <2>3, QuietRefines
    <2>4. ASSUME NEW cached, Over(p, cached), UNCHANGED <<conn, asked>>
          PROVE  [Store!Next]_(Store!vars)
        <3>1. asked \in [Proc -> Transaction(Token) \cup {None}] /\ (conn[p].open <=> asked[p] # None)
            BY DEF Inv, Types, ProcOK, ConnOK
        <3>2. asked' = [asked EXCEPT ![p] = None] /\ ~conn'[p].open
            BY <2>1, <2>4, <3>1
        <3> QED
            BY <2>1, <2>4, <3>2, EndRefines DEF Over
    <2> QED
        BY <1>6, <2>2, <2>3, <2>4 DEF List
<1> QED
    BY <1>1, <1>2, <1>3, <1>4, <1>5, <1>6 DEF Proceed

\* Every step is a step of the store or a stutter.
LEMMA NextRefines == ASSUME Inv, [Next]_vars PROVE [Store!Next]_(Store!vars)
<1>1. ASSUME NEW p \in Proc, Transact(p) PROVE [Store!Next]_(Store!vars)
    BY <1>1, QueryRefines, StatementRefines, CommitRefines, RollbackRefines DEF Transact
<1>2. ASSUME NEW p \in Proc, Start(p) PROVE [Store!Next]_(Store!vars)
    BY <1>2, QuietRefines DEF Start
<1>3. CASE Move
    BY <1>3, QuietRefines DEF Move
<1>4. CASE UNCHANGED vars
    BY <1>4, QuietRefines DEF vars
<1> QED
    BY <1>1, <1>2, <1>3, <1>4, ProceedRefines, CrashRefines DEF Next

\* The initial states are the store's.
LEMMA InitRefines == ASSUME Init PROVE Store!Init
<1>1. View(rows) = Store!Empty
    BY NoRowsKeyed, SameOutcome DEF Init
<1>2. \A p \in Proc : ~Read(p) /\ asked[p] = None /\ loaded[p] = None
    BY DEF Init, Read, Closed
<1> QED
    BY <1>1, <1>2 DEF Store!Init

\* Whatever processes do to the database at once, and wherever one of them
\* fails or dies, each transaction takes effect at one instant or not at
\* all, and a cycle plans with the tables of one instant
\* (core/src/repository.rs, database/src/repository.rs).
THEOREM SerializableHolds == Spec => Serializable
<1>1. Init => Store!Init
    BY InitRefines
<1>2. Inv /\ [Next]_vars => [Store!Next]_(Store!vars)
    BY NextRefines
<1> QED
    BY <1>1, <1>2, InvHolds, PTL DEF Spec, Serializable, Store!Spec

(***************************************************************************)
(* The tokens.  As long as no two sync cycles ran at once, a cycle's       *)
(* snapshot is never stale, so what it listed is of the rows it writes.    *)
(***************************************************************************)
Syncing(p) == Running(p) /\ ~cycle[p].dryRun

Hosts == {hosts[i] : i \in 1..Len(hosts)}

Row(s) == Endpoints(rows)[s]

\* Collections someone found: iCloud's at a host it was at.
FoundOK(urls) == urls["icloud"] \in Hosts /\ urls["fastmail"] = "fastmail"

\* The row is of iCloud's collection where it is.
AtHome == Row("icloud") = None \/ Row("icloud").url = home

TokensOK(tokens) ==
    \A s \in Side : tokens[s].since = resets /\ (Row(s) # None => tokens[s].url = Row(s).url)

\* What holds of the cycle that syncs.  Who records a collection that moved
\* away before is the last to know it.
SyncOK(p) ==
    /\ ~conn[p].stale
    /\ cycle[p].pc = "recording" /\ cycle[p].urls["icloud"] # home =>
         \A q \in Proc : known[q] # None => known[q]["icloud"] # home
    /\ cycle[p].pc \in {"load", "loading", "listing"} /\ cycle[p].urls["icloud"] = home => AtHome
    /\ cycle[p].pc \in {"ops", "operating"} => TokensOK(cycle[p].tokens)
    /\ cycle[p].pc = "ending" => TokensOK(asked[p].tokens)

Urls ==
    /\ \A p \in Proc : cycle[p].urls # None => FoundOK(cycle[p].urls)
    /\ \A p \in Proc : known[p] # None => FoundOK(known[p])
    /\ Row("fastmail") # None => Row("fastmail").url = "fastmail"

OneSyncs == \A p, q \in Proc : Syncing(p) /\ Syncing(q) => p = q

RowsStand == \A s \in Side : Row(s) # None /\ Row(s).token # None =>
                 Row(s).token.url = Row(s).url /\ Row(s).token.since = resets

Standing ==
    /\ OneSyncs /\ RowsStand
    /\ \A p \in Proc : known[p] # None /\ known[p]["icloud"] = home => AtHome
    /\ \A p \in Proc : Syncing(p) => SyncOK(p)

TInv == Urls /\ (~overlap /\ ~Returned => Standing)

\* The endpoints stay, and so does what is said of them.
LEMMA SameEndpoints ==
    ASSUME Endpoints(rows)' = Endpoints(rows), UNCHANGED <<hosts, resets>>
    PROVE  /\ home' = home /\ Hosts' = Hosts /\ (Returned' <=> Returned) /\ (AtHome' <=> AtHome)
           /\ \A s : Row(s)' = Row(s)
           /\ \A tokens : TokensOK(tokens)' <=> TokensOK(tokens)
           /\ \A urls : FoundOK(urls)' <=> FoundOK(urls)
           /\ RowsStand' <=> RowsStand
<1>1. home' = home /\ Hosts' = Hosts /\ (Returned' <=> Returned)
    BY DEF home, Hosts, Returned
<1>2. \A s : Row(s)' = Row(s)
    BY DEF Row
<1>3. AtHome' <=> AtHome
    BY <1>1, <1>2 DEF AtHome
<1>4. \A tokens : TokensOK(tokens)' <=> TokensOK(tokens)
    BY <1>2 DEF TokensOK
<1>5. \A urls : FoundOK(urls)' <=> FoundOK(urls)
    BY <1>1 DEF FoundOK
<1>6. RowsStand' <=> RowsStand
    BY <1>2 DEF RowsStand
<1> QED
    BY <1>1, <1>2, <1>3, <1>4, <1>5, <1>6

\* A step of p that leaves the endpoints alone.
LEMMA TokensMove ==
    ASSUME TInv, NEW p \in Proc, Endpoints(rows)' = Endpoints(rows), UNCHANGED <<hosts, resets>>, overlap => overlap',
           \A q \in Proc \ {p} :
               cycle'[q] = cycle[q] /\ known'[q] = known[q] /\ asked'[q] = asked[q] /\
               (Syncing(q) => conn'[q].stale = conn[q].stale),
           cycle'[p].urls # None => FoundOK(cycle'[p].urls),
           known'[p] \in {known[p], None},
           ~overlap' /\ Standing /\ Syncing(p)' => SyncOK(p)' /\ (Syncing(p) \/ \A q \in Proc \ {p} : ~Syncing(q))
    PROVE  TInv'
<1>1. /\ home' = home /\ (Returned' <=> Returned) /\ (AtHome' <=> AtHome)
      /\ \A s : Row(s)' = Row(s)
      /\ \A tokens : TokensOK(tokens)' <=> TokensOK(tokens)
      /\ \A urls : FoundOK(urls)' <=> FoundOK(urls)
      /\ RowsStand' <=> RowsStand
    BY SameEndpoints
<1>2. \A q \in Proc : known'[q] # None => known'[q] = known[q]
    OBVIOUS
<1>3. Urls'
    <2>1. \A q \in Proc : cycle'[q].urls # None => FoundOK(cycle'[q].urls)
        BY DEF TInv, Urls
    <2>2. \A q \in Proc : known'[q] # None => FoundOK(known'[q])
        BY <1>2 DEF TInv, Urls
    <2> QED
        BY <1>1, <2>1, <2>2 DEF TInv, Urls
<1>4. ASSUME ~overlap', ~Returned'
      PROVE  Standing'
    <2>1. Standing
        BY <1>1, <1>4 DEF TInv
    <2>2. \A q \in Proc \ {p} : Syncing(q)' <=> Syncing(q)
        BY DEF Syncing, Running
    <2>3. OneSyncs'
        BY <1>4, <2>1, <2>2 DEF Standing, OneSyncs
    <2>4. \A q \in Proc : known'[q] # None /\ known'[q]["icloud"] = home' => AtHome'
        BY <1>1, <1>2, <2>1 DEF Standing
    <2>5. ASSUME NEW q \in Proc \ {p}, Syncing(q)
          PROVE  SyncOK(q)'
        <3>1. SyncOK(q)
            BY <2>1, <2>5 DEF Standing
        <3>2. (\A z \in Proc : known[z] # None => known[z]["icloud"] # home) =>
                  \A z \in Proc : known'[z] # None => known'[z]["icloud"] # home'
            BY <1>1, <1>2
        <3> QED
            BY <1>1, <2>5, <3>1, <3>2 DEF SyncOK
    <2>6. \A q \in Proc : Syncing(q)' => SyncOK(q)'
        BY <1>4, <2>1, <2>2, <2>5
    <2> QED
        BY <1>1, <2>1, <2>3, <2>4, <2>6 DEF Standing
<1> QED
    BY <1>3, <1>4 DEF TInv

\* TInv holds initially.
LEMMA InitTokens == ASSUME Init PROVE TInv
<1>1. \A p \in Proc : cycle[p].urls = None /\ known[p] = None /\ ~Syncing(p)
    BY DEF Init, Resting, Syncing, Running
<1>2. \A s \in Side : Row(s) = None
    <2>1. View(rows) = Empty
        BY NoRowsKeyed DEF Init
    <2>2. Endpoints(rows) = [s \in Side |-> None]
        BY <2>1 DEF View, Empty
    <2> QED
        BY <2>2 DEF Row
<1>3. "icloud" \in Side /\ "fastmail" \in Side
    BY DEF Side
<1> QED
    BY <1>1, <1>2, <1>3 DEF TInv, Urls, Standing, OneSyncs, RowsStand

\* A step of p's connection.
LEMMA ConnTokens ==
    ASSUME Inv, TInv, NEW p \in Proc, UNCHANGED <<rows, asked, cycle, known, hosts, resets, overlap>>,
           \A q \in Proc \ {p} : conn'[q] = conn[q], conn'[p].stale = conn[p].stale
    PROVE  TInv'
<1>1. Endpoints(rows)' = Endpoints(rows)
    OBVIOUS
<1>2. home' = home /\ (AtHome' <=> AtHome) /\ \A tokens : TokensOK(tokens)' <=> TokensOK(tokens)
    BY <1>1, SameEndpoints
<1>3. SyncOK(p) => SyncOK(p)'
    BY <1>2 DEF SyncOK
<1>4. cycle'[p].urls # None => FoundOK(cycle'[p].urls)
    BY DEF TInv, Urls
<1>5. Syncing(p)' <=> Syncing(p)
    BY DEF Syncing, Running
<1>6. ~overlap' /\ Standing /\ Syncing(p)' => SyncOK(p)' /\ Syncing(p)
    BY <1>3, <1>5 DEF Standing
<1> QED
    BY <1>1, <1>4, <1>6, TokensMove

\* A connection that is closed is not stale.
LEMMA ClosedFresh ==
    ASSUME Inv, NEW p \in Proc, asked[p] = None
    PROVE  ~conn[p].open /\ ~conn[p].stale
<1>1. ConnOK(conn[p], None)
    BY DEF Inv, ProcOK
<1>2. ~conn[p].open /\ conn[p] = Closed(conn[p].queryOnly)
    BY <1>1 DEF ConnOK
<1>3. \A b : ~Closed(b).stale
    BY DEF Closed
<1> QED
    BY <1>2, <1>3

\* The start of a cycle keeps TInv.
LEMMA StartTokens ==
    ASSUME Inv, TInv, NEW p \in Proc, Start(p)
    PROVE  TInv'
<1>1. PICK dryRun \in BOOLEAN, reset \in BOOLEAN :
          /\ cycle' = [cycle EXCEPT ![p] = [Resting EXCEPT !.pc = IF reset /\ ~dryRun THEN "reset" ELSE "collections",
                                                         !.dryRun = dryRun]]
          /\ overlap' = (overlap \/ (~dryRun /\ \E q \in Proc \ {p} : Running(q) /\ ~cycle[q].dryRun))
    BY DEF Start
<1>2. UNCHANGED <<rows, conn, asked, loaded, known, hosts, resets>> /\ ~Running(p)
    BY DEF Start
<1>3. /\ cycle'[p].pc \in {"reset", "collections"} /\ cycle'[p].urls = None /\ cycle'[p].dryRun = dryRun
      /\ \A q \in Proc \ {p} : cycle'[q] = cycle[q]
    BY <1>1 DEF Inv, Types, Resting
<1>4. asked[p] = None
    BY <1>2 DEF Running, Inv, ProcOK, AskingOK, Awaiting
<1>5. ~conn'[p].stale
    BY <1>2, <1>4, ClosedFresh
<1>6. SyncOK(p)'
    BY <1>3, <1>5 DEF SyncOK
<1>7. ~overlap' /\ Syncing(p)' => \A q \in Proc \ {p} : ~Syncing(q)
    BY <1>1, <1>3 DEF Syncing
<1>8. Endpoints(rows)' = Endpoints(rows)
    BY <1>2
<1> QED
    BY <1>1, <1>2, <1>3, <1>6, <1>7, <1>8, TokensMove

\* A step of p's cycle that keeps its snapshot, its urls and what it knows.
LEMMA StepTokens ==
    ASSUME Inv, TInv, NEW p \in Proc, UNCHANGED <<rows, known, hosts, resets, overlap>>,
           \A q \in Proc \ {p} : conn'[q] = conn[q] /\ asked'[q] = asked[q] /\ cycle'[q] = cycle[q],
           ~conn'[p].stale, cycle'[p].dryRun = cycle[p].dryRun, cycle'[p].urls = cycle[p].urls, Running(p),
           cycle'[p].pc # "recording",
           cycle'[p].pc \in {"load", "loading", "listing"} => cycle[p].pc \in {"load", "loading", "listing"},
           Standing /\ Syncing(p) =>
               /\ cycle'[p].pc \in {"ops", "operating"} => TokensOK(cycle'[p].tokens)
               /\ cycle'[p].pc = "ending" => TokensOK(asked'[p].tokens)
    PROVE  TInv'
<1>1. Endpoints(rows)' = Endpoints(rows)
    OBVIOUS
<1>2. home' = home /\ (AtHome' <=> AtHome) /\ \A tokens : TokensOK(tokens)' <=> TokensOK(tokens)
    BY <1>1, SameEndpoints
<1>3. cycle'[p].urls # None => FoundOK(cycle'[p].urls)
    BY DEF TInv, Urls
<1>4. Syncing(p)' => Syncing(p)
    BY DEF Syncing
<1>5. Standing /\ Syncing(p) => SyncOK(p)'
    <2> SUFFICES ASSUME Standing, Syncing(p)
                 PROVE  SyncOK(p)'
        OBVIOUS
    <2>1. SyncOK(p)
        BY DEF Standing
    <2> QED
        BY <1>2, <2>1 DEF SyncOK
<1> QED
    BY <1>1, <1>3, <1>4, <1>5, TokensMove

\* So does a cycle that asks for a transaction that names no collection.
LEMMA AskTokens ==
    ASSUME Inv, TInv, NEW p \in Proc, NEW x, NEW pc, Ask(p, x, pc), UNCHANGED <<rows, known, hosts, resets, overlap>>,
           Running(p), pc # "recording", pc \in {"load", "loading", "listing"} => cycle[p].pc \in {"load", "loading", "listing"},
           Standing /\ Syncing(p) =>
               /\ pc \in {"ops", "operating"} => TokensOK(cycle[p].tokens)
               /\ pc = "ending" => TokensOK(x.tokens)
    PROVE  TInv'
<1>1. /\ asked' = [asked EXCEPT ![p] = x] /\ conn' = [conn EXCEPT ![p] = Begun(conn[p], x)]
      /\ cycle' = [cycle EXCEPT ![p].pc = pc]
    BY DEF Ask, Begin, Goto
<1>2. /\ asked \in [Proc -> Transaction(Token) \cup {None}] /\ conn = [q \in Proc |-> conn[q]]
      /\ cycle \in [Proc -> Cycle] /\ cycle[p] \in Cycle
    BY DEF Inv, Types
<1>3. asked'[p] = x /\ conn'[p] = Begun(conn[p], x)
    BY <1>1, <1>2
<1>4. \A q \in Proc \ {p} : conn'[q] = conn[q] /\ asked'[q] = asked[q] /\ cycle'[q] = cycle[q]
    BY <1>1, <1>2
<1>5. /\ cycle'[p].pc = pc /\ cycle'[p].dryRun = cycle[p].dryRun /\ cycle'[p].urls = cycle[p].urls
      /\ cycle'[p].tokens = cycle[p].tokens
    BY <1>1, <1>2 DEF Cycle
<1>6. ~conn'[p].stale
    BY <1>3 DEF Begun, Closed
<1> QED
    BY <1>3, <1>4, <1>5, <1>6, StepTokens

\* The steps that only ask.
LEMMA OpsTokens ==
    ASSUME Inv, TInv, NEW p \in Proc, DropState(p) \/ Load(p) \/ Operate(p) \/ Finishing(p)
    PROVE  TInv'
<1>1. UNCHANGED <<rows, known, hosts, resets, overlap>>
    BY DEF DropState, Load, Operate, Finishing
<1>2. CASE DropState(p)
    BY <1>1, <1>2, AskTokens DEF DropState, At, Running
<1>3. CASE Load(p)
    BY <1>1, <1>3, AskTokens DEF Load, At, Running
<1>4. CASE Operate(p)
    <2>1. Standing /\ Syncing(p) => TokensOK(cycle[p].tokens)
        BY <1>4 DEF Operate, At, Standing, SyncOK
    <2>2. PICK x \in Operations[p] : Ask(p, x, "operating")
        BY <1>4 DEF Operate
    <2> QED
        BY <1>1, <1>4, <2>1, <2>2, AskTokens DEF Operate, At, Running
<1>5. CASE Finishing(p)
    <2> DEFINE x == [tx |-> "finish", skips |-> Unpaired(p), tokens |-> cycle[p].tokens,
                     clear |-> {k \in Key : loaded[p].failures[k] # None}]
    <2>1. Standing /\ Syncing(p) => TokensOK(cycle[p].tokens)
        BY <1>5 DEF Finishing, At, Standing, SyncOK
    <2>2. Ask(p, x, "ending") /\ cycle[p].pc = "ops" /\ x.tokens = cycle[p].tokens
        BY <1>5 DEF Finishing, At
    <2> HIDE DEF x
    <2> QED
        BY <1>1, <2>1, <2>2, AskTokens DEF Running
<1> QED
    BY <1>2, <1>3, <1>4, <1>5

\* Discovery finds the present collections.
LEMMA FoundIsOK == Inv => FoundOK(Found) /\ Found["icloud"] = home
<1>1. Inv => home \in Hosts
    <2> SUFFICES ASSUME Inv
                 PROVE  home \in Hosts
        OBVIOUS
    <2>1. Len(hosts) \in 1..Len(hosts)
        BY DEF Inv, Types
    <2> QED
        BY <2>1 DEF home, Hosts
<1> QED
    BY <1>1 DEF FoundOK, Found, Side

\* Finding the collections keeps TInv.
LEMMA CollectionsTokens ==
    ASSUME Inv, TInv, NEW p \in Proc, Collections(p)
    PROVE  TInv'
<1>1. /\ asked[p] = None /\ cycle[p].pc = "collections" /\ UNCHANGED <<rows, known, hosts, resets, overlap>>
    BY DEF Collections, At
<1>2. /\ asked \in [Proc -> Transaction(Token) \cup {None}] /\ conn = [q \in Proc |-> conn[q]]
      /\ cycle \in [Proc -> Cycle] /\ cycle[p] \in Cycle
    BY DEF Inv, Types
<1>3. Endpoints(rows)' = Endpoints(rows)
    BY <1>1
<1>4. home' = home /\ (AtHome' <=> AtHome) /\ \A tokens : TokensOK(tokens)' <=> TokensOK(tokens)
    BY <1>1, <1>3, SameEndpoints
<1>5. ASSUME NEW pc, NEW urls
      PROVE  [cycle EXCEPT ![p].pc = pc, ![p].urls = urls] = [cycle EXCEPT ![p] = Placed(cycle[p], pc, urls)]
    BY <1>2 DEF Placed
<1>6. PICK pc \in {"load", "listing", "recording"}, urls \in {known[p], Found} :
          /\ cycle' = [cycle EXCEPT ![p] = Placed(cycle[p], pc, urls)]
          /\ urls = Found \/ (urls = known[p] /\ known[p] # None)
          /\ pc = "recording" => urls = Found
          /\ pc \in {"load", "listing"} /\ ~cycle[p].dryRun => urls = known[p] /\ known[p] # None
    <2>1. CASE known[p] # None
        <3>1. cycle' = [cycle EXCEPT ![p].pc = "load", ![p].urls = known[p]]
            BY <2>1 DEF Collections
        <3>2. cycle' = [cycle EXCEPT ![p] = Placed(cycle[p], "load", known[p])]
            BY <1>5, <3>1
        <3> QED
            BY <2>1, <3>2
    <2>2. CASE known[p] = None /\ cycle[p].dryRun
        <3>1. PICK pc \in {"load", "listing"} : cycle' = [cycle EXCEPT ![p].pc = pc, ![p].urls = Found]
            BY <2>2 DEF Collections
        <3>2. cycle' = [cycle EXCEPT ![p] = Placed(cycle[p], pc, Found)]
            BY <1>5, <3>1
        <3> QED
            BY <2>2, <3>2
    <2>3. CASE known[p] = None /\ ~cycle[p].dryRun
        <3>1. cycle' = [cycle EXCEPT ![p].pc = "recording", ![p].urls = Found]
            BY <2>3 DEF Collections
        <3>2. cycle' = [cycle EXCEPT ![p] = Placed(cycle[p], "recording", Found)]
            BY <1>5, <3>1
        <3> QED
            BY <3>2
    <2> QED
        BY <2>1, <2>2, <2>3
<1>7. /\ cycle'[p].pc = pc /\ cycle'[p].urls = urls /\ cycle'[p].dryRun = cycle[p].dryRun
      /\ \A q \in Proc \ {p} : cycle'[q] = cycle[q]
    BY <1>2, <1>6 DEF Cycle, Placed
<1>8. /\ ~conn'[p].stale /\ \A q \in Proc \ {p} : conn'[q] = conn[q] /\ asked'[q] = asked[q]
    <2>1. CASE UNCHANGED <<asked, conn>>
        BY <1>1, <2>1, ClosedFresh
    <2>2. CASE Begin(p, [tx |-> "discovery", urls |-> Found])
        BY <1>2, <2>2 DEF Begin, Begun, Closed
    <2> QED
        BY <2>1, <2>2 DEF Collections
<1>9. FoundOK(urls)
    BY <1>6, FoundIsOK DEF TInv, Urls
<1>10. Syncing(p)' => Syncing(p)
    BY <1>1, <1>7 DEF Syncing, Running
<1>11. ASSUME Standing, Syncing(p)
       PROVE  SyncOK(p)'
    <2>1. ~cycle[p].dryRun
        BY <1>11 DEF Syncing
    <2>2. pc = "recording" => urls["icloud"] = home
        BY <1>6, FoundIsOK
    <2>3. pc \in {"load", "listing"} /\ urls["icloud"] = home => AtHome
        BY <1>6, <1>11, <2>1 DEF Standing
    <2> QED
        BY <1>4, <1>7, <1>8, <2>2, <2>3 DEF SyncOK
<1>12. FoundOK(cycle'[p].urls)
    BY <1>7, <1>9
<1> QED
    BY <1>1, <1>3, <1>7, <1>8, <1>10, <1>11, <1>12, TokensMove

\* A listing keeps TInv.
LEMMA ListTokens ==
    ASSUME Inv, TInv, NEW p \in Proc, List(p)
    PROVE  TInv'
<1>1. /\ asked[p] = None /\ cycle[p].pc = "listing" /\ UNCHANGED <<rows, hosts, resets, overlap>>
    BY DEF List, At
<1>2. /\ cycle \in [Proc -> Cycle] /\ cycle[p] \in Cycle /\ CycleOK(cycle[p]) /\ known \in [Proc -> [Side -> Url] \cup {None}]
    BY DEF Inv, Types, ProcOK
<1>3. ASSUME Standing, Syncing(p), cycle[p].urls["icloud"] = home
      PROVE  TokensOK(Listed(p))
    <2>1. AtHome
        BY <1>1, <1>3 DEF Standing, SyncOK
    <2>2. cycle[p].urls["fastmail"] = "fastmail" /\ (Row("fastmail") # None => Row("fastmail").url = "fastmail")
        BY <1>1, <1>2 DEF TInv, Urls, CycleOK, FoundOK
    <2>3. \A s \in Side : Row(s) # None => cycle[p].urls[s] = Row(s).url
        BY <1>3, <2>1, <2>2 DEF AtHome, Side
    <2> QED
        BY <2>3 DEF TokensOK, Listed
<1>4. CASE cycle[p].urls["icloud"] = home /\ Ask(p, [tx |-> "tokens", tokens |-> Listed(p)], "ending") /\ UNCHANGED <<loaded, known>>
    <2>1. [tx |-> "tokens", tokens |-> Listed(p)].tokens = Listed(p)
        OBVIOUS
    <2> QED
        BY <1>1, <1>3, <1>4, <2>1, AskTokens DEF Running
<1>5. CASE /\ cycle[p].urls["icloud"] = home
           /\ cycle' = [cycle EXCEPT ![p].pc = "ops", ![p].tokens = Listed(p)]
           /\ UNCHANGED <<conn, asked, loaded, known>>
    <2>1. /\ cycle'[p].pc = "ops" /\ cycle'[p].dryRun = cycle[p].dryRun /\ cycle'[p].urls = cycle[p].urls
          /\ cycle'[p].tokens = Listed(p) /\ \A q \in Proc \ {p} : cycle'[q] = cycle[q]
        BY <1>2, <1>5 DEF Cycle
    <2>2. ~conn'[p].stale
        BY <1>1, <1>5, ClosedFresh
    <2> QED
        BY <1>1, <1>3, <1>5, <2>1, <2>2, StepTokens DEF Running
<1>6. ASSUME NEW cached \in {known[p], None}, Over(p, cached), UNCHANGED <<conn, asked>>
      PROVE  TInv'
    <2>1. /\ cycle'[p] = Resting /\ \A q \in Proc \ {p} : cycle'[q] = cycle[q] /\ known'[q] = known[q]
          /\ known'[p] \in {known[p], None}
        BY <1>2, <1>6 DEF Over, Kept
    <2>2. cycle'[p].urls = None /\ ~Syncing(p)'
        BY <2>1 DEF Resting, Syncing, Running
    <2>3. Endpoints(rows)' = Endpoints(rows)
        BY <1>1
    <2> QED
        BY <1>1, <1>6, <2>1, <2>2, <2>3, TokensMove
<1> QED
    BY <1>4, <1>5, <1>6 DEF List

\* A step that ends p's transaction and its cycle.
LEMMA EndTokens ==
    ASSUME Inv, TInv, NEW p \in Proc, Endpoints(rows)' = Endpoints(rows), UNCHANGED <<hosts, resets, overlap>>,
           \A q \in Proc \ {p} : asked'[q] = asked[q] /\ (Syncing(q) => conn'[q].stale = conn[q].stale),
           NEW cached \in {known[p], None}, Over(p, cached)
    PROVE  TInv'
<1>1. cycle \in [Proc -> Cycle] /\ known \in [Proc -> [Side -> Url] \cup {None}]
    BY DEF Inv, Types
<1>2. /\ cycle'[p] = Resting /\ \A q \in Proc \ {p} : cycle'[q] = cycle[q] /\ known'[q] = known[q]
      /\ known'[p] \in {known[p], None}
    BY <1>1 DEF Over, Kept
<1>3. cycle'[p].urls = None /\ ~Syncing(p)'
    BY <1>2 DEF Resting, Syncing, Running
<1> QED
    BY <1>2, <1>3, TokensMove

\* A crash keeps TInv.
LEMMA CrashTokens ==
    ASSUME Inv, TInv, NEW p \in Proc, Crash(p)
    PROVE  TInv'
<1>1. /\ Over(p, None) /\ UNCHANGED <<rows, hosts, resets, overlap>> /\ asked' = [asked EXCEPT ![p] = None]
      /\ conn' = [conn EXCEPT ![p] = Closed(FALSE)]
    BY DEF Crash
<1>2. \A q \in Proc \ {p} : asked'[q] = asked[q] /\ conn'[q] = conn[q]
    BY <1>1 DEF Inv, Types
<1>3. Endpoints(rows)' = Endpoints(rows)
    BY <1>1
<1> QED
    BY <1>1, <1>2, <1>3, EndTokens

\* What a cycle is after a transaction that did not end it.
LEMMA ResumeGoes ==
    ASSUME Inv, NEW p \in Proc, NEW error, Resume(p, error), asked[p] # None, ~Fatal(p, error), cycle[p].pc # "ending"
    PROVE  /\ cycle[p].pc \in {"resetting", "recording", "loading", "operating"}
           /\ cycle'[p].pc = After(cycle[p].pc) /\ cycle'[p].dryRun = cycle[p].dryRun
           /\ cycle'[p].urls = cycle[p].urls /\ cycle'[p].tokens = cycle[p].tokens
           /\ known' = CASE cycle[p].pc = "resetting" -> [known EXCEPT ![p] = None]
                         [] cycle[p].pc = "recording" -> [known EXCEPT ![p] = cycle[p].urls]
                         [] OTHER -> known
           /\ \A q \in Proc \ {p} : cycle'[q] = cycle[q] /\ known'[q] = known[q]
<1>1. cycle \in [Proc -> Cycle] /\ cycle[p] \in Cycle /\ known = [q \in Proc |-> known[q]] /\ AskingOK(asked[p], cycle[p])
    BY DEF Inv, Types, ProcOK
<1>2. cycle[p].pc \in {"resetting", "recording", "loading", "operating"}
    BY <1>1 DEF AskingOK, Awaiting
<1>3. /\ cycle' = [cycle EXCEPT ![p].pc = After(cycle[p].pc)]
      /\ known' = CASE cycle[p].pc = "resetting" -> [known EXCEPT ![p] = None]
                    [] cycle[p].pc = "recording" -> [known EXCEPT ![p] = cycle[p].urls]
                    [] OTHER -> known
    BY DEF Resume, Goto
<1>4. /\ cycle'[p].pc = After(cycle[p].pc) /\ cycle'[p].dryRun = cycle[p].dryRun
      /\ cycle'[p].urls = cycle[p].urls /\ cycle'[p].tokens = cycle[p].tokens
      /\ \A q \in Proc \ {p} : cycle'[q] = cycle[q]
    BY <1>1, <1>3 DEF Cycle
<1>5. \A q \in Proc \ {p} : known'[q] = known[q]
    BY <1>1, <1>2, <1>3
<1> QED
    BY <1>2, <1>3, <1>4, <1>5

\* A rollback keeps TInv.
LEMMA RollbackTokens ==
    ASSUME Inv, TInv, NEW p \in Proc, Rollback(p)
    PROVE  TInv'
<1>1. /\ asked[p] # None /\ conn[p].error # None /\ UNCHANGED <<rows, hosts, resets, overlap>>
      /\ conn' = [conn EXCEPT ![p] = Closed(conn[p].queryOnly)] /\ Resume(p, conn[p].error)
    BY DEF Rollback, Undone
<1>2. Endpoints(rows)' = Endpoints(rows)
    BY <1>1
<1>3. asked' = [asked EXCEPT ![p] = None]
    BY <1>1 DEF Resume
<1>4. \A q \in Proc \ {p} : asked'[q] = asked[q] /\ conn'[q] = conn[q]
    BY <1>1, <1>3 DEF Inv, Types
<1>5. CASE Fatal(p, conn[p].error) \/ cycle[p].pc = "ending"
    <2>1. Over(p, known[p])
        BY <1>1, <1>5 DEF Resume
    <2> QED
        BY <1>1, <1>2, <1>4, <2>1, EndTokens
<1>6. CASE ~Fatal(p, conn[p].error) /\ cycle[p].pc # "ending"
    <2>1. cycle[p].pc = "operating"
        BY <1>1, <1>6 DEF Fatal
    <2>2. /\ cycle'[p].pc = "ops" /\ cycle'[p].dryRun = cycle[p].dryRun
          /\ cycle'[p].urls = cycle[p].urls /\ cycle'[p].tokens = cycle[p].tokens /\ known' = known
          /\ \A q \in Proc \ {p} : cycle'[q] = cycle[q]
        BY <1>1, <1>6, <2>1, ResumeGoes DEF After
    <2>3. ~conn'[p].stale
        BY <1>1 DEF Closed, Inv, Types
    <2>4. Standing /\ Syncing(p) => TokensOK(cycle'[p].tokens)
        BY <2>1, <2>2 DEF Standing, SyncOK
    <2> QED
        BY <1>1, <1>4, <2>1, <2>2, <2>3, <2>4, StepTokens DEF Running
<1> QED
    BY <1>5, <1>6

\* A move of iCloud's collection keeps TInv.
LEMMA MoveTokens ==
    ASSUME Inv, TInv, Move
    PROVE  TInv'
<1>1. UNCHANGED <<rows, conn, asked, loaded, cycle, known, resets, overlap>>
    BY DEF Move
<1>2. PICK url \in Url \ {home, "fastmail"} : hosts' = Append(hosts, url)
    BY DEF Move
<1>3. hosts \in Seq(Url \ {"fastmail"})
    BY DEF Inv, Types
<1>4. /\ Len(hosts') = Len(hosts) + 1 /\ hosts'[Len(hosts')] = url /\ Len(hosts) \in Nat
      /\ \A i \in 1..Len(hosts) : hosts'[i] = hosts[i]
      /\ DOMAIN hosts = 1..Len(hosts) /\ DOMAIN hosts' = 1..Len(hosts')
    BY <1>2, <1>3
<1>5. home' = url /\ Hosts \subseteq Hosts'
    BY <1>4 DEF home, Hosts
<1>6. (Returned => Returned') /\ (url \in Hosts => Returned')
    <2>1. Returned => Returned'
        BY <1>4 DEF Returned
    <2>2. ASSUME url \in Hosts
          PROVE  Returned'
        <3>1. PICK i \in 1..Len(hosts) : hosts[i] = url
            BY <2>2 DEF Hosts
        <3>2. i \in DOMAIN hosts' /\ Len(hosts') \in DOMAIN hosts' /\ i < Len(hosts') /\ hosts'[i] = hosts'[Len(hosts')]
            BY <1>4, <3>1
        <3> QED
            BY <3>2 DEF Returned
    <2> QED
        BY <2>1, <2>2
<1>7. Endpoints(rows)' = Endpoints(rows)
    BY <1>1
<1>8. (\A s : Row(s)' = Row(s)) /\ (\A tokens : TokensOK(tokens)' <=> TokensOK(tokens)) /\ (RowsStand' <=> RowsStand)
    BY <1>1, <1>7 DEF Row, TokensOK, RowsStand
<1>9. Urls'
    BY <1>1, <1>5, <1>8 DEF TInv, Urls, FoundOK
<1>10. ASSUME ~overlap', ~Returned'
       PROVE  Standing'
    <2>1. Standing /\ url \notin Hosts
        BY <1>1, <1>6, <1>10 DEF TInv
    <2>2. OneSyncs'
        BY <1>1, <2>1 DEF Standing, OneSyncs, Syncing, Running
    <2>3. \A q \in Proc : known'[q] # None => known'[q]["icloud"] # home'
        BY <1>1, <1>5, <2>1 DEF TInv, Urls, FoundOK
    <2>4. ASSUME NEW q \in Proc, Syncing(q)'
          PROVE  SyncOK(q)'
        <3>1. SyncOK(q)
            BY <1>1, <2>1, <2>4 DEF Standing, Syncing, Running
        <3>2. cycle[q].pc \in {"load", "loading", "listing"} => cycle[q].urls["icloud"] # home'
            <4>1. CycleOK(cycle[q])
                BY DEF Inv, ProcOK
            <4>2. cycle[q].pc \in {"load", "loading", "listing"} => FoundOK(cycle[q].urls)
                BY <4>1 DEF CycleOK, TInv, Urls
            <4> QED
                BY <1>5, <2>1, <4>2 DEF FoundOK
        <3> QED
            BY <1>1, <1>8, <2>3, <3>1, <3>2 DEF SyncOK
    <2> QED
        BY <1>8, <2>1, <2>2, <2>3, <2>4 DEF Standing
<1> QED
    BY <1>9, <1>10 DEF TInv

\* What a commit makes of the tables.
LEMMA CommitRows ==
    ASSUME Inv, NEW p \in Proc, Commit(p)
    PROVE  /\ ~conn[p].locked => rows' = rows
           /\ conn[p].locked => ~conn[p].stale
           /\ ~conn[p].stale => /\ View(rows)' = Half(asked[p], {}, View(rows))
                                /\ Passed(asked[p], {}, View(rows))
<1> DEFINE c == conn[p]
           x == asked[p]
<1>1. /\ x # None /\ c.error = None /\ c.todo = << >>
      /\ rows' = (IF c.locked THEN c.data ELSE rows)
    BY DEF Commit
<1>2. x \in Transaction(Token) /\ ConnOK(c, x) /\ SnapshotOK(c, x, rows)
    BY <1>1 DEF Inv, Types, ProcOK
<1>3. c.open /\ OpenOK(c, x) /\ LockOK(c)
    BY <1>1, <1>2 DEF ConnOK
<1>4. Ran(c.todo) = {}
    BY <1>1 DEF Ran
<1>5. CASE c.data # None
    BY <1>1, <1>2, <1>3, <1>4, <1>5 DEF SnapshotOK, LockOK
<1>6. CASE c.data = None
    <2>1. CallsOf(x) = {} /\ ~c.locked
        BY <1>1, <1>3, <1>4, <1>6 DEF OpenOK, LockOK
    <2>2. Half(x, {}, View(rows)) = View(rows) /\ Passed(x, {}, View(rows))
        BY <1>2, <2>1, ViewIsTabular, HalfStart
    <2> QED
        BY <1>1, <2>1, <2>2
<1> QED
    BY <1>5, <1>6

\* What a fresh commit makes of the rows of the collections.
LEMMA CommitEndpoints ==
    ASSUME Inv, NEW p \in Proc, Commit(p), ~conn[p].stale, NEW x, x = asked[p]
    PROVE  /\ x.tx = "discovery" => \A s \in Side : Row(s)' = Discovered(Row(s), x.urls[s])
           /\ x.tx \in {"tokens", "finish"} =>
                 \A s \in Side : Row(s) # None /\ Row(s)' = [Row(s) EXCEPT !.token = x.tokens[s]]
           /\ x.tx = "reset" => \A s \in Side : Row(s)' = None
           /\ x.tx \notin {"discovery", "tokens", "finish", "reset"} => Endpoints(rows)' = Endpoints(rows)
<1> DEFINE t == View(rows)
<1>1. View(rows)' = Half(x, {}, t) /\ Passed(x, {}, t)
    BY CommitRows
<1>2. Endpoints(rows) = t.endpoints /\ Endpoints(rows)' = View(rows)'.endpoints
    BY DEF View
<1> HIDE DEF t
<1>3. Half(x, {}, t).endpoints = HalfEndpoints(x, {}, t)
    BY HalfIs
<1>4. Endpoints(rows)' = HalfEndpoints(x, {}, t)
    BY <1>1, <1>2, <1>3
<1>5. x.tx = "discovery" => \A s \in Side : Row(s)' = Discovered(Row(s), x.urls[s])
    BY <1>2, <1>4 DEF HalfEndpoints, Row
<1>6. x.tx \in {"tokens", "finish"} => \A s \in Side : Row(s) # None /\ Row(s)' = [Row(s) EXCEPT !.token = x.tokens[s]]
    BY <1>1, <1>2, <1>4 DEF HalfEndpoints, Row, Passed
<1>7. x.tx = "reset" => \A s \in Side : Row(s)' = None
    BY <1>4 DEF HalfEndpoints, Row, Empty
<1>8. x.tx \notin {"discovery", "tokens", "finish", "reset"} => Endpoints(rows)' = Endpoints(rows)
    BY <1>2, <1>4 DEF HalfEndpoints
<1> QED
    BY <1>5, <1>6, <1>7, <1>8

\* The rows of the collections, and what is said of a row that a commit left.
LEMMA RowIs ==
    ASSUME Inv
    PROVE  \A s \in Side : Row(s) \in Endpoint(Token) \cup {None}
<1>1. Keyed(rows)
    BY DEF Inv, Types
<1>2. ASSUME NEW s \in Side, NEW r \in EndpointRows(rows, s)
      PROVE  Endpoints(rows)[s] \in Endpoint(Token)
    <2>1. r \in rows.endpoints /\ r.side = s
        BY <1>2 DEF EndpointRows
    <2>2. r.url \in Url /\ r.token \in Token \cup {None}
        BY <1>1, <2>1 DEF Keyed, Rows, EndpointTable
    <2>3. Endpoints(rows)[s] = EndpointOf(r)
        BY <1>1, <2>1, EndpointIs
    <2> QED
        BY <2>2, <2>3 DEF EndpointOf, Endpoint
<1>3. ASSUME NEW s \in Side, EndpointRows(rows, s) = {}
      PROVE  Endpoints(rows)[s] = None
    BY <1>1, <1>3, EndpointsAre
<1> QED
    BY <1>2, <1>3 DEF Row

\* However p's cycle goes on, it keeps its collections or forgets them.
LEMMA ResumeUrls ==
    ASSUME Inv, TInv, NEW p \in Proc, NEW error, Resume(p, error), asked[p] # None
    PROVE  /\ \A q \in Proc : cycle'[q].urls # None => FoundOK(cycle'[q].urls)
           /\ \A q \in Proc : known'[q] # None => FoundOK(known'[q])
<1>1. /\ cycle \in [Proc -> Cycle] /\ known \in [Proc -> [Side -> Url] \cup {None}]
      /\ AskingOK(asked[p], cycle[p]) /\ CycleOK(cycle[p])
    BY DEF Inv, Types, ProcOK
<1>2. CASE Fatal(p, error) \/ cycle[p].pc = "ending"
    <2>1. Over(p, known[p])
        BY <1>2 DEF Resume
    <2>2. /\ cycle'[p] = Resting /\ \A q \in Proc \ {p} : cycle'[q] = cycle[q] /\ known'[q] = known[q]
          /\ known'[p] \in {known[p], None}
        BY <1>1, <2>1 DEF Over, Kept
    <2>3. cycle'[p].urls = None
        BY <2>2 DEF Resting
    <2> QED
        BY <2>2, <2>3 DEF TInv, Urls
<1>3. CASE ~Fatal(p, error) /\ cycle[p].pc # "ending"
    <2>1. /\ cycle'[p].urls = cycle[p].urls /\ \A q \in Proc \ {p} : cycle'[q] = cycle[q] /\ known'[q] = known[q]
          /\ known' = CASE cycle[p].pc = "resetting" -> [known EXCEPT ![p] = None]
                        [] cycle[p].pc = "recording" -> [known EXCEPT ![p] = cycle[p].urls]
                        [] OTHER -> known
        BY <1>3, ResumeGoes
    <2>2. known'[p] \in {None, known[p], cycle[p].urls}
        BY <1>1, <2>1
    <2> QED
        BY <2>1, <2>2 DEF TInv, Urls
<1> QED
    BY <1>2, <1>3

\* After a commit the recorded URLs are still collections that were current.
LEMMA CommitUrls ==
    ASSUME Inv, TInv, NEW p \in Proc, Commit(p)
    PROVE  Urls'
<1>1. asked[p] # None /\ Resume(p, None) /\ hosts' = hosts
    BY DEF Commit
<1>2. \A urls : FoundOK(urls)' <=> FoundOK(urls)
    BY <1>1 DEF FoundOK, Hosts
<1>3. /\ \A q \in Proc : cycle'[q].urls # None => FoundOK(cycle'[q].urls)
      /\ \A q \in Proc : known'[q] # None => FoundOK(known'[q])
    BY <1>1, ResumeUrls
<1>4. Row("fastmail")' # None => Row("fastmail")'.url = "fastmail"
    <2> DEFINE x == asked[p]
    <2>1. CASE ~conn[p].locked
        BY <2>1, CommitRows DEF Row, TInv, Urls
    <2>2. CASE conn[p].locked
        <3>1. /\ x.tx = "discovery" => Row("fastmail")' = Discovered(Row("fastmail"), x.urls["fastmail"])
              /\ x.tx \in {"tokens", "finish"} =>
                    Row("fastmail") # None /\ Row("fastmail")' = [Row("fastmail") EXCEPT !.token = x.tokens["fastmail"]]
              /\ x.tx = "reset" => Row("fastmail")' = None
              /\ x.tx \notin {"discovery", "tokens", "finish", "reset"} => Endpoints(rows)' = Endpoints(rows)
            BY <2>2, CommitRows, CommitEndpoints DEF Side
        <3>2. Row("fastmail") \in Endpoint(Token) \cup {None} /\ (Row("fastmail") # None => Row("fastmail").url = "fastmail")
            BY RowIs DEF TInv, Urls, Side
        <3>3. CASE x.tx = "discovery"
            <4>1. AskingOK(x, cycle[p]) /\ CycleOK(cycle[p])
                BY DEF Inv, ProcOK
            <4>2. cycle[p].pc = "recording"
                BY <1>1, <3>3, <4>1 DEF AskingOK, Awaiting, Operation
            <4>3. x.urls["fastmail"] = "fastmail"
                BY <4>1, <4>2 DEF AskingOK, CycleOK, TInv, Urls, FoundOK
            <4> QED
                BY <3>1, <3>3, <4>3 DEF Discovered
        <3>4. CASE x.tx \in {"tokens", "finish"}
            BY <3>1, <3>2, <3>4 DEF Endpoint
        <3>5. CASE x.tx = "reset"
            BY <3>1, <3>5
        <3>6. CASE x.tx \notin {"discovery", "tokens", "finish", "reset"}
            BY <3>1, <3>2, <3>6 DEF Row
        <3> QED
            BY <3>3, <3>4, <3>5, <3>6
    <2> QED
        BY <2>1, <2>2
<1> QED
    BY <1>2, <1>3, <1>4 DEF Urls

\* The commit of the one cycle that syncs.
LEMMA SyncCommitTokens ==
    ASSUME Inv, TInv, NEW p \in Proc, Commit(p), Standing, Syncing(p), ~overlap', ~Returned'
    PROVE  Standing'
<1> DEFINE x == asked[p]
           cy == cycle[p]
<1>1. /\ x # None /\ conn' = Committed(p) /\ resets' = resets + (IF x.tx = "reset" THEN 1 ELSE 0)
      /\ Resume(p, None) /\ UNCHANGED <<hosts, overlap>>
    BY DEF Commit
<1>2. SyncOK(p) /\ (\A q \in Proc \ {p} : ~Syncing(q)) /\ ~cy.dryRun
    BY DEF Standing, OneSyncs, Syncing
<1>3. /\ x.tx = "discovery" => \A s \in Side : Row(s)' = Discovered(Row(s), x.urls[s])
      /\ x.tx \in {"tokens", "finish"} =>
            \A s \in Side : Row(s) # None /\ Row(s)' = [Row(s) EXCEPT !.token = x.tokens[s]]
      /\ x.tx = "reset" => \A s \in Side : Row(s)' = None
      /\ x.tx \notin {"discovery", "tokens", "finish", "reset"} => Endpoints(rows)' = Endpoints(rows)
    BY <1>2, CommitEndpoints DEF SyncOK
<1>4. /\ AskingOK(x, cy) /\ CycleOK(cy) /\ cy \in Cycle /\ x \in Transaction(Token) /\ resets \in Nat
      /\ cycle \in [Proc -> Cycle] /\ known \in [Proc -> [Side -> Url] \cup {None}]
    BY <1>1 DEF Inv, Types, ProcOK
<1>5. home' = home /\ Hosts' = Hosts /\ \A urls : FoundOK(urls)' <=> FoundOK(urls)
    BY <1>1 DEF home, Hosts, FoundOK
<1>6. ~conn'[p].stale
    BY <1>1 DEF Committed, Closed
<1>7. \A s \in Side : Row(s) \in Endpoint(Token) \cup {None}
    BY RowIs
<1>8. CASE cy.pc = "ending"
    <2>1. Over(p, known[p]) /\ x.tx \in {"tokens", "finish"} /\ TokensOK(x.tokens)
        BY <1>1, <1>2, <1>4, <1>8 DEF Resume, AskingOK, SyncOK
    <2>2. /\ cycle'[p] = Resting /\ \A q \in Proc \ {p} : cycle'[q] = cycle[q] /\ known'[q] = known[q]
          /\ known'[p] \in {known[p], None}
        BY <1>4, <2>1 DEF Over, Kept
    <2>3. cycle'[p].urls = None /\ \A q \in Proc : ~Syncing(q)'
        BY <1>2, <2>2 DEF Resting, Syncing, Running
    <2>4. \A s \in Side : Row(s) # None /\ Row(s)'.url = Row(s).url /\ Row(s)'.token = x.tokens[s]
        BY <1>3, <1>7, <2>1 DEF Endpoint
    <2>5. resets' = resets
        BY <1>1, <1>4, <2>1
    <2>6. RowsStand'
        BY <2>1, <2>4, <2>5 DEF RowsStand, TokensOK
    <2>7. AtHome => AtHome'
        BY <1>5, <2>4 DEF AtHome, Side
    <2> QED
        BY <1>5, <2>2, <2>3, <2>6, <2>7 DEF Standing, OneSyncs
<1>9. CASE cy.pc # "ending"
    <2>1. ~Fatal(p, None)
        BY DEF Fatal
    <2>2. /\ cy.pc \in {"resetting", "recording", "loading", "operating"}
          /\ cycle'[p].pc = After(cy.pc) /\ cycle'[p].dryRun = cy.dryRun
          /\ cycle'[p].urls = cy.urls /\ cycle'[p].tokens = cy.tokens
          /\ known' = CASE cy.pc = "resetting" -> [known EXCEPT ![p] = None]
                        [] cy.pc = "recording" -> [known EXCEPT ![p] = cy.urls]
                        [] OTHER -> known
          /\ \A q \in Proc \ {p} : cycle'[q] = cycle[q] /\ known'[q] = known[q]
        BY <1>1, <1>9, <2>1, ResumeGoes
    <2>3. OneSyncs' /\ \A q \in Proc \ {p} : ~Syncing(q)'
        BY <1>2, <2>2 DEF OneSyncs, Syncing, Running
    <2>4. CASE cy.pc = "resetting"
        <3>1. x.tx = "reset" /\ cycle'[p].pc = "collections" /\ known'[p] = None
            BY <1>4, <2>2, <2>4 DEF AskingOK, After
        <3>2. \A s \in Side : Row(s)' = None
            BY <1>3, <3>1
        <3>3. RowsStand' /\ AtHome'
            BY <3>2 DEF RowsStand, AtHome, Side
        <3>4. SyncOK(p)'
            BY <1>6, <3>1 DEF SyncOK
        <3> QED
            BY <2>3, <3>3, <3>4 DEF Standing
    <2>5. CASE cy.pc = "recording"
        <3>1. /\ x.tx = "discovery" /\ x.urls = cy.urls /\ cycle'[p].pc = "load" /\ known'[p] = cy.urls
              /\ cy.urls # None /\ cy.urls \in [Side -> Url]
            BY <1>4, <2>2, <2>5 DEF AskingOK, CycleOK, Cycle, After
        <3>3. \A s \in Side : Row(s)' = Discovered(Row(s), cy.urls[s])
            BY <1>3, <3>1
        <3>4. ASSUME NEW s \in Side
              PROVE  Row(s)'.url = cy.urls[s] /\ (Row(s)'.token = None \/ (Row(s) # None /\ Row(s)' = Row(s)))
            BY <3>3 DEF Discovered
        <3>5. RowsStand'
            <4>1. resets' = resets
                BY <1>1, <1>4, <3>1
            <4> QED
                BY <3>4, <4>1 DEF RowsStand, Standing
        <3>6. cy.urls["icloud"] = home => AtHome'
            BY <1>5, <3>4 DEF AtHome, Side
        <3>7. ASSUME NEW q \in Proc, known'[q] # None, known'[q]["icloud"] = home
              PROVE  AtHome'
            <4>1. CASE q = p
                BY <3>1, <3>6, <3>7, <4>1
            <4>2. CASE q # p
                <5>1. known[q] # None /\ known[q]["icloud"] = home
                    BY <2>2, <3>7, <4>2
                <5>2. cy.urls["icloud"] = home
                    BY <1>2, <2>5, <5>1 DEF SyncOK
                <5> QED
                    BY <3>6, <5>2
            <4> QED
                BY <4>1, <4>2
        <3>8. SyncOK(p)'
            BY <1>5, <1>6, <2>2, <3>1, <3>6 DEF SyncOK
        <3> QED
            BY <1>5, <2>3, <3>5, <3>7, <3>8 DEF Standing
    <2>6. CASE cy.pc \in {"loading", "operating"}
        <3>1. x.tx \notin {"discovery", "tokens", "finish", "reset"}
            BY <1>4, <2>6 DEF AskingOK, Operation
        <3>2. Endpoints(rows)' = Endpoints(rows) /\ resets' = resets /\ known' = known
            BY <1>1, <1>3, <1>4, <2>2, <2>6, <3>1
        <3>3. /\ (AtHome' <=> AtHome) /\ (RowsStand' <=> RowsStand) /\ \A s : Row(s)' = Row(s)
              /\ \A tokens : TokensOK(tokens)' <=> TokensOK(tokens)
            BY <1>1, <3>2, SameEndpoints
        <3>4. SyncOK(p)'
            BY <1>2, <1>5, <1>6, <2>2, <2>6, <3>3 DEF SyncOK, After
        <3> QED
            BY <1>5, <2>3, <3>2, <3>3, <3>4 DEF Standing
    <2> QED
        BY <2>2, <2>4, <2>5, <2>6
<1> QED
    BY <1>8, <1>9

\* A commit keeps TInv.
LEMMA CommitTokens ==
    ASSUME Inv, TInv, NEW p \in Proc, Commit(p)
    PROVE  TInv'
<1>1. /\ asked[p] # None /\ conn' = Committed(p) /\ Resume(p, None) /\ UNCHANGED <<hosts, overlap>>
      /\ resets' = resets + (IF asked[p].tx = "reset" THEN 1 ELSE 0)
    BY DEF Commit
<1>2. Returned' <=> Returned
    BY <1>1 DEF Returned
<1>3. CASE overlap \/ Returned
    BY <1>1, <1>2, <1>3, CommitUrls DEF TInv
<1>4. CASE ~overlap /\ ~Returned /\ Syncing(p)
    BY <1>1, <1>2, <1>4, CommitUrls, SyncCommitTokens DEF TInv
<1>5. CASE ~Syncing(p)
    <2>1. cycle[p].pc \in Awaiting /\ cycle[p].dryRun
        BY <1>1, <1>5 DEF Syncing, Running, Inv, ProcOK, AskingOK, Awaiting
    <2>2. cycle[p].pc = "loading" /\ asked[p].tx = "load"
        BY <2>1 DEF Inv, ProcOK, CycleOK, AskingOK, Awaiting
    <2>3. ~conn[p].locked
        BY <1>1, <2>2, LoadIs DEF ReadOnly
    <2>4. rows' = rows /\ resets' = resets
        BY <1>1, <2>2, <2>3, CommitRows DEF Inv, Types
    <2>5. asked' = [asked EXCEPT ![p] = None]
        BY <1>1 DEF Resume
    <2>6. \A q \in Proc \ {p} : asked'[q] = asked[q] /\ conn'[q] = conn[q]
        BY <1>1, <2>3, <2>5 DEF Committed, Inv, Types
    <2>7. /\ cycle'[p].pc = "listing" /\ cycle'[p].dryRun /\ known' = known
          /\ cycle'[p].urls = cycle[p].urls /\ \A q \in Proc \ {p} : cycle'[q] = cycle[q]
        BY <1>1, <2>1, <2>2, ResumeGoes DEF After, Fatal
    <2>8. ~Syncing(p)'
        BY <2>7 DEF Syncing
    <2>9. cycle'[p].urls # None => FoundOK(cycle'[p].urls)
        BY <2>7 DEF TInv, Urls
    <2>10. Endpoints(rows)' = Endpoints(rows)
        BY <2>4
    <2> QED
        BY <1>1, <2>4, <2>6, <2>7, <2>8, <2>9, <2>10, TokensMove
<1> QED
    BY <1>3, <1>4, <1>5

\* TInv is inductive, under Inv.
LEMMA NextTokens == ASSUME Inv, TInv, [Next]_vars PROVE TInv'
<1>1. ASSUME NEW p \in Proc, Query(p) PROVE TInv'
    <2>1. conn' = [conn EXCEPT ![p].data = rows] /\ UNCHANGED <<rows, asked, cycle, known, hosts, resets, overlap>>
        BY <1>1 DEF Query
    <2>2. \A q \in Proc \ {p} : conn'[q] = conn[q]
        BY <2>1 DEF Inv, Types
    <2>3. conn'[p].stale = conn[p].stale
        <3> DEFINE c == conn[p]
        <3>1. c = [open |-> c.open, queryOnly |-> c.queryOnly, data |-> c.data, stale |-> c.stale,
                   locked |-> c.locked, todo |-> c.todo, found |-> c.found, error |-> c.error]
            BY DEF Inv, ProcOK, ConnOK, Fields
        <3>2. conn'[p] = [c EXCEPT !.data = rows]
            BY <2>1 DEF Inv, Types
        <3> QED
            BY <3>1, <3>2
    <2> QED
        BY <2>1, <2>2, <2>3, ConnTokens
<1>2. ASSUME NEW p \in Proc, Statement(p) PROVE TInv'
    <2>1. UNCHANGED <<rows, asked, cycle, known, hosts, resets, overlap>>
        BY <1>2 DEF Statement
    <2>2. (\A q \in Proc \ {p} : conn'[q] = conn[q]) /\ conn'[p].stale = conn[p].stale
        BY <1>2, StatementConn
    <2> QED
        BY <2>1, <2>2, ConnTokens
<1>3. ASSUME NEW p \in Proc, Transact(p) PROVE TInv'
    BY <1>1, <1>2, <1>3, CommitTokens, RollbackTokens DEF Transact
<1>4. ASSUME NEW p \in Proc, Proceed(p) PROVE TInv'
    BY <1>4, OpsTokens, CollectionsTokens, ListTokens DEF Proceed
<1>5. CASE UNCHANGED vars
    BY <1>5 DEF vars, TInv, Urls, FoundOK, Hosts, Row, Returned, Standing, OneSyncs, RowsStand, Syncing, Running,
                SyncOK, TokensOK, AtHome, home
<1> QED
    BY <1>3, <1>4, <1>5, StartTokens, CrashTokens, MoveTokens DEF Next

\* As long as no two sync cycles ran at once and the iCloud collection came
\* back to no host it had left, each stored token is of the collection it is
\* stored with, and no reset came after its listing
\* (core/src/state/endpoint.rs:24-27, core/src/service/mod.rs, reset).
THEOREM TokensStandHolds == Spec => []TokensStand
<1>1. Init => TInv
    BY InitTokens
<1>2. Inv /\ TInv /\ [Next]_vars => TInv'
    BY NextTokens
<1>3. Inv /\ TInv => TokensStand
    <2> SUFFICES ASSUME Inv, TInv, ~overlap, ~Returned, NEW r \in rows.endpoints, r.token # None
                 PROVE  r.token.url = r.url /\ r.token.since = resets
        BY DEF TokensStand
    <2>1. Keyed(rows)
        BY DEF Inv, Types
    <2>2. r.side \in Side
        BY <2>1, EndpointsAre
    <2>3. Row(r.side) # None /\ Row(r.side).url = r.url /\ Row(r.side).token = r.token
        BY <2>1, <2>2, EndpointIs DEF Row
    <2> QED
        BY <2>2, <2>3 DEF TInv, Standing, RowsStand
<1> QED
    BY <1>1, <1>2, <1>3, InvHolds, PTL DEF Spec
=============================================================================
