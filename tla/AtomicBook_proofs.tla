-------------------------- MODULE AtomicBook_proofs --------------------------
(***************************************************************************)
(* Proofs about AtomicBook: with listings of one instant and tokens that   *)
(* know of every change since, no change of a card goes unnoticed.         *)
(***************************************************************************)
EXTENDS AtomicBook, TLAPS

\* What a listing says is as it was, or its token tells of it.
LEMMA ChangeTold ==
    ASSUME TypeOK, NothingMissed, NEW h \in Href, Change(h)
    PROVE  TypeOK' /\ NothingMissed'
<1>1. ASSUME NEW list \in Listing, True(list)
      PROVE  After(list, h) \in Listing /\ True(After(list, h))'
    <2>1. /\ After(list, h).entries = list.entries
          /\ After(list, h).since = list.since \cup {h}
          /\ After(list, h) \in Listing
        BY DEF After, Listing
    <2>2. \A g \in Href \ {h} : book'[g] = book[g]
        BY DEF Change, TypeOK
    <2> QED
        BY <1>1, <2>1, <2>2 DEF True
<1>2. \A list \in listing' \cup {kept'} :
        \E old \in listing \cup {kept} : list = After(old, h)
    BY DEF Change
<1>3. \A old \in listing \cup {kept} : old \in Listing /\ True(old)
    BY DEF TypeOK, NothingMissed
<1>4. \A list \in listing' \cup {kept'} : list \in Listing /\ True(list)'
    BY <1>1, <1>2, <1>3 DEF True
<1>5. book' \in [Href -> Nat]
    BY DEF Change, TypeOK
<1> QED
    BY <1>4, <1>5 DEF TypeOK, NothingMissed

LEMMA ListTold ==
    ASSUME TypeOK, NothingMissed, List
    PROVE  TypeOK' /\ NothingMissed'
BY DEF TypeOK, NothingMissed, List, True, Listing

LEMMA ForgetTold ==
    ASSUME TypeOK, NothingMissed, Forget
    PROVE  TypeOK' /\ NothingMissed'
<1>1. kept'.entries = kept.entries /\ kept'.since = Href /\ kept' \in Listing
    BY DEF TypeOK, Forget, Listing
<1> QED
    BY <1>1 DEF TypeOK, NothingMissed, Forget, True

\* What the last stored listing, and this cycle's, say of an href holds, or
\* the next delta names it, whoever changes the cards in between
\* (port.rs: "The returned delta is complete").
THEOREM AtomicMissesNothing == Spec => [](TypeOK /\ NothingMissed)
<1>1. Init => TypeOK /\ NothingMissed
    BY DEF Init, TypeOK, NothingMissed, True, Listing
<1>2. TypeOK /\ NothingMissed /\ [Next]_vars => (TypeOK /\ NothingMissed)'
    <2> SUFFICES ASSUME TypeOK, NothingMissed, [Next]_vars
                 PROVE  TypeOK' /\ NothingMissed'
        OBVIOUS
    <2>1. CASE \E h \in Href : Change(h)
        BY <2>1, ChangeTold
    <2>2. CASE List
        BY <2>2, ListTold
    <2>3. CASE Store
        BY <2>3 DEF TypeOK, NothingMissed, Store, True, Listing
    <2>4. CASE Drop
        BY <2>4 DEF TypeOK, NothingMissed, Drop, True
    <2>5. CASE Forget
        BY <2>5, ForgetTold
    <2>6. CASE UNCHANGED vars
        BY <2>6 DEF TypeOK, NothingMissed, True, vars
    <2> QED
        BY <2>1, <2>2, <2>3, <2>4, <2>5, <2>6 DEF Next
<1> QED
    BY <1>1, <1>2, PTL DEF Spec
=============================================================================
