------------------------------ MODULE AtomicStore ------------------------------
(***************************************************************************)
(* What the sync service relies on of the state store                      *)
(* (core/src/repository.rs): a transaction happens at one instant or not   *)
(* at all, and a cycle plans with the tables as they were at one instant,  *)
(* whatever other processes do to the database.                            *)
(***************************************************************************)
EXTENDS Tables

CONSTANT Proc \* the processes that share the database

VARIABLES
    tables, \* the tables
    asked,  \* asked[p]: the transaction p is in, or None
    loaded  \* loaded[p]: the tables p's cycle plans with, or None

vars == <<tables, asked, loaded>>

\* load: what a cycle plans with.
Plannable(t) == [k \in {"contacts", "failures", "pending", "endpoints"} |-> t[k]]

Init == tables = Empty /\ asked = [p \in Proc |-> None] /\ loaded = [p \in Proc |-> None]

Ask(p) ==
    /\ asked[p] = None /\ asked'[p] # None
    /\ asked' = [asked EXCEPT ![p] = asked'[p]]
    /\ UNCHANGED <<tables, loaded>>

\* A cycle that ends forgets what it loaded.
Kept(p) == {loaded, [loaded EXCEPT ![p] = None]}

\* The whole transaction, on the tables as they are now.
Commit(p) ==
    /\ asked[p] # None
    /\ asked' = [asked EXCEPT ![p] = None]
    /\ Outcome(asked[p], tables).error = None
    /\ tables' = Outcome(asked[p], tables).tables
    /\ loaded' \in IF asked[p].tx = "load" THEN {[loaded EXCEPT ![p] = Plannable(tables)]} ELSE Kept(p)

\* The transaction failed, or its process died.
Abort(p) ==
    /\ asked' = [asked EXCEPT ![p] = None]
    /\ loaded' \in Kept(p)
    /\ UNCHANGED tables

Next == \E p \in Proc : Ask(p) \/ Commit(p) \/ Abort(p)

Spec == Init /\ [][Next]_vars
=============================================================================
