--------------------------- MODULE SyncCycle_proofs ---------------------------
(***************************************************************************)
(* Proofs about SyncCycle, for every set of contacts, hrefs and contents,  *)
(* every guard limit and every number of edits and faults.                 *)
(*                                                                         *)
(* The safety of a write rests on what the plan saw: IInv carries what an  *)
(* operation knows of the card it is about to replace from the multiget    *)
(* that read it, through the plan, to the conditional request.             *)
(*                                                                         *)
(* That a row is true of its cards (TrueInv) and that nothing stays out of *)
(* sync in silence (IdleInv) rest on what it leaves behind; that nothing   *)
(* is copied beside itself (AInv), on every card of a contact staying at   *)
(* the contact's own hrefs, and on its cards being held together.          *)
(***************************************************************************)
EXTENDS SyncCycle, FiniteSetTheorems, TLAPS

OpSteps == {"archive", "put", "readback", "delete", "save"}

\* The step the daemon is at fits the operation it runs.
Control ==
    /\ pc \in {"wait", "check", "list", "fetch", "plan"} => todo = {}
    /\ pc \in OpSteps => cur \in Op
    /\ pc \in {"archive", "put", "readback"} => cur \in PushOp
    /\ pc = "archive" => cur.kind = "Conflict"
    /\ pc = "delete" => cur \in DeleteOp
    /\ pc = "readback" => wrote \in Resource
    /\ pc = "save" /\ cur.kind \in PushKinds => wrote \in Resource

\* No two rows share an href of a side.
RowsApart ==
    \A u, v \in Synced, s \in Side :
        rows[u].res[s].href = rows[v].res[s].href => u = v

\* At its ETag, href h of side s has card c, if it still has a card.
Holds(s, h, etag, c) ==
    /\ etag <= ver[s][h]
    /\ (card[s][h] # None /\ ver[s][h] = etag) => card[s][h] = c

\* The sides fetched in this cycle, until the plan is made.
HasFetched(s) == pc = "plan" \/ (pc = "fetch" /\ on = "fastmail" /\ s = "icloud")

\* Entry e tells of href h of side s what the fetch list asked for.
Seen(s, h, e) ==
    /\ e.kind = "fetched" => e.card \in Card /\ Holds(s, h, e.etag, e.card)
    /\ e.kind = "unchanged" => h \in Listed(s) /\ h \notin FetchList(s)
    /\ (h \in Listed(s) /\ h \notin FetchList(s)) => e.kind \in {"held", "unchanged"}

SnapSeen == \A s \in Side, h \in Href : HasFetched(s) => Seen(s, h, snap[s][h])

\* What a write replaces, as the operation knows it.
Replaced(op) ==
    [uid |-> op.uid, body |-> IF op.kind = "Delete" THEN rows[op.uid].body ELSE op.old]

Grounded(op) ==
    /\ op.kind = "Conflict" => op.old \in Body
    /\ op.kind \in {"Create", "Resurrect"} => op.target.etag = 0
    /\ op.kind \in {"Update", "Conflict", "Delete"} =>
          Holds(op.to, op.target.href, op.target.etag, Replaced(op))
    /\ op.kind \in {"Update", "Delete"} => rows[op.uid] # None
    /\ op.kind = "Update" => rows[op.uid].body = op.old

\* The operations still to run, the current one among them.
Pending == todo \cup {op \in {cur} : pc \in OpSteps}

OpsGrounded == \A op \in Pending : Grounded(op)

\* One operation per contact, and none twice.
OpsApart ==
    /\ \A p, q \in Pending : p.uid = q.uid => p = q
    /\ pc \in OpSteps => cur \notin todo

\* A conflict's loser is in the history before its winner is pushed.
Archived ==
    (pc = "put" /\ cur.kind = "Conflict") =>
        \E r \in conflicts : r.uid = cur.uid /\ r.bodies[cur.to] = cur.old

IInv ==
    /\ TypeOK /\ Control /\ RowsApart /\ SnapSeen
    /\ OpsGrounded /\ OpsApart /\ Archived

(***************************************************************************)
(* Failures.                                                               *)
(***************************************************************************)

\* Recording failures of known cards keeps the failures well typed.
LEMMA RecordedType ==
    ASSUME StoreTypeOK, NEW cards \in SUBSET FailedCard
    PROVE  Recorded(cards) \in [Side -> [Href -> Failure \cup {None}]]
<1>1. ASSUME NEW s \in Side, NEW h \in Href, NEW c \in cards
      PROVE  [uid |-> c.uid, etag |-> c.etag, due |-> FALSE] \in Failure
  BY DEF FailedCard, Failure
<1>2. ASSUME NEW s \in Side, NEW h \in Href,
             \E c \in cards : c.side = s /\ c.href = h
      PROVE  LET c == CHOOSE c \in cards : c.side = s /\ c.href = h
             IN  [uid |-> c.uid, etag |-> c.etag, due |-> FALSE] \in Failure
  <2> DEFINE c == CHOOSE c \in cards : c.side = s /\ c.href = h
  <2>1. c \in cards
    BY <1>2
  <2> QED BY <2>1, <1>1
<1>3. \A s \in Side, h \in Href : failures[s][h] \in Failure \cup {None}
  BY DEF StoreTypeOK
<1> QED BY <1>2, <1>3 DEF Recorded

\* Clearing failures keeps them well typed.
LEMMA ClearedType ==
    ASSUME StoreTypeOK, NEW keys
    PROVE  Cleared(keys) \in [Side -> [Href -> Failure \cup {None}]]
<1>1. \A s \in Side, h \in Href : failures[s][h] \in Failure \cup {None}
  BY DEF StoreTypeOK
<1> QED BY <1>1 DEF Cleared

\* The cards a failed operation holds are cards one can record.
LEMMA FailedCardsType ==
    ASSUME NEW op \in Op, NEW w \in Resource \cup {None}
    PROVE  FailedCards(op, w) \subseteq FailedCard
<1>1. ASSUME NEW k \in HeldBy(op)
      PROVE  k[1] \in Side /\ k[2] \in Resource
  <2>1. CASE op.kind \in {"Create", "Resurrect", "Update"}
    <3>1. op \in PushOp
      BY <2>1 DEF Op, DeleteOp, RecordOp, ForgetOp
    <3> QED BY <1>1, <2>1, <3>1 DEF HeldBy, PushOp, Other, Side
  <2>2. CASE op.kind = "Conflict"
    <3>1. op \in PushOp
      BY <2>2 DEF Op, DeleteOp, RecordOp, ForgetOp
    <3> QED BY <1>1, <2>2, <3>1 DEF HeldBy, PushOp, Other, Side
  <2>3. CASE op.kind = "Delete"
    <3>1. op \in DeleteOp
      BY <2>3 DEF Op, PushOp, PushKinds, RecordOp, ForgetOp
    <3> QED BY <1>1, <2>3, <3>1 DEF HeldBy, DeleteOp
  <2>4. CASE op.kind \notin {"Create", "Resurrect", "Update", "Conflict", "Delete"}
    BY <1>1, <2>4 DEF HeldBy
  <2> QED BY <2>1, <2>2, <2>3, <2>4
<1>2. ASSUME NEW k \in WrittenBy(op, w)
      PROVE  k[1] \in Side /\ k[2] \in Resource
  <2>1. op.kind \in PushKinds /\ w # None
    BY <1>2 DEF WrittenBy
  <2>2. op \in PushOp
    BY <2>1 DEF Op, DeleteOp, RecordOp, ForgetOp, PushKinds
  <2> QED BY <1>2, <2>1, <2>2 DEF WrittenBy, PushOp
<1>3. op.uid \in Uid
  BY DEF Op, PushOp, DeleteOp, RecordOp, ForgetOp
<1> QED BY <1>1, <1>2, <1>3 DEF FailedCards, Failing, FailedCard, Resource

(***************************************************************************)
(* What every step leaves true of what was read before it.                 *)
(***************************************************************************)

\* An href only ever gets higher ETags, and at one ETag it has one content.
BooksStep ==
    \A s \in Side, h \in Href :
        /\ ver'[s][h] \in Nat /\ ver[s][h] <= ver'[s][h]
        /\ ver'[s][h] = ver[s][h] => card'[s][h] \in {None, card[s][h]}

\* Writing a card is such a step.
LEMMA WriteStep ==
    ASSUME BooksTypeOK, NEW s \in Side, NEW h \in Href, NEW c \in Card, Write(s, h, c)
    PROVE  BooksTypeOK' /\ BooksStep
<1>1. BooksTypeOK'
  BY DEF BooksTypeOK, Write, Touch
<1>2. BooksStep
  BY DEF BooksTypeOK, Write, BooksStep
<1> QED BY <1>1, <1>2

\* So is removing one.
LEMMA RemoveStep ==
    ASSUME BooksTypeOK, NEW s \in Side, NEW h \in Href, Remove(s, h)
    PROVE  BooksTypeOK' /\ BooksStep
<1>1. BooksTypeOK'
  BY DEF BooksTypeOK, Remove, Touch
<1>2. BooksStep
  BY DEF BooksTypeOK, Remove, BooksStep
<1> QED BY <1>1, <1>2

\* And leaving both address books alone.
LEMMA BooksStutter ==
    ASSUME BooksTypeOK, UNCHANGED <<card, ver>>
    PROVE  BooksStep
BY DEF BooksTypeOK, BooksStep

\* The snapshot stays true to the address books, whoever changes them.
LEMMA SnapSeenStep ==
    ASSUME TypeOK, SnapSeen, BooksStep, UNCHANGED <<listing, snap, rows>>,
           \A s \in Side : HasFetched(s)' => HasFetched(s)
    PROVE  SnapSeen'
<1> SUFFICES ASSUME NEW s \in Side, NEW h \in Href, HasFetched(s)'
             PROVE  Seen(s, h, snap[s][h])'
  BY DEF SnapSeen
<1>1. Seen(s, h, snap[s][h])
  BY DEF SnapSeen
<1>2. Listed(s)' = Listed(s) /\ FetchList(s)' = FetchList(s)
  BY DEF Listed, FetchList, Changed, Touched, RowAt, Synced
<1>3. snap[s][h].etag \in Nat /\ ver[s][h] \in Nat /\ ver'[s][h] \in Nat
  <2>1. snap[s][h] \in Entry /\ ver[s][h] \in Nat
    BY DEF TypeOK, ViewTypeOK, BooksTypeOK
  <2> QED BY <2>1 DEF Entry, BooksStep
<1> QED BY <1>1, <1>2, <1>3 DEF Seen, Holds, BooksStep

\* So does what an operation knows of the card it replaces, as long as no
\* other operation wrote its contact's row.
LEMMA GroundedStep ==
    ASSUME TypeOK, BooksStep, NEW op \in Op, Grounded(op), rows'[op.uid] = rows[op.uid]
    PROVE  Grounded(op)'
<1>1. Replaced(op)' = Replaced(op)
  BY DEF Replaced
<1>2. CASE op.kind \in {"Update", "Conflict", "Delete"}
  <2>1. op \in PushOp \cup DeleteOp
    BY <1>2 DEF Op, RecordOp, ForgetOp
  <2>2. op.to \in Side /\ op.target.href \in Href /\ op.target.etag \in Nat
    BY <2>1 DEF PushOp, DeleteOp, Resource
  <2>3. ver[op.to][op.target.href] \in Nat
    BY <2>2 DEF TypeOK, BooksTypeOK
  <2>4. Holds(op.to, op.target.href, op.target.etag, Replaced(op))'
    BY <1>1, <1>2, <2>2, <2>3 DEF Grounded, Holds, BooksStep
  <2> QED BY <2>4 DEF Grounded
<1>3. CASE op.kind \notin {"Update", "Conflict", "Delete"}
  BY <1>3 DEF Grounded
<1> QED BY <1>2, <1>3

\* The three together, for the steps that leave plans and rows alone.
LEMMA KnowledgeStep ==
    ASSUME IInv, BooksStep, UNCHANGED <<listing, snap, rows>>,
           \A s \in Side : HasFetched(s)' => HasFetched(s),
           Pending' \subseteq Pending
    PROVE  RowsApart' /\ SnapSeen' /\ OpsGrounded'
<1>1. RowsApart'
  BY DEF IInv, RowsApart, Synced
<1>2. SnapSeen'
  BY SnapSeenStep DEF IInv
<1>3. Pending \subseteq Op
  BY DEF IInv, TypeOK, Pending, Control
<1>4. OpsGrounded'
  BY <1>3, GroundedStep DEF IInv, OpsGrounded
<1> QED BY <1>1, <1>2, <1>4

(***************************************************************************)
(* The steps.                                                              *)
(***************************************************************************)

\* People edit and delete cards.
LEMMA UserKeepsIInv ==
    ASSUME IInv, UserEdit \/ UserDelete
    PROVE  IInv'
<1>1. UNCHANGED <<store, cycle>> /\ edits' = edits + 1 /\ faults' = faults
  BY DEF UserEdit, UserDelete, MayEdit
<1>2. BooksTypeOK' /\ BooksStep
  <2>1. BooksTypeOK
    BY DEF IInv, TypeOK
  <2>2. CASE UserEdit
    <3>1. PICK s \in Side, h \in Href, u \in Uid, b \in EditBodies :
              Write(s, h, [uid |-> u, body |-> b])
      BY <2>2 DEF UserEdit, UserWrites
    <3>2. [uid |-> u, body |-> b] \in Card
      BY BoundsAssumption DEF Card
    <3> QED BY <2>1, <3>1, <3>2, WriteStep
  <2>3. CASE UserDelete
    BY <2>1, <2>3, RemoveStep DEF UserDelete, UserDeletes
  <2> QED BY <2>2, <2>3
<1>3. TypeOK'
  BY <1>1, <1>2 DEF IInv, TypeOK, store, cycle, StoreTypeOK, ViewTypeOK
<1>4. RowsApart' /\ SnapSeen' /\ OpsGrounded'
  <2>1. Pending' = Pending /\ \A s \in Side : HasFetched(s)' = HasFetched(s)
    BY <1>1 DEF Pending, HasFetched, cycle
  <2> QED BY <1>1, <1>2, <2>1, KnowledgeStep DEF store, cycle
<1>5. Control' /\ OpsApart' /\ Archived'
  BY <1>1 DEF IInv, Control, OpsApart, Archived, Pending, store, cycle
<1> QED BY <1>3, <1>4, <1>5 DEF IInv

\* A backoff that passes.
LEMMA BackoffKeepsIInv ==
    ASSUME IInv, NEW s \in Side, NEW h \in Href, BackoffPasses(s, h)
    PROVE  IInv'
<1>1. UNCHANGED <<books, rows, conflicts, cycle, edits, faults>>
  BY DEF BackoffPasses
<1>2. failures' \in [Side -> [Href -> Failure \cup {None}]]
  <2>1. failures \in [Side -> [Href -> Failure \cup {None}]] /\ failures[s][h] # None
    BY DEF BackoffPasses, IInv, TypeOK, StoreTypeOK
  <2>2. [failures[s][h] EXCEPT !.due = TRUE] \in Failure
    <3>1. failures[s][h] \in Failure
      BY <2>1
    <3> QED BY <3>1 DEF Failure
  <2> QED BY <2>1, <2>2 DEF BackoffPasses
<1>3. TypeOK'
  BY <1>1, <1>2 DEF IInv, TypeOK, books, cycle, BooksTypeOK, StoreTypeOK, ViewTypeOK
<1>4. RowsApart' /\ SnapSeen' /\ OpsGrounded'
  <2>1. BooksStep
    BY <1>1, BooksStutter DEF IInv, TypeOK, books
  <2>2. Pending' = Pending /\ \A t \in Side : HasFetched(t)' = HasFetched(t)
    BY <1>1 DEF Pending, HasFetched, cycle
  <2> QED BY <1>1, <2>1, <2>2, KnowledgeStep DEF cycle
<1>5. Control' /\ OpsApart' /\ Archived'
  BY <1>1 DEF IInv, Control, OpsApart, Archived, Pending, cycle
<1> QED BY <1>3, <1>4, <1>5 DEF IInv

\* A cycle that ends keeps nothing it would have to know.
LEMMA EndCycleKeepsIInv ==
    ASSUME RowsApart', TypeOK', EndCycle
    PROVE  IInv'
<1>1. Control' /\ SnapSeen' /\ Archived'
  BY DEF EndCycle, Control, OpSteps, SnapSeen, HasFetched, Archived
<1>2. Pending' = {}
  BY DEF EndCycle, Pending, OpSteps
<1>3. OpsGrounded' /\ OpsApart'
  BY <1>2 DEF OpsGrounded, OpsApart, OpSteps, EndCycle
<1> QED BY <1>1, <1>3 DEF IInv

\* The empty views a cycle starts from.
LEMMA NoViewType == NoListing \in [Side -> [Href -> Nat]] /\ NoSnap \in [Side -> [Href -> Entry]]
BY DEF NoListing, NoSnap, NoEntry, Entry

\* The process stops in the middle of a cycle.
LEMMA CrashKeepsIInv ==
    ASSUME IInv, Crash
    PROVE  IInv'
<1>1. TypeOK'
  BY NoViewType DEF IInv, TypeOK, Crash, EndCycle, Fault, books, store,
        BooksTypeOK, StoreTypeOK, ViewTypeOK, Steps, Side
<1>2. RowsApart'
  BY DEF IInv, RowsApart, Synced, Crash, store
<1> QED BY <1>1, <1>2, EndCycleKeepsIInv DEF Crash

\* Somebody runs sync --reset.
LEMMA ResetKeepsIInv ==
    ASSUME IInv, Reset
    PROVE  IInv'
<1>1. TypeOK'
  BY DEF IInv, TypeOK, Reset, Fault, cycle, BooksTypeOK, StoreTypeOK, ViewTypeOK
<1>2. Synced' = {} /\ Pending' = {}
  BY DEF IInv, Control, Synced, Reset, Pending, OpSteps, cycle
<1>3. RowsApart' /\ OpsGrounded'
  BY <1>2 DEF RowsApart, OpsGrounded
<1>4. SnapSeen' /\ Control' /\ OpsApart' /\ Archived'
  BY <1>2 DEF IInv, SnapSeen, HasFetched, Control, OpsApart, OpSteps, Archived, Reset, cycle
<1> QED BY <1>1, <1>3, <1>4 DEF IInv

\* The steps up to the first fetch.
LEMMA ReadingKeepsIInv ==
    ASSUME IInv, Wake \/ CheckDelta \/ TokenInvalid \/ List
    PROVE  IInv'
<1>1. /\ UNCHANGED <<card, ver, sinceStored, store, snap, todo, cur, wrote, failed, edits>>
      /\ pc \in {"wait", "check", "list"} /\ pc' \in {"wait", "check", "list", "fetch"}
      /\ on' \in Side /\ (pc' = "fetch" => on' = "icloud")
  BY DEF Wake, CheckDelta, TokenInvalid, List, Goto, Side, books
<1>2. listing' \in [Side -> [Href -> Nat]] /\ sinceListed' \in [Side -> BOOLEAN] /\ faults' \in Nat
  <2>1. CASE List
    <3>1. \A s \in Side : Listing(s) \in [Href -> Nat]
      BY DEF Listing, IInv, TypeOK, BooksTypeOK
    <3> QED BY <2>1, <3>1 DEF List, IInv, TypeOK, BooksTypeOK, ViewTypeOK
  <2>2. CASE Wake \/ CheckDelta \/ TokenInvalid
    BY <2>2 DEF Wake, CheckDelta, TokenInvalid, Fault, books, IInv, TypeOK, BooksTypeOK, ViewTypeOK
  <2> QED BY <2>1, <2>2
<1>3. TypeOK'
  BY <1>1, <1>2 DEF IInv, TypeOK, BooksTypeOK, StoreTypeOK, ViewTypeOK, store, Steps
<1>4. Pending' = {}
  BY <1>1 DEF IInv, Control, Pending, OpSteps
<1>5. RowsApart' /\ SnapSeen' /\ OpsGrounded'
  BY <1>1, <1>4 DEF IInv, RowsApart, Synced, SnapSeen, HasFetched, OpsGrounded, store
<1>6. Control' /\ OpsApart' /\ Archived'
  BY <1>1, <1>4 DEF IInv, Control, OpsApart, OpSteps, Archived
<1> QED BY <1>3, <1>5, <1>6 DEF IInv

\* A side's snapshot tells what its fetch list asked for.
LEMMA SnapshotSeen ==
    ASSUME TypeOK, NEW s \in Side, NEW h \in Href
    PROVE  Snapshot(s)[h] \in Entry /\ Seen(s, h, Snapshot(s)[h])
<1>1. listing[s][h] \in Nat /\ ver[s][h] \in Nat /\ card[s][h] \in Card \cup {None}
  BY DEF TypeOK, ViewTypeOK, BooksTypeOK
<1>2. CASE h \notin Listed(s)
  <2>1. Snapshot(s)[h] = NoEntry
    BY <1>2 DEF Snapshot
  <2> QED BY <1>2, <2>1 DEF NoEntry, Entry, Seen
<1>3. CASE h \in Listed(s) /\ h \in HeldHrefs(s)
  <2>1. Snapshot(s)[h] = [kind |-> "held", etag |-> listing[s][h], card |-> None]
    BY <1>3 DEF Snapshot
  <2> QED BY <1>1, <2>1 DEF Entry, Seen
<1>4. CASE h \in Listed(s) /\ h \notin HeldHrefs(s) /\ h \in FetchList(s)
  <2>1. Snapshot(s)[h] = IF card[s][h] = None THEN NoEntry
                         ELSE [kind |-> "fetched", etag |-> ver[s][h], card |-> card[s][h]]
    BY <1>4 DEF Snapshot
  <2> QED BY <1>1, <1>4, <2>1 DEF NoEntry, Entry, Seen, Holds
<1>5. CASE h \in Listed(s) /\ h \notin HeldHrefs(s) /\ h \notin FetchList(s)
  <2>1. Snapshot(s)[h] = [kind |-> "unchanged", etag |-> listing[s][h], card |-> None]
    BY <1>5 DEF Snapshot
  <2> QED BY <1>1, <1>5, <2>1 DEF Entry, Seen
<1> QED BY <1>2, <1>3, <1>4, <1>5

\* One side's cards are fetched.
LEMMA FetchKeepsIInv ==
    ASSUME IInv, Fetch
    PROVE  IInv'
<1>1. /\ UNCHANGED <<books, store, listing, todo, cur, wrote, failed, edits, faults>>
      /\ pc = "fetch" /\ on \in Side
      /\ snap' = [snap EXCEPT ![on] = Snapshot(on)]
      /\ \/ on = "icloud" /\ pc' = "fetch" /\ on' = "fastmail"
         \/ on = "fastmail" /\ pc' = "plan" /\ on' = "icloud"
  BY DEF Fetch, Goto, IInv, TypeOK, Side
<1>2. TypeOK'
  <2>1. Snapshot(on) \in [Href -> Entry]
    <3>1. \A h \in Href : Snapshot(on)[h] \in Entry
      BY <1>1, SnapshotSeen DEF IInv
    <3> QED BY <3>1 DEF Snapshot
  <2>2. snap' \in [Side -> [Href -> Entry]]
    BY <1>1, <2>1 DEF IInv, TypeOK, ViewTypeOK
  <2> QED BY <1>1, <2>2 DEF IInv, TypeOK, BooksTypeOK, StoreTypeOK, ViewTypeOK, books, store,
                            Steps, Side
<1>3. SnapSeen'
  <2> SUFFICES ASSUME NEW s \in Side, NEW h \in Href, HasFetched(s)'
               PROVE  Seen(s, h, snap[s][h])'
    BY DEF SnapSeen
  <2>1. ASSUME NEW e, Seen(s, h, e)
        PROVE  Seen(s, h, e)'
    <3>1. Listed(s)' = Listed(s) /\ FetchList(s)' = FetchList(s)
      BY <1>1 DEF Listed, FetchList, Changed, Touched, RowAt, Synced, store
    <3> QED BY <1>1, <2>1, <3>1 DEF Seen, Holds, books
  <2>2. CASE s = on
    <3>1. snap'[s][h] = Snapshot(s)[h]
      BY <1>1, <2>2 DEF IInv, TypeOK, ViewTypeOK
    <3>2. Seen(s, h, Snapshot(s)[h])
      BY SnapshotSeen DEF IInv
    <3> QED BY <2>1, <3>1, <3>2
  <2>3. CASE s # on
    <3>1. snap'[s][h] = snap[s][h] /\ HasFetched(s)
      BY <1>1, <2>3 DEF IInv, TypeOK, ViewTypeOK, HasFetched, Side
    <3> QED BY <2>1, <3>1 DEF IInv, SnapSeen
  <2> QED BY <2>2, <2>3
<1>4. Pending' = {}
  BY <1>1 DEF IInv, Control, Pending, OpSteps
<1>5. RowsApart' /\ OpsGrounded' /\ Control' /\ OpsApart' /\ Archived'
  BY <1>1, <1>4 DEF IInv, RowsApart, Synced, OpsGrounded, Control, OpsApart, OpSteps, Archived, store
<1> QED BY <1>2, <1>3, <1>5 DEF IInv

\* An operation is taken from the plan.
LEMMA StartOpKeepsIInv ==
    ASSUME IInv, StartOp
    PROVE  IInv'
<1>1. PICK op \in todo : todo' = todo \ {op} /\ cur' = op /\ pc' = FirstStep(op)
  BY DEF StartOp, Goto
<1>2. /\ pc = "apply" /\ on' = "icloud" /\ op \in Op
      /\ UNCHANGED <<books, store, listing, snap, wrote, failed, edits, faults>>
  BY <1>1 DEF StartOp, Goto, IInv, TypeOK
<1>3. /\ op.kind = "Conflict" => pc' = "archive"
      /\ op.kind \in PushKinds \ {"Conflict"} => pc' = "put"
      /\ op.kind = "Delete" => pc' = "delete"
      /\ op.kind \notin PushKinds \cup {"Delete"} => pc' = "save"
  BY <1>1 DEF FirstStep, PushKinds
<1>4. TypeOK'
  <2>1. pc' \in Steps
    BY <1>3 DEF Steps
  <2> QED BY <1>1, <1>2, <2>1 DEF IInv, TypeOK, books, store, BooksTypeOK, StoreTypeOK, ViewTypeOK, Side
<1>5. Control'
  <2>1. op.kind \in PushKinds => op \in PushOp
    BY <1>2 DEF Op, DeleteOp, RecordOp, ForgetOp, PushKinds
  <2>2. op.kind = "Delete" => op \in DeleteOp
    BY <1>2 DEF Op, PushOp, RecordOp, ForgetOp, PushKinds
  <2> QED BY <1>1, <1>2, <1>3, <2>1, <2>2 DEF Control, OpSteps, PushKinds
<1>6. Pending' = todo /\ Pending = todo
  <2>1. pc' \in OpSteps /\ pc \notin OpSteps
    BY <1>2, <1>3 DEF OpSteps
  <2> QED BY <1>1, <2>1 DEF Pending
<1>7. RowsApart' /\ SnapSeen' /\ OpsGrounded'
  <2>1. BooksStep
    BY <1>2, BooksStutter DEF IInv, TypeOK, books
  <2>2. \A s \in Side : ~ HasFetched(s)'
    BY <1>3 DEF HasFetched
  <2> QED BY <1>2, <1>6, <2>1, <2>2, KnowledgeStep DEF store
<1>8. OpsApart' /\ Archived'
  BY <1>1, <1>3, <1>6 DEF IInv, OpsApart, Archived
<1> QED BY <1>4, <1>5, <1>7, <1>8 DEF IInv

\* A step within an operation, which leaves the plan and the rows alone.
LEMMA OpStep ==
    ASSUME IInv, BooksStep, pc \in OpSteps,
           UNCHANGED <<listing, snap, rows, todo, cur>>, pc' \in OpSteps
    PROVE  RowsApart' /\ SnapSeen' /\ OpsGrounded' /\ OpsApart'
<1>1. Pending' = Pending
  BY DEF Pending
<1>2. \A s \in Side : ~ HasFetched(s)'
  BY DEF HasFetched, OpSteps
<1> QED BY <1>1, <1>2, KnowledgeStep DEF IInv, OpsApart

\* Both versions of a conflict go to the history.
LEMMA ArchiveKeepsIInv ==
    ASSUME IInv, Archive
    PROVE  IInv'
<1> DEFINE row == [uid |-> cur.uid,
                   bodies |-> [s \in Side |-> IF s = cur.to THEN cur.old ELSE cur.body]]
<1>1. /\ pc = "archive" /\ pc' = "put" /\ on' = "icloud"
      /\ conflicts' = conflicts \cup {row}
      /\ UNCHANGED <<books, rows, failures, listing, snap, todo, cur, wrote, failed, edits, faults>>
  BY DEF Archive, RecordConflict, Goto
<1>2. cur \in PushOp /\ cur \in Op /\ cur.kind = "Conflict" /\ cur.old \in Body
  BY <1>1 DEF IInv, Control, OpSteps, Pending, OpsGrounded, Grounded
<1>3. row \in ConflictRow
  BY <1>2 DEF ConflictRow, PushOp
<1>4. TypeOK'
  BY <1>1, <1>3 DEF IInv, TypeOK, books, BooksTypeOK, StoreTypeOK, ViewTypeOK, Steps, Side
<1>5. Control'
  BY <1>1, <1>2 DEF Control, OpSteps
<1>6. RowsApart' /\ SnapSeen' /\ OpsGrounded' /\ OpsApart'
  <2>1. BooksStep
    BY <1>1, BooksStutter DEF IInv, TypeOK, books
  <2> QED BY <1>1, <2>1, OpStep DEF OpSteps
<1>7. Archived'
  <2>1. row.uid = cur.uid /\ row.bodies[cur.to] = cur.old
    BY <1>2 DEF PushOp
  <2> QED BY <1>1, <2>1 DEF Archived
<1> QED BY <1>4, <1>5, <1>6, <1>7 DEF IInv

\* The card an operation pushes is a card.
LEMMA PushedIsCard ==
    ASSUME cur \in PushOp
    PROVE  Pushed \in Card /\ cur.to \in Side /\ cur.target.href \in Href
BY DEF Pushed, Card, PushOp, Resource

\* A PUT is accepted.
LEMMA PutKeepsIInv ==
    ASSUME IInv, Put
    PROVE  IInv'
<1>1. PICK etag \in EtagReplies :
        /\ wrote' = [href |-> cur.target.href,
                     etag |-> IF etag THEN ver[cur.to][cur.target.href] + 1 ELSE 0]
        /\ pc' = (IF etag THEN "save" ELSE "readback") /\ on' = "icloud"
  BY DEF Put, Goto
<1>2. /\ pc = "put" /\ Write(cur.to, cur.target.href, Pushed)
      /\ UNCHANGED <<store, listing, snap, todo, cur, failed, edits, faults>>
  BY DEF Put
<1>3. cur \in PushOp /\ cur \in Op /\ pc' \in {"save", "readback"}
  BY <1>1, <1>2 DEF IInv, Control, OpSteps
<1>4. wrote' \in Resource
  <2>1. ver[cur.to][cur.target.href] \in Nat
    BY <1>3, PushedIsCard DEF IInv, TypeOK, BooksTypeOK
  <2> QED BY <1>1, <1>3, <2>1, PushedIsCard DEF Resource
<1>5. BooksTypeOK' /\ BooksStep
  BY <1>2, <1>3, PushedIsCard, WriteStep DEF IInv, TypeOK
<1>6. TypeOK'
  BY <1>1, <1>2, <1>3, <1>4, <1>5 DEF IInv, TypeOK, store, StoreTypeOK, ViewTypeOK, Steps, Side
<1>7. Control' /\ Archived'
  BY <1>2, <1>3, <1>4 DEF Control, OpSteps, Archived
<1>8. RowsApart' /\ SnapSeen' /\ OpsGrounded' /\ OpsApart'
  BY <1>2, <1>3, <1>5, OpStep DEF OpSteps, store
<1> QED BY <1>6, <1>7, <1>8 DEF IInv

\* A card that was written is read back for its ETag.
LEMMA ReadBackKeepsIInv ==
    ASSUME IInv, ReadBack
    PROVE  IInv'
<1>1. /\ pc = "readback" /\ pc' = "save" /\ on' = "icloud"
      /\ wrote' = [wrote EXCEPT !.etag = ver[cur.to][wrote.href]]
      /\ UNCHANGED <<books, store, listing, snap, todo, cur, failed, edits, faults>>
  BY DEF ReadBack, Goto
<1>2. cur \in PushOp /\ cur \in Op /\ wrote \in Resource
  BY <1>1 DEF IInv, Control, OpSteps
<1>3. wrote' \in Resource
  <2>1. ver[cur.to][wrote.href] \in Nat
    BY <1>2 DEF IInv, TypeOK, BooksTypeOK, PushOp, Resource
  <2> QED BY <1>1, <1>2, <2>1 DEF Resource
<1>4. TypeOK'
  BY <1>1, <1>3 DEF IInv, TypeOK, books, store, BooksTypeOK, StoreTypeOK, ViewTypeOK, Steps, Side
<1>5. Control' /\ Archived'
  BY <1>1, <1>2, <1>3 DEF Control, OpSteps, Archived
<1>6. RowsApart' /\ SnapSeen' /\ OpsGrounded' /\ OpsApart'
  <2>1. BooksStep
    BY <1>1, BooksStutter DEF IInv, TypeOK, books
  <2> QED BY <1>1, <2>1, OpStep DEF OpSteps, store
<1> QED BY <1>4, <1>5, <1>6 DEF IInv

\* A card is deleted, or is already gone.
LEMMA DeleteKeepsIInv ==
    ASSUME IInv, Delete
    PROVE  IInv'
<1>1. /\ pc = "delete" /\ pc' = "save" /\ on' = "icloud"
      /\ Remove(cur.to, cur.target.href) \/ UNCHANGED books
      /\ UNCHANGED <<store, listing, snap, todo, cur, wrote, failed, edits, faults>>
  BY DEF Delete, Goto
<1>2. cur \in DeleteOp /\ cur \in Op
  BY <1>1 DEF IInv, Control, OpSteps
<1>3. BooksTypeOK' /\ BooksStep
  <2>1. BooksTypeOK /\ cur.to \in Side /\ cur.target.href \in Href
    BY <1>2 DEF IInv, TypeOK, DeleteOp, Resource
  <2>2. CASE Remove(cur.to, cur.target.href)
    BY <2>1, <2>2, RemoveStep
  <2>3. CASE UNCHANGED books
    BY <2>1, <2>3, BooksStutter DEF books, BooksTypeOK
  <2> QED BY <1>1, <2>2, <2>3
<1>4. TypeOK'
  BY <1>1, <1>3 DEF IInv, TypeOK, store, StoreTypeOK, ViewTypeOK, Steps, Side
<1>5. Control' /\ Archived'
  BY <1>1, <1>2 DEF Control, OpSteps, Archived, DeleteOp, PushKinds
<1>6. RowsApart' /\ SnapSeen' /\ OpsGrounded' /\ OpsApart'
  BY <1>1, <1>3, OpStep DEF OpSteps, store
<1> QED BY <1>4, <1>5, <1>6 DEF IInv

\* What an operation that does not drop its row leaves in it.
LEMMA RowAfterType ==
    ASSUME cur \in Op, ~ Drops, cur.kind \in PushKinds => wrote \in Resource
    PROVE  RowAfter \in [Side -> Resource] /\ cur.body \in Body
<1>1. CASE cur.kind \in PushKinds
  <2>1. cur \in PushOp
    BY <1>1 DEF Op, DeleteOp, RecordOp, ForgetOp, PushKinds
  <2> QED BY <1>1, <2>1 DEF RowAfter, PushOp
<1>2. CASE cur.kind \notin PushKinds
  <2>1. cur \in RecordOp
    BY <1>2 DEF Op, PushOp, DeleteOp, ForgetOp, Drops
  <2> QED BY <1>2, <2>1 DEF RowAfter, RecordOp
<1> QED BY <1>1, <1>2

\* Between two operations only those not yet run are pending.
LEMMA EndOpKeepsRest ==
    ASSUME IInv, pc \in OpSteps, EndOp
    PROVE  /\ Pending' = todo /\ Pending' \subseteq Pending
           /\ cur \in Pending /\ cur \notin todo /\ todo \subseteq Op
           /\ \A s \in Side : ~ HasFetched(s)'
           /\ Control' /\ SnapSeen' /\ OpsApart' /\ Archived'
<1>1. pc' = "apply" /\ todo' = todo
  BY DEF EndOp, Goto
<1>2. Pending' = todo /\ Pending = todo \cup {cur}
  BY <1>1 DEF Pending, OpSteps
<1>3. Control' /\ Archived' /\ \A s \in Side : ~ HasFetched(s)'
  BY <1>1 DEF Control, OpSteps, Archived, HasFetched
<1>4. SnapSeen'
  BY <1>3 DEF SnapSeen
<1>5. OpsApart'
  BY <1>1, <1>2 DEF IInv, OpsApart, OpSteps
<1> QED BY <1>2, <1>3, <1>4, <1>5 DEF IInv, OpsApart, TypeOK

\* An operation's row is written or dropped.
LEMMA SaveKeepsIInv ==
    ASSUME IInv, Save
    PROVE  IInv'
<1>1. /\ pc = "save" /\ EndOp /\ UNCHANGED <<books, failed, edits, faults>>
      /\ \/ Drops /\ DropState(cur.uid, Resolves)
         \/ /\ ~ Drops /\ ~ HrefTaken(cur.uid, RowAfter)
            /\ WriteState(cur.uid, RowAfter, cur.body, Resolves)
  BY DEF Save
<1>2. cur \in Op /\ (cur.kind \in PushKinds => wrote \in Resource) /\ cur.uid \in Uid
  <2>1. cur \in Op /\ (cur.kind \in PushKinds => wrote \in Resource)
    BY <1>1 DEF IInv, Control, OpSteps
  <2> QED BY <2>1 DEF Op, PushOp, DeleteOp, RecordOp, ForgetOp
<1>3. EndOp /\ pc \in OpSteps
  BY <1>1 DEF OpSteps
<1>4. /\ StoreTypeOK' /\ RowsApart'
      /\ \A u \in Uid : u # cur.uid => rows'[u] = rows[u]
  <2>1. StoreTypeOK /\ failures' = Cleared(Resolves) /\ conflicts' = conflicts
    BY <1>1 DEF IInv, TypeOK, DropState, WriteState
  <2>2. CASE Drops /\ DropState(cur.uid, Resolves)
    <3>1. rows' = [rows EXCEPT ![cur.uid] = None] /\ rows \in [Uid -> Row \cup {None}]
      BY <2>1, <2>2 DEF DropState, StoreTypeOK
    <3>2. StoreTypeOK'
      BY <2>1, <3>1, ClearedType DEF StoreTypeOK
    <3>3. RowsApart'
      BY <1>2, <3>1 DEF IInv, RowsApart, Synced
    <3> QED BY <3>1, <3>2, <3>3
  <2>3. CASE ~ Drops /\ ~ HrefTaken(cur.uid, RowAfter)
                    /\ WriteState(cur.uid, RowAfter, cur.body, Resolves)
    <3> DEFINE row == [res |-> RowAfter, body |-> cur.body]
    <3>1. rows' = [rows EXCEPT ![cur.uid] = row] /\ rows \in [Uid -> Row \cup {None}]
      BY <2>1, <2>3 DEF WriteState, StoreTypeOK
    <3>2. row \in Row
      BY <1>2, <2>3, RowAfterType DEF Row
    <3>3. StoreTypeOK'
      BY <2>1, <3>1, <3>2, ClearedType DEF StoreTypeOK
    <3>4. RowsApart'
      <4> SUFFICES ASSUME NEW u \in Synced', NEW v \in Synced', NEW s \in Side,
                          rows'[u].res[s].href = rows'[v].res[s].href, u # v
                   PROVE  FALSE
        BY DEF RowsApart
      <4>1. /\ rows'[cur.uid].res = RowAfter
            /\ \A w \in Uid : w # cur.uid => rows'[w] = rows[w]
        BY <1>2, <3>1
      <4>2. \A w \in Synced' : w = cur.uid \/ w \in Synced
        BY <4>1 DEF Synced
      <4>3. \A w \in Synced : w # cur.uid => rows[w].res[s].href # RowAfter[s].href
        BY <2>3 DEF HrefTaken
      <4> QED BY <4>1, <4>2, <4>3 DEF IInv, RowsApart, Synced
    <3> QED BY <3>1, <3>3, <3>4
  <2> QED BY <1>1, <2>2, <2>3
<1>5. TypeOK'
  BY <1>1, <1>4 DEF IInv, TypeOK, EndOp, Goto, books, BooksTypeOK, ViewTypeOK, Steps, Side
<1>6. OpsGrounded'
  <2>1. BooksStep
    BY <1>1, BooksStutter DEF IInv, TypeOK, books
  <2>2. Pending' = todo /\ Pending' \subseteq Pending /\ cur \in Pending /\ cur \notin todo /\ todo \subseteq Op
    BY <1>3, EndOpKeepsRest
  <2>3. ASSUME NEW op \in todo
        PROVE  Grounded(op)'
    <3>1. op.uid # cur.uid /\ op.uid \in Uid /\ op \in Op
      BY <2>2 DEF IInv, OpsApart, Op, PushOp, DeleteOp, RecordOp, ForgetOp
    <3>2. rows'[op.uid] = rows[op.uid] /\ Grounded(op)
      BY <1>4, <2>2, <3>1 DEF IInv, OpsGrounded
    <3> QED BY <2>1, <3>1, <3>2, GroundedStep DEF IInv
  <2> QED BY <2>2, <2>3 DEF OpsGrounded
<1> QED BY <1>3, <1>4, <1>5, <1>6, EndOpKeepsRest DEF IInv

\* An operation fails, and its cards are held.
LEMMA FailOpKeepsIInv ==
    ASSUME IInv, pc \in OpSteps, FailOp, faults' \in Nat
    PROVE  IInv'
<1>1. /\ EndOp /\ UNCHANGED <<books, rows, conflicts, edits>>
      /\ failures' = Recorded(FailedCards(cur, wrote))
      /\ failed' = failed \cup {<<c.side, c.href>> : c \in FailedCards(cur, wrote)}
  BY DEF FailOp, RecordFailures
<1>2. FailedCards(cur, wrote) \in SUBSET FailedCard
  BY FailedCardsType DEF IInv, TypeOK, Control
<1>3. TypeOK'
  <2>1. failures' \in [Side -> [Href -> Failure \cup {None}]]
    BY <1>1, <1>2, RecordedType DEF IInv, TypeOK
  <2>2. failed' \subseteq Side \X Href
    BY <1>1, <1>2 DEF IInv, TypeOK, FailedCard
  <2> QED BY <1>1, <2>1, <2>2 DEF IInv, TypeOK, EndOp, Goto, books, BooksTypeOK, StoreTypeOK, ViewTypeOK,
                                  Steps, Side
<1>4. Control' /\ OpsApart' /\ Archived'
  BY <1>1, EndOpKeepsRest
<1>5. RowsApart' /\ SnapSeen' /\ OpsGrounded'
  <2>1. BooksStep
    BY <1>1, BooksStutter DEF IInv, TypeOK, books
  <2>2. Pending' \subseteq Pending /\ \A s \in Side : ~ HasFetched(s)'
    BY <1>1, EndOpKeepsRest
  <2>3. UNCHANGED <<listing, snap>>
    BY <1>1 DEF EndOp
  <2> QED BY <1>1, <2>1, <2>2, <2>3, KnowledgeStep
<1> QED BY <1>3, <1>4, <1>5 DEF IInv

\* The two ways for one card to fail.
LEMMA FailingKeepsIInv ==
    ASSUME IInv, Refused \/ Rejected
    PROVE  IInv'
<1>1. pc \in OpSteps /\ FailOp
  BY DEF Refused, Rejected, OpSteps
<1>2. faults' \in Nat
  BY DEF Refused, Rejected, Fault, IInv, TypeOK
<1> QED BY <1>1, <1>2, FailOpKeepsIInv

\* An error ends the cycle.
LEMMA AbortKeepsIInv ==
    ASSUME IInv, Unsent \/ AnswerLost
    PROVE  IInv'
<1>1. pc \in OpSteps /\ AbortCycle /\ faults' \in Nat
  BY DEF Unsent, AnswerLost, Fault, OpSteps, IInv, TypeOK
<1>2. cur \in Op /\ wrote \in Resource \cup {None}
  BY <1>1 DEF IInv, Control, TypeOK
<1>3. BooksTypeOK'
  <2>1. CASE Unsent
    BY <2>1 DEF Unsent, books, IInv, TypeOK, BooksTypeOK
  <2>2. CASE AnswerLost /\ pc = "put"
    <3>1. cur \in PushOp
      BY <2>2 DEF IInv, Control
    <3>2. Write(cur.to, cur.target.href, Pushed)
      BY <2>2 DEF AnswerLost
    <3> QED BY <3>1, <3>2, PushedIsCard, WriteStep DEF IInv, TypeOK
  <2>3. CASE AnswerLost /\ pc # "put"
    <3>1. pc = "delete" /\ Remove(cur.to, cur.target.href)
      BY <2>3 DEF AnswerLost
    <3>2. cur \in DeleteOp
      BY <3>1 DEF IInv, Control
    <3>3. cur.to \in Side /\ cur.target.href \in Href
      BY <3>2 DEF DeleteOp, Resource
    <3> QED BY <3>1, <3>3, RemoveStep DEF IInv, TypeOK
  <2> QED BY <2>1, <2>2, <2>3
<1>4. EndCycle /\ StoreTypeOK' /\ rows' = rows /\ edits' = edits
  <2>1. CASE HoldsOnAbort(cur)
    <3>1. RecordFailures(FailedCards(cur, wrote)) /\ EndCycle /\ edits' = edits
      BY <1>1, <2>1 DEF AbortCycle
    <3>2. FailedCards(cur, wrote) \in SUBSET FailedCard
      BY <1>2, FailedCardsType
    <3> QED BY <3>1, <3>2, RecordedType DEF RecordFailures, StoreTypeOK, IInv, TypeOK
  <2>2. CASE ~ HoldsOnAbort(cur)
    BY <1>1, <2>2 DEF AbortCycle, store, StoreTypeOK, IInv, TypeOK
  <2> QED BY <2>1, <2>2
<1>5. TypeOK'
  BY <1>1, <1>3, <1>4, NoViewType DEF IInv, TypeOK, EndCycle, ViewTypeOK, Steps, Side
<1>6. RowsApart'
  BY <1>4 DEF IInv, RowsApart, Synced
<1> QED BY <1>4, <1>5, <1>6, EndCycleKeepsIInv

\* A cycle whose operations all ran ends.
LEMMA FinishKeepsIInv ==
    ASSUME IInv, Finish
    PROVE  IInv'
<1>1. /\ EndCycle /\ failures' = Cleared(Outdated) /\ sinceStored' = sinceListed
      /\ UNCHANGED <<card, ver, sinceListed, rows, conflicts, edits, faults>>
  BY DEF Finish
<1>2. failures' \in [Side -> [Href -> Failure \cup {None}]]
  BY <1>1, ClearedType DEF IInv, TypeOK
<1>3. TypeOK'
  BY <1>1, <1>2, NoViewType DEF IInv, TypeOK, EndCycle, BooksTypeOK, StoreTypeOK, ViewTypeOK, Steps, Side
<1>4. RowsApart'
  BY <1>1 DEF IInv, RowsApart, Synced
<1> QED BY <1>1, <1>3, <1>4, EndCycleKeepsIInv

(***************************************************************************)
(* The plan.                                                               *)
(***************************************************************************)

\* Where a contact appears is an href the snapshot tells of.
LEMMA WhereAppears ==
    ASSUME TypeOK, NEW s \in Side, NEW u \in Uid, Appearances(s, u) # {}
    PROVE  /\ Where(s, u) \in Appearances(s, u) /\ Where(s, u) \in Href
           /\ snap[s][Where(s, u)] \in Entry
           /\ Located(s, u) \in Resource
<1>1. Where(s, u) \in Appearances(s, u) /\ Where(s, u) \in Href
  BY DEF Where, Appearances
<1>2. snap[s][Where(s, u)] \in Entry
  BY <1>1 DEF TypeOK, ViewTypeOK
<1> QED BY <1>1, <1>2 DEF Located, Resource, Entry

\* A card that was fetched there is the contact's, and is known.
LEMMA ReadThere ==
    ASSUME IInv, pc = "plan", NEW s \in Side, NEW u \in Uid,
           Appearances(s, u) # {}, snap[s][Where(s, u)].kind # "unchanged"
    PROVE  /\ BodyAt(s, u) \in Body
           /\ Holds(s, Located(s, u).href, Located(s, u).etag, [uid |-> u, body |-> BodyAt(s, u)])
<1> DEFINE h == Where(s, u)
           e == snap[s][h]
<1>1. h \in Href /\ Readable(s, h) /\ e.card.uid = u
  BY WhereAppears DEF IInv, Appearances
<1>2. Seen(s, h, e) /\ e.kind = "fetched"
  BY <1>1 DEF IInv, SnapSeen, HasFetched, Readable
<1>3. e.card \in Card /\ Holds(s, h, e.etag, e.card)
  BY <1>2 DEF Seen
<1>4. BodyAt(s, u) = e.card.body /\ e.card.body # Unreadable
  BY <1>1 DEF BodyAt, Readable
<1>5. BodyAt(s, u) \in Body /\ e.card = [uid |-> u, body |-> BodyAt(s, u)]
  BY <1>1, <1>3, <1>4 DEF Card
<1> QED BY <1>3, <1>5 DEF Located

\* What a status says.
LEMMA StatusSays ==
    ASSUME NEW s \in Side, NEW u \in Uid
    PROVE  /\ Status(s, u) \in {"deleted", "unchanged", "same", "changed"}
           /\ Status(s, u) = "deleted" <=> Appearances(s, u) = {}
           /\ Status(s, u) = "unchanged" <=>
                 (Appearances(s, u) # {} /\ snap[s][Where(s, u)].kind = "unchanged")
           /\ Status(s, u) = "same" => BodyAt(s, u) = rows[u].body
BY DEF Status

\* The two sides.
LEMMA Sides ==
    /\ Side = {"icloud", "fastmail"}
    /\ \A s \in Side : Other(s) \in Side /\ Other(s) # s /\ Other(Other(s)) = s
    /\ \A s, t \in Side : t = s \/ t = Other(s)
BY DEF Side, Other

\* A row's card that was not fetched was neither changed nor gone, so the
\* counterpart was not fetched either, and is where the row says.
LEMMA UnreadTogether ==
    ASSUME IInv, pc = "plan", NEW s \in Side, NEW u \in Planned, Status(s, u) = "unchanged"
    PROVE  Status(Other(s), u) = "unchanged"
<1> DEFINE o == Other(s)
           h == Where(s, u)
           g == rows[u].res[o].href
<1>1. u \in Uid /\ u \in Synced /\ u \notin HeldUids /\ o \in Side /\ Other(o) = s
  BY Sides DEF Planned, Synced
<1>2. Appearances(s, u) # {} /\ snap[s][h].kind = "unchanged"
  BY <1>1, StatusSays
<1>3. h \in Href /\ h \in Appearances(s, u)
  BY <1>1, <1>2, WhereAppears DEF IInv
<1>4. u \in RowAt(s, h)
  BY <1>2, <1>3 DEF Appearances, Readable
<1>5. rows[u] \in Row /\ g \in Href /\ rows[u].res[s].href = h
  <2>1. rows[u] \in Row
    BY <1>1 DEF IInv, TypeOK, StoreTypeOK, Synced
  <2> QED BY <1>1, <1>4, <2>1 DEF Row, Resource, RowAt
<1>6. h \in Listed(s) /\ h \notin FetchList(s)
  BY <1>2, <1>3 DEF IInv, SnapSeen, HasFetched, Seen
<1>7. ~ Touched(o, g) /\ ~ Touched(s, h)
  BY <1>4, <1>6 DEF FetchList, Touched
<1>8. \A v \in RowAt(o, g) : v = u
  BY <1>1 DEF IInv, RowsApart, RowAt
<1>9. g \in Listed(o) /\ g \notin FetchList(o)
  BY <1>1, <1>5, <1>7, <1>8 DEF FetchList, Touched
<1>10. u \in RowAt(o, g)
  BY <1>1 DEF RowAt
<1>11. snap[o][g].kind \in {"held", "unchanged"}
  BY <1>1, <1>5, <1>9 DEF IInv, SnapSeen, HasFetched, Seen
<1>12. u \notin Blocked(o) /\ u \notin Duplicated(o)
  BY <1>1 DEF HeldUids
<1>13. snap[o][g].kind = "unchanged"
  BY <1>1, <1>5, <1>10, <1>11, <1>12 DEF Blocked, Opaque
<1>14. g \in Appearances(o, u)
  BY <1>5, <1>10, <1>13 DEF Appearances
<1>15. Where(o, u) = g
  <2>1. Where(o, u) \in Appearances(o, u)
    BY <1>14 DEF Where
  <2> QED BY <1>1, <1>12, <1>14, <2>1 DEF Duplicated
<1> QED BY <1>1, <1>13, <1>14, <1>15, StatusSays

\* A contact read on both sides: its winner may overwrite the other card.
LEMMA OverwriteSound ==
    ASSUME IInv, pc = "plan", NEW s \in Side, NEW u \in Uid, NEW kind \in {"Conflict", "Update"},
           \A t \in Side : Appearances(t, u) # {} /\ snap[t][Where(t, u)].kind # "unchanged",
           kind = "Update" => rows[u] # None /\ BodyAt(Other(s), u) = rows[u].body
    PROVE  LET op == Overwrite(kind, u, s)
           IN  op \in Op /\ op.uid = u /\ Grounded(op)
<1> DEFINE op == Overwrite(kind, u, s)
           o == Other(s)
<1>1. o \in Side
  BY Sides
<1>2. /\ Located(s, u) \in Resource /\ Located(o, u) \in Resource
      /\ BodyAt(s, u) \in Body /\ BodyAt(o, u) \in Body
  BY <1>1, WhereAppears, ReadThere DEF IInv
<1>3. Holds(o, Located(o, u).href, Located(o, u).etag, [uid |-> u, body |-> BodyAt(o, u)])
  BY <1>1, ReadThere
<1>4. /\ op.kind = kind /\ op.uid = u /\ op.to = o /\ op.target = Located(o, u)
      /\ op.old = BodyAt(o, u)
  BY DEF Overwrite
<1>5. op \in PushOp
  BY <1>1, <1>2 DEF Overwrite, PushOp, PushKinds
<1>6. Replaced(op) = [uid |-> u, body |-> BodyAt(o, u)]
  BY <1>4 DEF Replaced
<1>7. Grounded(op)
  BY <1>2, <1>3, <1>4, <1>6 DEF Grounded
<1> QED BY <1>4, <1>5, <1>7 DEF Op

\* A card that was read may be copied to a side that has none.
LEMMA CopySound ==
    ASSUME IInv, pc = "plan", NEW s \in Side, NEW u \in Uid, NEW kind \in {"Create", "Resurrect"},
           Appearances(s, u) # {}, snap[s][Where(s, u)].kind # "unchanged"
    PROVE  LET op == Copy(kind, u, s)
           IN  op \in Op /\ op.uid = u /\ Grounded(op)
<1> DEFINE op == Copy(kind, u, s)
<1>1. Located(s, u) \in Resource /\ BodyAt(s, u) \in Body
  BY WhereAppears, ReadThere DEF IInv
<1>2. Minted(u) \in Resource /\ Minted(u).etag = 0
  BY MintAssumption DEF Minted, Resource
<1>3. op \in PushOp
  BY <1>1, <1>2, Sides DEF Copy, PushOp, PushKinds
<1>4. op.kind = kind /\ op.uid = u /\ op.target = Minted(u)
  BY DEF Copy
<1>5. Grounded(op)
  BY <1>2, <1>4 DEF Grounded
<1> QED BY <1>3, <1>4, <1>5 DEF Op

\* Both cards of a contact, where they are, may go into its row.
LEMMA RecordSound ==
    ASSUME IInv, NEW u \in Uid, NEW kind \in {"Adopt", "Refresh"}, NEW b \in Body,
           \A t \in Side : Appearances(t, u) # {}
    PROVE  LET op == RecordBoth(kind, u, b)
           IN  op \in Op /\ op.uid = u /\ Grounded(op)
<1> DEFINE op == RecordBoth(kind, u, b)
<1>1. \A t \in Side : Located(t, u) \in Resource
  BY WhereAppears DEF IInv
<1>2. op \in RecordOp /\ op.kind = kind /\ op.uid = u
  BY <1>1 DEF RecordBoth, RecordOp
<1>3. Grounded(op)
  BY <1>2 DEF Grounded
<1> QED BY <1>2, <1>3 DEF Op

\* A row's operation knows what it replaces.
LEMMA RowOpsSound ==
    ASSUME IInv, pc = "plan", NEW u \in Planned, NEW op \in RowOps(u)
    PROVE  op \in Op /\ op.uid = u /\ Grounded(op)
<1>1. u \in Uid /\ u \in Synced /\ rows[u] # None /\ rows[u].body \in Body
  BY DEF Planned, Synced, IInv, TypeOK, StoreTypeOK, Row
<1>2. \A s \in Side : Status(s, u) \in {"same", "changed"} =>
          Appearances(s, u) # {} /\ snap[s][Where(s, u)].kind # "unchanged"
  BY <1>1, StatusSays
<1>3. CASE op \in Forgets(u)
  BY <1>1, <1>3 DEF Forgets, ForgetOp, Op, Grounded
<1>4. CASE op \in Refreshes(u)
  <2>1. PICK b \in Body : op = RecordBoth("Refresh", u, b) /\ \A s \in Side : Appearances(s, u) # {}
    <3>1. CASE BothHave(u, "changed") /\ SameBodies(u)
      <4>1. BodyAt("icloud", u) \in Body
        BY <1>1, <1>2, <3>1, ReadThere, Sides DEF BothHave
      <4> QED BY <1>2, <1>4, <3>1, <4>1 DEF Refreshes, BothHave
    <3>2. CASE ~ (BothHave(u, "changed") /\ SameBodies(u))
      <4>1. op = RecordBoth("Refresh", u, rows[u].body)
            /\ \A s \in Side : Status(s, u) \in {"same", "unchanged"}
        BY <1>4, <3>2 DEF Refreshes
      <4> QED BY <1>1, <4>1, StatusSays
    <3> QED BY <3>1, <3>2
  <2> QED BY <1>1, <2>1, RecordSound
<1>5. CASE op \in SyncConflicts(u)
  <2>1. op = Overwrite("Conflict", u, Winner) /\ BothHave(u, "changed")
    BY <1>5 DEF SyncConflicts
  <2> QED BY <1>1, <1>2, <2>1, OverwriteSound, WinnerAssumption, Sides DEF BothHave
<1>6. CASE op \in Resurrections(u)
  <2>1. PICK s \in Side : op = Copy("Resurrect", u, s) /\ Status(s, u) = "changed"
    BY <1>6 DEF Resurrections
  <2> QED BY <1>1, <1>2, <2>1, CopySound
<1>7. CASE op \in Updates(u)
  <2>1. PICK s \in Side : /\ op = Overwrite("Update", u, s)
                          /\ Status(s, u) = "changed" /\ Status(Other(s), u) = "same"
    BY <1>7 DEF Updates
  <2>2. \A t \in Side : Status(t, u) \in {"same", "changed"}
    BY <2>1, Sides
  <2>3. BodyAt(Other(s), u) = rows[u].body
    BY <1>1, <2>1, StatusSays, Sides
  <2> QED BY <1>1, <1>2, <2>1, <2>2, <2>3, OverwriteSound
<1>8. CASE op \in Deletes(u)
  <2>1. PICK s \in Side : /\ op = [kind |-> "Delete", uid |-> u, to |-> s, target |-> Located(s, u)]
                          /\ Status(s, u) \in {"same", "unchanged"} /\ Status(Other(s), u) = "deleted"
    BY <1>8 DEF Deletes
  <2>2. Status(s, u) = "same"
    BY <2>1, UnreadTogether
  <2>3. Appearances(s, u) # {} /\ snap[s][Where(s, u)].kind # "unchanged" /\ BodyAt(s, u) = rows[u].body
    BY <1>1, <1>2, <2>2, StatusSays
  <2>4. Located(s, u) \in Resource
        /\ Holds(s, Located(s, u).href, Located(s, u).etag, [uid |-> u, body |-> rows[u].body])
    BY <1>1, <2>3, WhereAppears, ReadThere DEF IInv
  <2>5. op \in DeleteOp
    BY <1>1, <2>1, <2>4 DEF DeleteOp
  <2>6. Replaced(op) = [uid |-> u, body |-> rows[u].body]
    BY <2>1 DEF Replaced
  <2>7. Grounded(op)
    BY <1>1, <2>1, <2>4, <2>6 DEF Grounded
  <2> QED BY <2>1, <2>5, <2>7 DEF Op
<1> QED BY <1>3, <1>4, <1>5, <1>6, <1>7, <1>8 DEF RowOps

\* The one operation a row's two statuses call for, if any.
Decision(u) ==
    LET edited == CHOOSE s \in Side : Status(s, u) = "changed"
        kept == CHOOSE s \in Side : Status(s, u) # "deleted"
    IN  IF BothHave(u, "deleted") THEN [kind |-> "Forget", uid |-> u]
        ELSE IF BothHave(u, "changed")
        THEN IF SameBodies(u) THEN RecordBoth("Refresh", u, BodyAt("icloud", u))
             ELSE Overwrite("Conflict", u, Winner)
        ELSE IF \E s \in Side : Status(s, u) = "changed"
        THEN IF Status(Other(edited), u) = "deleted" THEN Copy("Resurrect", u, edited)
             ELSE Overwrite("Update", u, edited)
        ELSE IF \E s \in Side : Status(s, u) = "deleted"
        THEN [kind |-> "Delete", uid |-> u, to |-> kept, target |-> Located(kept, u)]
        ELSE RecordBoth("Refresh", u, rows[u].body)

\* The sets of the decision table do not overlap.
LEMMA RowOpsOne ==
    ASSUME NEW u, NEW op \in RowOps(u)
    PROVE  op = Decision(u)
<1>1. CASE op \in Forgets(u)
  BY <1>1 DEF Forgets, ForgetOp, Decision
<1>2. CASE op \in Refreshes(u)
  <2>1. CASE BothHave(u, "changed") /\ SameBodies(u)
    BY <1>2, <2>1, Sides DEF Refreshes, BothHave, Decision
  <2>2. CASE ~ (BothHave(u, "changed") /\ SameBodies(u))
    <3>1. /\ op = RecordBoth("Refresh", u, rows[u].body)
          /\ \A s \in Side : Status(s, u) \in {"same", "unchanged"}
      BY <1>2, <2>2 DEF Refreshes
    <3>2. /\ ~ BothHave(u, "deleted") /\ ~ BothHave(u, "changed")
          /\ ~ \E s \in Side : Status(s, u) \in {"changed", "deleted"}
      BY <3>1, Sides DEF BothHave
    <3> QED BY <3>1, <3>2 DEF Decision
  <2> QED BY <2>1, <2>2
<1>3. CASE op \in SyncConflicts(u)
  BY <1>3, Sides DEF SyncConflicts, BothHave, Decision
<1>4. CASE op \in Resurrections(u)
  <2>1. PICK s \in Side : /\ op = Copy("Resurrect", u, s)
                          /\ Status(s, u) = "changed" /\ Status(Other(s), u) = "deleted"
    BY <1>4 DEF Resurrections
  <2>2. s = CHOOSE t \in Side : Status(t, u) = "changed"
    BY <2>1, Sides
  <2>3. ~ BothHave(u, "deleted") /\ ~ BothHave(u, "changed")
    BY <2>1, Sides DEF BothHave
  <2> QED BY <2>1, <2>2, <2>3 DEF Decision
<1>5. CASE op \in Updates(u)
  <2>1. PICK s \in Side : /\ op = Overwrite("Update", u, s)
                          /\ Status(s, u) = "changed" /\ Status(Other(s), u) = "same"
    BY <1>5 DEF Updates
  <2>2. s = CHOOSE t \in Side : Status(t, u) = "changed"
    BY <2>1, Sides
  <2>3. ~ BothHave(u, "deleted") /\ ~ BothHave(u, "changed")
    BY <2>1, Sides DEF BothHave
  <2> QED BY <2>1, <2>2, <2>3 DEF Decision
<1>6. CASE op \in Deletes(u)
  <2>1. PICK s \in Side : /\ op = [kind |-> "Delete", uid |-> u, to |-> s, target |-> Located(s, u)]
                          /\ Status(s, u) \in {"same", "unchanged"} /\ Status(Other(s), u) = "deleted"
    BY <1>6 DEF Deletes
  <2>2. s = CHOOSE t \in Side : Status(t, u) # "deleted"
    BY <2>1, Sides
  <2>3. /\ ~ BothHave(u, "deleted") /\ ~ BothHave(u, "changed")
        /\ ~ \E t \in Side : Status(t, u) = "changed"
        /\ \E t \in Side : Status(t, u) = "deleted"
    BY <2>1, Sides DEF BothHave
  <2> QED BY <2>1, <2>2, <2>3 DEF Decision
<1> QED BY <1>1, <1>2, <1>3, <1>4, <1>5, <1>6 DEF RowOps

\* An unsynced contact is read wherever it appears.
LEMMA UnsyncedRead ==
    ASSUME TypeOK, NEW s \in Side, NEW u \in Unsynced(s)
    PROVE  u \in Uid /\ u \notin Synced /\ Appearances(s, u) # {} /\ snap[s][Where(s, u)].kind # "unchanged"
<1>1. u \in Uid /\ u \notin Synced /\ Appearances(s, u) # {}
  BY DEF Unsynced
<1>2. Where(s, u) \in Appearances(s, u)
  BY <1>1, WhereAppears
<1> QED BY <1>1, <1>2 DEF Appearances, RowAt, Readable

\* The one operation for an unsynced contact.
Pairing(u) ==
    IF u \in Unsynced("icloud") /\ u \in Unsynced("fastmail")
    THEN IF SameBodies(u) THEN RecordBoth("Adopt", u, BodyAt("icloud", u))
         ELSE Overwrite("Conflict", u, Winner)
    ELSE Copy("Create", u, IF u \in Unsynced("icloud") THEN "icloud" ELSE "fastmail")

\* Pairs and copies know what they replace, one operation for each contact.
LEMMA PairOpsSound ==
    ASSUME IInv, pc = "plan", NEW op \in PairOps
    PROVE  /\ op \in Op /\ Grounded(op)
           /\ op.uid \notin Synced /\ op = Pairing(op.uid)
<1>1. CASE op \in UNION {Adopts(u) : u \in Unsynced("icloud") \cap Unsynced("fastmail")}
  <2>1. PICK u \in Unsynced("icloud") \cap Unsynced("fastmail") : op \in Adopts(u)
    BY <1>1
  <2>2. /\ u \in Uid /\ u \notin Synced
        /\ \A s \in Side : Appearances(s, u) # {} /\ snap[s][Where(s, u)].kind # "unchanged"
    BY UnsyncedRead, Sides DEF IInv
  <2>3. BodyAt("icloud", u) \in Body
    BY <2>2, ReadThere, Sides
  <2>4. CASE SameBodies(u)
    <3>1. op = RecordBoth("Adopt", u, BodyAt("icloud", u))
      BY <2>1, <2>4 DEF Adopts
    <3> QED BY <2>2, <2>3, <2>4, <3>1, RecordSound DEF Pairing
  <2>5. CASE ~ SameBodies(u)
    <3>1. op = Overwrite("Conflict", u, Winner)
      BY <2>1, <2>5 DEF Adopts
    <3> QED BY <2>2, <2>5, <3>1, OverwriteSound, WinnerAssumption, Sides DEF Pairing
  <2> QED BY <2>4, <2>5
<1>2. CASE op \notin UNION {Adopts(u) : u \in Unsynced("icloud") \cap Unsynced("fastmail")}
  <2>1. PICK s \in Side, u \in Uid : /\ u \in Unsynced(s) /\ u \notin Unsynced(Other(s))
                                     /\ op = Copy("Create", u, s)
    BY <1>2 DEF PairOps, Unsynced
  <2>2. u \in Uid /\ u \notin Synced /\ Appearances(s, u) # {} /\ snap[s][Where(s, u)].kind # "unchanged"
    BY <2>1, UnsyncedRead DEF IInv
  <2>3. Pairing(u) = Copy("Create", u, s)
    BY <2>1, Sides DEF Pairing, Other
  <2> QED BY <2>1, <2>2, <2>3, CopySound
<1> QED BY <1>1, <1>2

\* So with every operation of the cycle.
LEMMA CycleOpsSound ==
    ASSUME IInv, pc = "plan"
    PROVE  /\ CycleOps \subseteq Op
           /\ \A op \in CycleOps : Grounded(op)
           /\ \A p, q \in CycleOps : p.uid = q.uid => p = q
<1>1. ASSUME NEW op \in CycleOps
      PROVE  /\ op \in Op /\ Grounded(op)
             /\ op.uid \in Synced => op = Decision(op.uid)
             /\ op.uid \notin Synced => op = Pairing(op.uid)
  <2>1. CASE op \in PairOps
    BY <2>1, PairOpsSound
  <2>2. CASE op \notin PairOps
    <3>1. PICK u \in Planned : op \in RowOps(u)
      BY <1>1, <2>2 DEF CycleOps
    <3>2. u \in Synced
      BY DEF Planned
    <3> QED BY <3>1, <3>2, RowOpsSound, RowOpsOne
  <2> QED BY <2>1, <2>2
<1> QED BY <1>1

\* The diagnostics of a plan are cards one can record.
LEMMA ReadFailuresType ==
    ASSUME IInv, pc = "plan"
    PROVE  ReadFailures \in SUBSET FailedCard
<1> SUFFICES ASSUME NEW s \in Side,
                    NEW c \in UnreadableOn(s) \cup UidChangedOn(s) \cup DuplicatesOn(s)
             PROVE  c \in FailedCard
  BY DEF ReadFailures
<1>1. \A h \in Href : snap[s][h] \in Entry /\ listing[s][h] \in Nat
  BY DEF IInv, TypeOK, ViewTypeOK
<1>2. CASE c \in UnreadableOn(s)
  BY <1>1, <1>2 DEF UnreadableOn, Failing, FailedCard, Entry
<1>3. CASE c \in UidChangedOn(s)
  <2>1. PICK h \in Href : UidChanged(s, h) /\ c = Failing(s, h, snap[s][h].card.uid, snap[s][h].etag)
    BY <1>3 DEF UidChangedOn
  <2>2. snap[s][h].card \in Card
    BY <2>1 DEF UidChanged, Readable, IInv, SnapSeen, HasFetched, Seen
  <2>3. snap[s][h].card.uid \in Uid
    BY <2>2 DEF Card
  <2> QED BY <1>1, <2>1, <2>3 DEF Failing, FailedCard, Entry
<1>4. CASE c \in DuplicatesOn(s)
  <2>1. PICK u \in Duplicated(s) : \E h \in Appearances(s, u) : c = Failing(s, h, u, listing[s][h])
    BY <1>4 DEF DuplicatesOn
  <2>2. u \in Uid /\ Appearances(s, u) \subseteq Href
    BY DEF Duplicated, Appearances
  <2> QED BY <1>1, <2>1, <2>2 DEF Failing, FailedCard
<1> QED BY <1>2, <1>3, <1>4

\* The cycle is planned, or blocked by the guard.
LEMMA PlanKeepsIInv ==
    ASSUME IInv, Plan
    PROVE  IInv'
<1>1. pc = "plan" /\ UNCHANGED <<books, edits, faults>>
  BY DEF Plan
<1>2. CASE MassDeletion(CycleOps)
  <2>1. EndCycle /\ UNCHANGED store
    BY <1>2 DEF Plan
  <2>2. TypeOK'
    BY <1>1, <2>1, NoViewType DEF IInv, TypeOK, EndCycle, books, store, BooksTypeOK, StoreTypeOK,
                                  ViewTypeOK, Steps, Side
  <2>3. RowsApart'
    BY <2>1 DEF IInv, RowsApart, Synced, store
  <2> QED BY <2>1, <2>2, <2>3, EndCycleKeepsIInv
<1>3. CASE ~ MassDeletion(CycleOps)
  <2>1. /\ pc' = "apply" /\ on' = "icloud" /\ todo' = CycleOps
        /\ failures' = Recorded(ReadFailures) /\ UNCHANGED <<rows, conflicts>>
        /\ failed' = {<<c.side, c.href>> : c \in ReadFailures}
        /\ UNCHANGED <<listing, snap, cur, wrote>>
    BY <1>3 DEF Plan, Goto, RecordFailures
  <2>2. ReadFailures \in SUBSET FailedCard
    BY <1>1, ReadFailuresType
  <2>3. CycleOps \subseteq Op
    BY <1>1, CycleOpsSound
  <2>4. TypeOK'
    <3>1. failures' \in [Side -> [Href -> Failure \cup {None}]]
      BY <2>1, <2>2, RecordedType DEF IInv, TypeOK
    <3>2. failed' \subseteq Side \X Href
      BY <2>1, <2>2 DEF FailedCard
    <3> QED BY <1>1, <2>1, <2>3, <3>1, <3>2 DEF IInv, TypeOK, books, BooksTypeOK, StoreTypeOK, ViewTypeOK,
                                                Steps, Side
  <2>5. Pending' = CycleOps
    BY <2>1 DEF Pending, OpSteps
  <2>6. OpsGrounded'
    <3>1. BooksStep
      BY <1>1, BooksStutter DEF IInv, TypeOK, books
    <3>2. \A op \in CycleOps : Grounded(op)
      BY <1>1, CycleOpsSound
    <3>3. ASSUME NEW op \in CycleOps PROVE Grounded(op)'
      <4>1. op \in Op /\ rows'[op.uid] = rows[op.uid] /\ Grounded(op)
        BY <2>1, <2>3, <3>2
      <4> QED BY <3>1, <4>1, GroundedStep DEF IInv
    <3> QED BY <2>5, <3>3 DEF OpsGrounded
  <2>7. OpsApart'
    <3>1. \A p, q \in CycleOps : p.uid = q.uid => p = q
      BY <1>1, CycleOpsSound
    <3> QED BY <2>1, <2>5, <3>1 DEF OpsApart, OpSteps
  <2>8. RowsApart' /\ SnapSeen' /\ Control' /\ Archived'
    BY <2>1 DEF IInv, RowsApart, Synced, SnapSeen, HasFetched, Control, OpSteps, Archived
  <2> QED BY <2>4, <2>6, <2>7, <2>8 DEF IInv
<1> QED BY <1>2, <1>3

(***************************************************************************)
(* The theorems.                                                           *)
(***************************************************************************)

\* It holds at the start.
LEMMA InitIInv == Init => IInv
<1> SUFFICES ASSUME Init PROVE IInv
  OBVIOUS
<1>1. PICK b \in Body :
        /\ card = [s \in Side |-> [h \in Href |->
              IF \E u \in Start : Home[u][s] = h
              THEN [uid |-> CHOOSE u \in Start : Home[u][s] = h, body |-> b]
              ELSE None]]
        /\ rows = [u \in Uid |->
              IF u \in Start
              THEN [res |-> [s \in Side |-> [href |-> Home[u][s], etag |-> 1]], body |-> b]
              ELSE None]
  BY DEF Init
<1>2. card \in [Side -> [Href -> Card \cup {None}]]
  <2>1. ASSUME NEW s \in Side, NEW h \in Href, \E u \in Start : Home[u][s] = h
        PROVE  [uid |-> CHOOSE u \in Start : Home[u][s] = h, body |-> b] \in Card
    <3>1. (CHOOSE u \in Start : Home[u][s] = h) \in Uid
      BY <2>1, BoundsAssumption
    <3> QED BY <3>1 DEF Card
  <2> QED BY <1>1, <2>1
<1>3. rows \in [Uid -> Row \cup {None}]
  <2>1. ASSUME NEW u \in Start
        PROVE  [res |-> [s \in Side |-> [href |-> Home[u][s], etag |-> 1]], body |-> b] \in Row
    BY BoundsAssumption DEF Row, Resource
  <2> QED BY <1>1, <2>1
<1>4. TypeOK
  BY <1>2, <1>3, NoViewType DEF Init, TypeOK, BooksTypeOK, StoreTypeOK, ViewTypeOK, Steps, Side
<1>5. RowsApart
  <2> SUFFICES ASSUME NEW u \in Synced, NEW v \in Synced, NEW s \in Side,
                      rows[u].res[s].href = rows[v].res[s].href, u \in Start \/ u \notin Start
               PROVE  u = v
    BY DEF RowsApart
  <2>1. CASE u \in Start /\ v \in Start
    <3>1. rows[u].res[s].href = Home[u][s] /\ rows[v].res[s].href = Home[v][s]
      BY <1>1, <2>1 DEF Synced
    <3> QED BY <2>1, <3>1, BoundsAssumption
  <2>2. ASSUME NEW w \in Synced PROVE w \in Start
    BY <1>1 DEF Synced
  <2> QED BY <2>1, <2>2
<1>6. Pending = {}
  BY DEF Init, Pending, OpSteps
<1>7. Control /\ SnapSeen /\ OpsGrounded /\ OpsApart /\ Archived
  BY <1>6 DEF Init, Control, OpSteps, SnapSeen, HasFetched, OpsGrounded, OpsApart, Archived
<1> QED BY <1>4, <1>5, <1>7 DEF IInv

\* Every step keeps it.
LEMMA NextIInv == IInv /\ [Next]_vars => IInv'
<1> SUFFICES ASSUME IInv, [Next]_vars PROVE IInv'
  OBVIOUS
<1>1. CASE UserEdit \/ UserDelete
  BY <1>1, UserKeepsIInv
<1>2. CASE \E s \in Side, h \in Href : BackoffPasses(s, h)
  BY <1>2, BackoffKeepsIInv
<1>3. CASE Wake \/ CheckDelta \/ TokenInvalid \/ List
  BY <1>3, ReadingKeepsIInv
<1>4. CASE Fetch
  BY <1>4, FetchKeepsIInv
<1>5. CASE Plan
  BY <1>5, PlanKeepsIInv
<1>6. CASE StartOp
  BY <1>6, StartOpKeepsIInv
<1>7. CASE Archive
  BY <1>7, ArchiveKeepsIInv
<1>8. CASE Put
  BY <1>8, PutKeepsIInv
<1>9. CASE ReadBack
  BY <1>9, ReadBackKeepsIInv
<1>10. CASE Delete
  BY <1>10, DeleteKeepsIInv
<1>11. CASE Save
  BY <1>11, SaveKeepsIInv
<1>12. CASE Refused \/ Rejected
  BY <1>12, FailingKeepsIInv
<1>13. CASE Unsent \/ AnswerLost
  BY <1>13, AbortKeepsIInv
<1>14. CASE Finish
  BY <1>14, FinishKeepsIInv
<1>15. CASE Crash
  BY <1>15, CrashKeepsIInv
<1>16. CASE Reset
  BY <1>16, ResetKeepsIInv
<1>17. CASE UNCHANGED vars
  <2>1. /\ UNCHANGED <<card, ver, sinceStored, sinceListed, rows, conflicts, failures>>
        /\ UNCHANGED <<pc, on, listing, snap, todo, cur, wrote, failed, edits, faults>>
    BY <1>17 DEF vars, books, store, cycle
  <2>2. TypeOK' /\ RowsApart' /\ Control' /\ OpsApart' /\ Archived'
    BY <2>1 DEF IInv, TypeOK, BooksTypeOK, StoreTypeOK, ViewTypeOK, RowsApart, Synced, Control,
                OpsApart, Pending, Archived
  <2>3. SnapSeen' /\ OpsGrounded'
    <3>1. BooksStep
      BY <2>1, BooksStutter DEF IInv, TypeOK
    <3>2. Pending' = Pending /\ \A s \in Side : HasFetched(s)' = HasFetched(s)
      BY <2>1 DEF Pending, HasFetched
    <3> QED BY <2>1, <3>1, <3>2, KnowledgeStep
  <2> QED BY <2>2, <2>3 DEF IInv
<1> QED
  BY <1>1, <1>2, <1>3, <1>4, <1>5, <1>6, <1>7, <1>8, <1>9, <1>10, <1>11, <1>12, <1>13,
     <1>14, <1>15, <1>16, <1>17 DEF Next, Daemon, Faulty

\* It is an invariant of the sync cycle.
THEOREM Invariance == Spec => []IInv
BY InitIInv, NextIInv, PTL DEF Spec

\* Every variable keeps its type (the contact state, the plan and the
\* cycle's own state).
THEOREM TypeCorrect == Spec => []TypeOK
<1>1. IInv => TypeOK
  BY DEF IInv
<1> QED BY <1>1, Invariance, PTL

\* No cycle plans with one card of a contact read and the other not
\* (snapshot::fetch_lists).
THEOREM CounterpartRead == Spec => []CounterpartWasRead
<1>1. IInv => CounterpartWasRead
  BY UnreadTogether DEF CounterpartWasRead
<1> QED BY <1>1, Invariance, PTL

\* A conditional write that replaces or removes a card meets the card the
\* operation was planned on.
LEMMA MatchedCard ==
    ASSUME IInv, pc \in {"put", "delete"}, Matches(cur.to, cur.target),
           card[cur.to][cur.target.href] # None
    PROVE  /\ cur.kind \in {"Update", "Conflict", "Delete"} /\ Grounded(cur) /\ cur \in Op
           /\ card[cur.to][cur.target.href] = Replaced(cur)
<1>1. cur \in Op /\ Grounded(cur) /\ cur \in PushOp \cup DeleteOp
  <2>1. pc \in OpSteps
    BY DEF OpSteps
  <2> QED BY <2>1 DEF IInv, Control, OpsGrounded, Pending
<1>2. cur.target.etag # 0 /\ ver[cur.to][cur.target.href] = cur.target.etag
  BY DEF Matches
<1>3. cur.kind \in {"Update", "Conflict", "Delete"}
  BY <1>1, <1>2 DEF Grounded, PushOp, PushKinds, DeleteOp
<1> QED BY <1>1, <1>2, <1>3 DEF Grounded, Holds

\* The daemon changes a card in two ways only.
LEMMA DaemonWrites ==
    ASSUME IInv, Next, DaemonStep, NEW s \in Side, NEW h \in Href, card'[s][h] # card[s][h]
    PROVE  /\ s = cur.to /\ h = cur.target.href /\ UNCHANGED rows
           /\ \/ pc = "put" /\ Accepts /\ card'[s][h] = Pushed /\ cur \in PushOp
              \/ pc = "delete" /\ Matches(cur.to, cur.target) /\ cur \in DeleteOp
<1>1. edits' # edits + 1
  BY DEF DaemonStep, IInv, TypeOK
<1>2. ~ UserEdit /\ ~ UserDelete
  BY <1>1 DEF UserEdit, UserDelete, MayEdit
<1>3. card' # card
  OBVIOUS
<1>4. ~ \E t \in Side, g \in Href : BackoffPasses(t, g)
  BY <1>3 DEF BackoffPasses, books
<1>5. ~ (Wake \/ CheckDelta \/ List \/ Fetch \/ Plan \/ StartOp \/ Archive \/ ReadBack \/ Save \/ Finish)
  BY <1>3 DEF Wake, CheckDelta, List, Fetch, Plan, StartOp, Archive, ReadBack, Save, Finish, books
<1>6. ~ (Refused \/ Rejected \/ Crash \/ Reset \/ TokenInvalid \/ Unsent)
  BY <1>3 DEF Refused, Rejected, FailOp, Crash, Reset, TokenInvalid, Unsent, books
<1>7. Put \/ Delete \/ AnswerLost
  BY <1>2, <1>4, <1>5, <1>6 DEF Next, Daemon, Faulty
<1>8. \/ pc = "put" /\ Accepts /\ Write(cur.to, cur.target.href, Pushed)
      \/ pc = "delete" /\ Matches(cur.to, cur.target) /\ Remove(cur.to, cur.target.href)
  BY <1>3, <1>7 DEF Put, Delete, AnswerLost, books
<1>9. UNCHANGED rows
  BY <1>7 DEF Put, Delete, AnswerLost, AbortCycle, RecordFailures, store
<1>10. CASE pc = "put"
  <2>1. cur \in PushOp
    BY <1>10 DEF IInv, Control
  <2>2. cur.to \in Side /\ cur.target.href \in Href
    BY <2>1, PushedIsCard
  <2>3. card' = [card EXCEPT ![cur.to][cur.target.href] = Pushed]
    BY <1>8, <1>10 DEF Write
  <2> QED BY <1>8, <1>9, <1>10, <2>1, <2>2, <2>3 DEF IInv, TypeOK, BooksTypeOK
<1>11. CASE pc = "delete"
  <2>1. cur \in DeleteOp
    BY <1>11 DEF IInv, Control
  <2>2. cur.to \in Side /\ cur.target.href \in Href
    BY <2>1 DEF DeleteOp, Resource
  <2>3. card' = [card EXCEPT ![cur.to][cur.target.href] = None]
    BY <1>8, <1>11 DEF Remove
  <2> QED BY <1>8, <1>9, <1>11, <2>1, <2>2, <2>3 DEF IInv, TypeOK, BooksTypeOK
<1> QED BY <1>8, <1>10, <1>11

\* No edit is lost: whatever people do, and whatever fails, the daemon
\* overwrites or deletes only a card whose content was synced, or is in the
\* conflict history (executor::execute).
THEOREM EditsKept == Spec => NoEditLost
<1>1. ASSUME IInv, [Next]_vars
      PROVE  [DaemonStep =>
                 \A s \in Side, h \in Href :
                    (card[s][h] # None /\ card'[s][h] # card[s][h]) => Accounted(card[s][h])]_vars
  <2> SUFFICES ASSUME Next, DaemonStep, NEW s \in Side, NEW h \in Href,
                      card[s][h] # None, card'[s][h] # card[s][h]
               PROVE  Accounted(card[s][h])
    BY <1>1
  <2>1. /\ s = cur.to /\ h = cur.target.href
        /\ pc \in {"put", "delete"} /\ Matches(cur.to, cur.target)
        /\ pc = "delete" => cur.kind = "Delete"
        /\ pc = "put" => cur.kind \in PushKinds
    BY <1>1, DaemonWrites DEF Accepts, DeleteOp, PushOp
  <2>2. /\ cur.kind \in {"Update", "Conflict", "Delete"} /\ Grounded(cur)
        /\ card[s][h] = Replaced(cur)
    BY <1>1, <2>1, MatchedCard
  <2>3. CASE cur.kind \in {"Update", "Delete"}
    BY <2>2, <2>3 DEF Accounted, Grounded, Replaced
  <2>4. CASE cur.kind = "Conflict"
    <3>1. PICK r \in conflicts : r.uid = cur.uid /\ r.bodies[cur.to] = cur.old
      BY <1>1, <2>1, <2>4 DEF IInv, Archived
    <3> QED BY <2>1, <2>2, <2>4, <3>1 DEF Accounted, Replaced
  <2> QED BY <2>2, <2>3, <2>4
<1> QED BY <1>1, Invariance, PTL DEF Spec, NoEditLost

\* An edit wins over a deletion: the daemon removes only cards that say
\* what was last synced (planner::one_sided, and Delete's If-Match).
THEOREM EditsWin == Spec => EditBeatsDelete
<1>1. ASSUME IInv, [Next]_vars
      PROVE  [DaemonStep =>
                 \A s \in Side, h \in Href :
                    (card[s][h] # None /\ card'[s][h] = None) =>
                        /\ rows[card[s][h].uid] # None
                        /\ rows[card[s][h].uid].body = card[s][h].body]_vars
  <2> SUFFICES ASSUME Next, DaemonStep, NEW s \in Side, NEW h \in Href,
                      card[s][h] # None, card'[s][h] = None
               PROVE  /\ rows[card[s][h].uid] # None
                      /\ rows[card[s][h].uid].body = card[s][h].body
    BY <1>1
  <2>1. /\ s = cur.to /\ h = cur.target.href
        /\ pc = "delete" /\ Matches(cur.to, cur.target) /\ cur.kind = "Delete"
    BY <1>1, DaemonWrites, PushedIsCard, NoneAssumption DEF DeleteOp
  <2>2. Grounded(cur) /\ card[s][h] = Replaced(cur)
    BY <1>1, <2>1, MatchedCard
  <2> QED BY <2>1, <2>2 DEF Grounded, Replaced
<1> QED BY <1>1, Invariance, PTL DEF Spec, EditBeatsDelete

(***************************************************************************)
(* What the rows say of the cards they were written for.                   *)
(***************************************************************************)

\* At the ETags a row stores, its cards have the content it calls synced.
RowHolds(u) ==
    \A s \in Side :
        Holds(s, rows[u].res[s].href, rows[u].res[s].etag, [uid |-> u, body |-> rows[u].body])

\* So with the cards an operation will put in a row without writing them.
OpHolds(op) ==
    /\ op.kind \in PushKinds =>
          Holds(Other(op.to), op.source.href, op.source.etag, [uid |-> op.uid, body |-> op.body])
    /\ op.kind \in {"Adopt", "Refresh"} => \A s \in Side :
          Holds(s, op.res[s].href, op.res[s].etag, [uid |-> op.uid, body |-> op.body])

\* And with the card it wrote.  A card that has to be read back is still the
\* one that was written: nobody else edits then.
WroteHolds ==
    /\ (pc = "save" /\ cur.kind \in PushKinds) => Holds(cur.to, wrote.href, wrote.etag, Pushed)
    /\ pc = "readback" => ~ EditsInCycle /\ card[cur.to][wrote.href] = Pushed

RowsHold == \A u \in Synced : RowHolds(u)

OpsHold == \A op \in Pending : OpHolds(op)

TrueInv == RowsHold /\ OpsHold /\ WroteHolds

\* Whatever happens to the address books, an href only gets higher ETags.
LEMMA NextBooks ==
    ASSUME IInv, [Next]_vars
    PROVE  BooksStep
<1>1. BooksTypeOK
  BY DEF IInv, TypeOK
<1>2. CASE UserEdit
  <2>1. PICK s \in Side, h \in Href, u \in Uid, b \in EditBodies :
            Write(s, h, [uid |-> u, body |-> b])
    BY <1>2 DEF UserEdit, UserWrites
  <2>2. [uid |-> u, body |-> b] \in Card
    BY BoundsAssumption DEF Card
  <2> QED BY <1>1, <2>1, <2>2, WriteStep
<1>3. CASE UserDelete
  BY <1>1, <1>3, RemoveStep DEF UserDelete, UserDeletes
<1>4. CASE Put \/ (AnswerLost /\ pc = "put")
  <2>1. pc = "put" /\ Write(cur.to, cur.target.href, Pushed)
    BY <1>4 DEF Put, AnswerLost
  <2>2. cur \in PushOp
    BY <2>1 DEF IInv, Control
  <2> QED BY <1>1, <2>1, <2>2, PushedIsCard, WriteStep
<1>5. CASE (Delete /\ ~ UNCHANGED books) \/ (AnswerLost /\ pc # "put")
  <2>1. pc = "delete" /\ Remove(cur.to, cur.target.href)
    BY <1>5 DEF Delete, AnswerLost
  <2>2. cur \in DeleteOp
    BY <2>1 DEF IInv, Control
  <2>3. cur.to \in Side /\ cur.target.href \in Href
    BY <2>2 DEF DeleteOp, Resource
  <2> QED BY <1>1, <2>1, <2>3, RemoveStep
<1>6. CASE UNCHANGED <<card, ver>>
  BY <1>1, <1>6, BooksStutter
<1>7. CASE (\E s \in Side, h \in Href : BackoffPasses(s, h)) \/ UNCHANGED vars
  BY <1>6, <1>7 DEF BackoffPasses, vars, books
<1>8. CASE \/ Wake \/ CheckDelta \/ List \/ Fetch \/ Plan \/ StartOp \/ Archive \/ ReadBack
           \/ (Delete /\ UNCHANGED books) \/ Save \/ Finish
  BY <1>6, <1>8 DEF Wake, CheckDelta, List, Fetch, Plan, StartOp, Archive, ReadBack, Save, Finish, books
<1>9. CASE Refused \/ Rejected \/ Crash \/ Reset \/ TokenInvalid \/ Unsent
  BY <1>6, <1>9 DEF Refused, Rejected, FailOp, Crash, Reset, TokenInvalid, Unsent, books
<1> QED
  BY <1>2, <1>3, <1>4, <1>5, <1>7, <1>8, <1>9 DEF Next, Daemon, Faulty

\* What a row says outlasts every step that does not write it.
LEMMA RowHoldsStep ==
    ASSUME TypeOK, BooksStep, NEW u \in Synced, RowHolds(u), rows'[u] = rows[u]
    PROVE  RowHolds(u)'
<1> SUFFICES ASSUME NEW s \in Side
             PROVE  Holds(s, rows[u].res[s].href, rows[u].res[s].etag,
                          [uid |-> u, body |-> rows[u].body])'
  BY DEF RowHolds
<1>1. rows[u].res[s].href \in Href /\ rows[u].res[s].etag \in Nat
  BY DEF TypeOK, StoreTypeOK, Synced, Row, Resource
<1>2. ver[s][rows[u].res[s].href] \in Nat
  BY <1>1 DEF TypeOK, BooksTypeOK
<1>3. Holds(s, rows[u].res[s].href, rows[u].res[s].etag, [uid |-> u, body |-> rows[u].body])
  BY DEF RowHolds
<1> QED BY <1>1, <1>2, <1>3 DEF Holds, BooksStep

\* So does what an operation will record.
LEMMA OpHoldsStep ==
    ASSUME TypeOK, BooksStep, NEW op \in Op, OpHolds(op)
    PROVE  OpHolds(op)'
<1>1. CASE op.kind \in PushKinds
  <2>1. op \in PushOp
    BY <1>1 DEF Op, DeleteOp, RecordOp, ForgetOp, PushKinds
  <2>2. Other(op.to) \in Side /\ op.source.href \in Href /\ op.source.etag \in Nat
    BY <2>1, Sides DEF PushOp, Resource
  <2>3. ver[Other(op.to)][op.source.href] \in Nat
    BY <2>2 DEF TypeOK, BooksTypeOK
  <2>4. Holds(Other(op.to), op.source.href, op.source.etag, [uid |-> op.uid, body |-> op.body])
    BY <1>1 DEF OpHolds
  <2>5. Holds(Other(op.to), op.source.href, op.source.etag, [uid |-> op.uid, body |-> op.body])'
    BY <2>2, <2>3, <2>4 DEF Holds, BooksStep
  <2> QED BY <1>1, <2>5 DEF OpHolds, PushKinds
<1>2. CASE op.kind \in {"Adopt", "Refresh"}
  <2>1. op \in RecordOp
    BY <1>2 DEF Op, PushOp, DeleteOp, ForgetOp, PushKinds
  <2>2. ASSUME NEW s \in Side
        PROVE  Holds(s, op.res[s].href, op.res[s].etag, [uid |-> op.uid, body |-> op.body])'
    <3>1. op.res[s].href \in Href /\ op.res[s].etag \in Nat
      BY <2>1 DEF RecordOp, Resource
    <3>2. ver[s][op.res[s].href] \in Nat
      BY <3>1 DEF TypeOK, BooksTypeOK
    <3>3. Holds(s, op.res[s].href, op.res[s].etag, [uid |-> op.uid, body |-> op.body])
      BY <1>2 DEF OpHolds
    <3> QED BY <3>1, <3>2, <3>3 DEF Holds, BooksStep
  <2> QED BY <1>2, <2>2 DEF OpHolds, PushKinds
<1>3. CASE op.kind \notin PushKinds \cup {"Adopt", "Refresh"}
  BY <1>3 DEF OpHolds
<1> QED BY <1>1, <1>2, <1>3

\* Both, for the steps that write no row and plan nothing.
LEMMA HoldStep ==
    ASSUME IInv, RowsHold, OpsHold, BooksStep, UNCHANGED rows, Pending' \subseteq Pending
    PROVE  RowsHold' /\ OpsHold'
<1>1. RowsHold'
  BY RowHoldsStep DEF IInv, RowsHold, Synced
<1>2. Pending \subseteq Op
  BY DEF IInv, TypeOK, Pending, Control
<1>3. OpsHold'
  BY <1>2, OpHoldsStep DEF IInv, OpsHold
<1> QED BY <1>1, <1>3

\* Every card an operation of the plan will record was read.
LEMMA PlannedHold ==
    ASSUME IInv, pc = "plan", NEW op \in CycleOps
    PROVE  OpHolds(op)
<1>1. ASSUME NEW s \in Side, NEW u \in Uid, NEW kind \in PushKinds,
             Appearances(s, u) # {}, snap[s][Where(s, u)].kind # "unchanged"
      PROVE  OpHolds(Copy(kind, u, s)) /\ OpHolds(Overwrite(kind, u, s))
  <2>1. Holds(s, Located(s, u).href, Located(s, u).etag, [uid |-> u, body |-> BodyAt(s, u)])
    BY <1>1, ReadThere
  <2>2. Other(Other(s)) = s /\ kind \notin {"Adopt", "Refresh"}
    BY Sides DEF PushKinds
  <2> QED BY <2>1, <2>2 DEF OpHolds, Copy, Overwrite
<1>2. ASSUME NEW u \in Uid, NEW kind, NEW b,
             \A s \in Side : /\ Appearances(s, u) # {}
                             /\ snap[s][Where(s, u)].kind # "unchanged"
                             /\ BodyAt(s, u) = b,
             kind \in {"Adopt", "Refresh"}
      PROVE  OpHolds(RecordBoth(kind, u, b))
  <2>1. \A s \in Side :
            Holds(s, Located(s, u).href, Located(s, u).etag, [uid |-> u, body |-> b])
    BY <1>2, ReadThere
  <2> QED BY <2>1, <1>2 DEF OpHolds, RecordBoth, PushKinds
<1>3. ASSUME NEW u, SameBodies(u)
      PROVE  \A s \in Side : BodyAt(s, u) = BodyAt("icloud", u)
  BY <1>3, Sides DEF SameBodies
<1>4. CASE op \in PairOps
  <2>1. CASE op \in UNION {Adopts(u) : u \in Unsynced("icloud") \cap Unsynced("fastmail")}
    <3>1. PICK u \in Unsynced("icloud") \cap Unsynced("fastmail") : op \in Adopts(u)
      BY <2>1
    <3>2. /\ u \in Uid
          /\ \A s \in Side : Appearances(s, u) # {} /\ snap[s][Where(s, u)].kind # "unchanged"
      BY UnsyncedRead, Sides DEF IInv
    <3>3. CASE SameBodies(u)
      <4>1. op = RecordBoth("Adopt", u, BodyAt("icloud", u))
        BY <3>1, <3>3 DEF Adopts
      <4> QED BY <1>2, <1>3, <3>2, <3>3, <4>1
    <3>4. CASE ~ SameBodies(u)
      <4>1. op = Overwrite("Conflict", u, Winner)
        BY <3>1, <3>4 DEF Adopts
      <4> QED BY <1>1, <3>2, <4>1, WinnerAssumption, Sides DEF PushKinds
    <3> QED BY <3>3, <3>4
  <2>2. CASE op \notin UNION {Adopts(u) : u \in Unsynced("icloud") \cap Unsynced("fastmail")}
    <3>1. PICK s \in Side, u \in Uid : u \in Unsynced(s) /\ op = Copy("Create", u, s)
      BY <1>4, <2>2 DEF PairOps, Unsynced
    <3>2. Appearances(s, u) # {} /\ snap[s][Where(s, u)].kind # "unchanged"
      BY <3>1, UnsyncedRead DEF IInv
    <3> QED BY <1>1, <3>1, <3>2 DEF PushKinds
  <2> QED BY <2>1, <2>2
<1>5. CASE op \notin PairOps
  <2>1. PICK u \in Planned : op \in RowOps(u)
    BY <1>5 DEF CycleOps
  <2>2. u \in Uid /\ u \in Synced
    BY DEF Planned, Synced
  <2>3. \A s \in Side : Status(s, u) \in {"same", "changed"} =>
            Appearances(s, u) # {} /\ snap[s][Where(s, u)].kind # "unchanged"
    BY <2>2, StatusSays
  <2>4. CASE op \in Forgets(u) \cup Deletes(u)
    BY <2>4 DEF Forgets, ForgetOp, Deletes, OpHolds, PushKinds
  <2>5. CASE op \in Refreshes(u)
    <3>1. CASE BothHave(u, "changed") /\ SameBodies(u)
      <4>1. op = RecordBoth("Refresh", u, BodyAt("icloud", u))
        BY <2>5, <3>1 DEF Refreshes
      <4> QED BY <1>2, <1>3, <2>2, <2>3, <3>1, <4>1 DEF BothHave
    <3>2. CASE ~ (BothHave(u, "changed") /\ SameBodies(u))
      <4>1. /\ op = RecordBoth("Refresh", u, rows[u].body)
            /\ \E s \in Side : Status(s, u) = "same"
            /\ \A s \in Side : Status(s, u) \in {"same", "unchanged"}
        BY <2>5, <3>2 DEF Refreshes
      <4>2. \A s \in Side : Status(s, u) = "same"
        BY <4>1, UnreadTogether, Sides
      <4>3. \A s \in Side : BodyAt(s, u) = rows[u].body
        BY <2>2, <4>2, StatusSays
      <4> QED BY <1>2, <2>2, <2>3, <4>1, <4>2, <4>3
    <3> QED BY <3>1, <3>2
  <2>6. CASE op \in SyncConflicts(u)
    <3>1. op = Overwrite("Conflict", u, Winner) /\ Status(Winner, u) = "changed"
      BY <2>6, WinnerAssumption, Sides DEF SyncConflicts, BothHave
    <3> QED BY <1>1, <2>2, <2>3, <3>1, WinnerAssumption, Sides DEF PushKinds
  <2>7. CASE op \in Resurrections(u)
    <3>1. PICK s \in Side : op = Copy("Resurrect", u, s) /\ Status(s, u) = "changed"
      BY <2>7 DEF Resurrections
    <3> QED BY <1>1, <2>2, <2>3, <3>1 DEF PushKinds
  <2>8. CASE op \in Updates(u)
    <3>1. PICK s \in Side : op = Overwrite("Update", u, s) /\ Status(s, u) = "changed"
      BY <2>8 DEF Updates
    <3> QED BY <1>1, <2>2, <2>3, <3>1 DEF PushKinds
  <2> QED BY <2>1, <2>4, <2>5, <2>6, <2>7, <2>8 DEF RowOps
<1> QED BY <1>4, <1>5

\* The card that was written is at the ETag the answer gave, or will be read
\* back before anybody edits.
LEMMA PutHolds ==
    ASSUME IInv, Put, EtagReplies = {TRUE} \/ ~ EditsInCycle
    PROVE  WroteHolds'
<1>1. PICK etag \in EtagReplies :
        /\ wrote' = [href |-> cur.target.href,
                     etag |-> IF etag THEN ver[cur.to][cur.target.href] + 1 ELSE 0]
        /\ pc' = (IF etag THEN "save" ELSE "readback")
  BY DEF Put, Goto
<1>2. /\ pc = "put" /\ cur' = cur
      /\ card' = [card EXCEPT ![cur.to][cur.target.href] = Pushed]
      /\ ver' = [ver EXCEPT ![cur.to][cur.target.href] = @ + 1]
  BY DEF Put, Write
<1>3. cur \in PushOp
  BY <1>2 DEF IInv, Control
<1>4. /\ card'[cur.to][cur.target.href] = Pushed
      /\ ver'[cur.to][cur.target.href] = ver[cur.to][cur.target.href] + 1
      /\ ver[cur.to][cur.target.href] \in Nat
  BY <1>2, <1>3, PushedIsCard DEF IInv, TypeOK, BooksTypeOK
<1>5. Pushed' = Pushed /\ wrote'.href = cur.target.href
  BY <1>1, <1>2 DEF Pushed
<1>6. CASE etag
  <2>1. pc' = "save" /\ wrote'.etag = ver[cur.to][cur.target.href] + 1
    BY <1>1, <1>6
  <2> QED BY <1>2, <1>4, <1>5, <2>1 DEF WroteHolds, Holds
<1>7. CASE ~ etag
  <2>1. pc' = "readback" /\ ~ EditsInCycle
    BY <1>1, <1>7, BoundsAssumption
  <2> QED BY <1>2, <1>4, <1>5, <2>1 DEF WroteHolds
<1> QED BY <1>6, <1>7

\* What the saved operation leaves in its row is true.
LEMMA SavedHolds ==
    ASSUME IInv, TrueInv, Save
    PROVE  RowsHold'
<1>1. /\ pc = "save" /\ UNCHANGED books
      /\ \/ Drops /\ DropState(cur.uid, Resolves)
         \/ ~ Drops /\ WriteState(cur.uid, RowAfter, cur.body, Resolves)
  BY DEF Save
<1>2. cur \in Op /\ cur \in Pending /\ (cur.kind \in PushKinds => wrote \in Resource)
  BY <1>1 DEF IInv, Control, OpSteps, Pending
<1>3. cur.uid \in Uid /\ rows \in [Uid -> Row \cup {None}]
  BY <1>2 DEF Op, PushOp, DeleteOp, RecordOp, ForgetOp, IInv, TypeOK, StoreTypeOK
<1>4. ASSUME NEW u \in Synced', u # cur.uid
      PROVE  RowHolds(u)'
  <2>1. rows'[u] = rows[u] /\ u \in Synced
    BY <1>1, <1>3, <1>4 DEF DropState, WriteState, Synced
  <2>2. BooksStep
    BY <1>1, BooksStutter DEF IInv, TypeOK, books
  <2>3. RowHolds(u)
    BY <2>1 DEF TrueInv, RowsHold
  <2> QED BY <2>1, <2>2, <2>3, RowHoldsStep DEF IInv
<1>5. ASSUME NEW u \in Synced', u = cur.uid
      PROVE  RowHolds(u)'
  <2>1. ~ Drops /\ rows'[u] = [res |-> RowAfter, body |-> cur.body]
    BY <1>1, <1>3, <1>5 DEF DropState, WriteState, Synced
  <2>2. OpHolds(cur) /\ (cur.kind \in PushKinds => Holds(cur.to, wrote.href, wrote.etag, Pushed))
    BY <1>1, <1>2 DEF TrueInv, OpsHold, WroteHolds
  <2>3. ASSUME NEW s \in Side
        PROVE  Holds(s, RowAfter[s].href, RowAfter[s].etag, [uid |-> u, body |-> cur.body])
    <3>1. CASE cur.kind \in PushKinds
      <4>1. cur \in PushOp
        BY <1>2, <3>1 DEF Op, DeleteOp, RecordOp, ForgetOp, PushKinds
      <4>2. cur.to \in Side /\ (s = cur.to \/ s = Other(cur.to)) /\ Other(cur.to) # cur.to
        BY <4>1, Sides DEF PushOp
      <4>3. RowAfter[s] = IF s = cur.to THEN wrote ELSE cur.source
        BY <3>1 DEF RowAfter
      <4> QED BY <1>5, <2>2, <3>1, <4>2, <4>3 DEF OpHolds, Pushed
    <3>2. CASE cur.kind \notin PushKinds
      <4>1. cur.kind \in {"Adopt", "Refresh"} /\ RowAfter = cur.res
        BY <1>2, <2>1, <3>2 DEF Op, PushOp, DeleteOp, RecordOp, ForgetOp, Drops, RowAfter
      <4> QED BY <1>5, <2>2, <4>1 DEF OpHolds
    <3> QED BY <3>1, <3>2
  <2>4. ASSUME NEW s \in Side
        PROVE  Holds(s, rows[u].res[s].href, rows[u].res[s].etag, [uid |-> u, body |-> rows[u].body])'
    <3>1. Holds(s, RowAfter[s].href, RowAfter[s].etag, [uid |-> u, body |-> cur.body])
      BY <2>3
    <3>2. rows'[u].res[s] = RowAfter[s] /\ rows'[u].body = cur.body
      BY <2>1
    <3> QED BY <1>1, <3>1, <3>2 DEF Holds, books
  <2> QED BY <2>4 DEF RowHolds
<1> QED BY <1>4, <1>5 DEF RowsHold

\* Every step keeps what the rows say true.
LEMMA NextTrueInv ==
    ASSUME IInv, TrueInv, [Next]_vars, EtagReplies = {TRUE} \/ ~ EditsInCycle
    PROVE  TrueInv'
<1>1. BooksStep
  BY NextBooks
<1>2. RowsHold /\ OpsHold /\ WroteHolds
  BY DEF TrueInv
<1>3. CASE UserEdit \/ UserDelete
  <2>1. UNCHANGED <<store, cycle>> /\ (EditsInCycle \/ pc = "wait")
    BY <1>3 DEF UserEdit, UserDelete, MayEdit
  <2>2. UNCHANGED rows /\ Pending' = Pending /\ pc' = pc /\ cur' = cur /\ wrote' = wrote
    BY <2>1 DEF store, cycle, Pending
  <2>3. pc # "readback"
    BY <1>2, <2>1 DEF WroteHolds
  <2>4. WroteHolds'
    <3> SUFFICES ASSUME pc = "save", cur.kind \in PushKinds
                 PROVE  Holds(cur.to, wrote.href, wrote.etag, Pushed)'
      BY <2>2, <2>3 DEF WroteHolds
    <3>1. cur \in PushOp /\ wrote \in Resource
      BY DEF IInv, Control, OpSteps, Op, DeleteOp, RecordOp, ForgetOp, PushKinds
    <3>2. cur.to \in Side /\ wrote.href \in Href /\ wrote.etag \in Nat
      BY <3>1 DEF PushOp, Resource
    <3>3. ver[cur.to][wrote.href] \in Nat
      BY <3>2 DEF IInv, TypeOK, BooksTypeOK
    <3>4. Holds(cur.to, wrote.href, wrote.etag, Pushed) /\ Pushed' = Pushed
      BY <1>2, <2>2 DEF WroteHolds, Pushed
    <3> QED BY <1>1, <2>2, <3>2, <3>3, <3>4 DEF Holds, BooksStep
  <2> QED BY <1>1, <1>2, <2>2, <2>4, HoldStep DEF TrueInv
<1>4. CASE (\E s \in Side, h \in Href : BackoffPasses(s, h)) \/ UNCHANGED vars
  <2>1. UNCHANGED <<books, rows, cycle>>
    BY <1>4 DEF BackoffPasses, vars, store
  <2>2. UNCHANGED rows /\ Pending' = Pending /\ WroteHolds'
    BY <1>2, <2>1 DEF books, cycle, Pending, WroteHolds, Holds, Pushed
  <2> QED BY <1>1, <1>2, <2>2, HoldStep DEF TrueInv
<1>5. CASE Wake \/ CheckDelta \/ TokenInvalid \/ List \/ Fetch
  <2>1. /\ UNCHANGED rows /\ pc \in {"wait", "check", "list", "fetch"} /\ todo' = todo
        /\ pc' \in {"wait", "check", "list", "fetch", "plan"}
    BY <1>5 DEF Wake, CheckDelta, TokenInvalid, List, Fetch, Goto, store
  <2>2. Pending' \subseteq Pending /\ WroteHolds'
    BY <2>1 DEF Pending, OpSteps, WroteHolds
  <2> QED BY <1>1, <1>2, <2>1, <2>2, HoldStep DEF TrueInv
<1>6. CASE Plan /\ MassDeletion(CycleOps)
  <2>1. EndCycle /\ UNCHANGED rows
    BY <1>6 DEF Plan, store
  <2>2. Pending' = {} /\ WroteHolds'
    BY <2>1 DEF EndCycle, Pending, OpSteps, WroteHolds
  <2> QED BY <1>1, <1>2, <2>1, <2>2, HoldStep DEF TrueInv
<1>7. CASE Plan /\ ~ MassDeletion(CycleOps)
  <2>1. pc = "plan" /\ pc' = "apply" /\ todo' = CycleOps /\ UNCHANGED rows
    BY <1>7 DEF Plan, Goto, RecordFailures
  <2>2. Pending' = CycleOps /\ CycleOps \subseteq Op
    BY <2>1, CycleOpsSound DEF Pending, OpSteps
  <2>3. ASSUME NEW op \in CycleOps
        PROVE  OpHolds(op)'
    BY <1>1, <2>1, <2>2, PlannedHold, OpHoldsStep DEF IInv
  <2>4. OpsHold'
    BY <2>2, <2>3 DEF OpsHold
  <2>5. RowsHold' /\ WroteHolds'
    BY <1>1, <1>2, <2>1, RowHoldsStep DEF IInv, RowsHold, Synced, WroteHolds
  <2> QED BY <2>4, <2>5 DEF TrueInv
<1>8. CASE StartOp
  <2>1. PICK op \in todo : todo' = todo \ {op} /\ cur' = op /\ pc' = FirstStep(op)
    BY <1>8 DEF StartOp, Goto
  <2>2. UNCHANGED rows /\ pc = "apply"
    BY <1>8 DEF StartOp, store
  <2>3. Pending' \subseteq Pending
    BY <2>1, <2>2 DEF Pending, OpSteps
  <2>4. pc' # "readback" /\ (pc' = "save" => cur'.kind \notin PushKinds)
    BY <2>1 DEF FirstStep, PushKinds
  <2> QED BY <1>1, <1>2, <2>2, <2>3, <2>4, HoldStep DEF TrueInv, WroteHolds
<1>9. CASE Archive
  <2>1. UNCHANGED rows /\ pc' = "put" /\ pc = "archive" /\ todo' = todo /\ cur' = cur
    BY <1>9 DEF Archive, RecordConflict, Goto
  <2>2. Pending' \subseteq Pending /\ WroteHolds'
    BY <2>1 DEF Pending, OpSteps, WroteHolds
  <2> QED BY <1>1, <1>2, <2>1, <2>2, HoldStep DEF TrueInv
<1>10. CASE Put
  <2>1. UNCHANGED rows /\ pc = "put" /\ todo' = todo /\ cur' = cur
    BY <1>10 DEF Put, store
  <2>2. Pending' \subseteq Pending
    BY <2>1 DEF Pending, OpSteps
  <2> QED BY <1>1, <1>2, <1>10, <2>1, <2>2, HoldStep, PutHolds DEF TrueInv
<1>11. CASE ReadBack
  <2>1. /\ UNCHANGED <<books, rows, todo, cur>> /\ pc = "readback" /\ pc' = "save"
        /\ wrote' = [wrote EXCEPT !.etag = ver[cur.to][wrote.href]]
    BY <1>11 DEF ReadBack, Goto, store
  <2>2. cur \in PushOp /\ wrote \in Resource
    BY <2>1 DEF IInv, Control
  <2>3. cur.to \in Side /\ wrote.href \in Href /\ wrote'.href = wrote.href
        /\ wrote'.etag = ver[cur.to][wrote.href]
    BY <2>1, <2>2 DEF PushOp, Resource
  <2>4. ver[cur.to][wrote.href] \in Nat /\ card[cur.to][wrote.href] = Pushed /\ Pushed' = Pushed
    BY <1>2, <2>1, <2>3 DEF IInv, TypeOK, BooksTypeOK, WroteHolds, Pushed
  <2>5. WroteHolds'
    BY <2>1, <2>3, <2>4 DEF WroteHolds, Holds, books
  <2>6. Pending' \subseteq Pending
    BY <2>1 DEF Pending, OpSteps
  <2> QED BY <1>1, <1>2, <2>1, <2>5, <2>6, HoldStep DEF TrueInv
<1>12. CASE Delete
  <2>1. UNCHANGED rows /\ pc = "delete" /\ pc' = "save" /\ todo' = todo /\ cur' = cur
    BY <1>12 DEF Delete, Goto, store
  <2>2. cur.kind \notin PushKinds
    BY <2>1 DEF IInv, Control, DeleteOp, PushKinds
  <2>3. Pending' \subseteq Pending /\ WroteHolds'
    BY <2>1, <2>2 DEF Pending, OpSteps, WroteHolds
  <2> QED BY <1>1, <1>2, <2>1, <2>3, HoldStep DEF TrueInv
<1>13. CASE Save
  <2>1. EndOp /\ pc \in OpSteps /\ pc' = "apply"
    BY <1>13 DEF Save, EndOp, Goto, OpSteps
  <2>2. Pending' \subseteq Pending /\ WroteHolds' /\ Pending \subseteq Op
    BY <2>1, EndOpKeepsRest DEF WroteHolds, IInv, TypeOK, Pending, Control
  <2>3. OpsHold'
    BY <1>1, <1>2, <2>2, OpHoldsStep DEF IInv, OpsHold
  <2> QED BY <1>13, <2>2, <2>3, SavedHolds DEF TrueInv
<1>14. CASE Refused \/ Rejected
  <2>1. EndOp /\ pc \in OpSteps /\ pc' = "apply" /\ UNCHANGED rows
    BY <1>14 DEF Refused, Rejected, FailOp, RecordFailures, EndOp, Goto, OpSteps
  <2>2. Pending' \subseteq Pending /\ WroteHolds'
    BY <2>1, EndOpKeepsRest DEF WroteHolds
  <2> QED BY <1>1, <1>2, <2>1, <2>2, HoldStep DEF TrueInv
<1>15. CASE Unsent \/ AnswerLost \/ Finish \/ Crash
  <2>1. EndCycle /\ UNCHANGED rows
    BY <1>15 DEF Unsent, AnswerLost, AbortCycle, RecordFailures, Finish, Crash, store
  <2>2. Pending' = {} /\ WroteHolds'
    BY <2>1 DEF EndCycle, Pending, OpSteps, WroteHolds
  <2> QED BY <1>1, <1>2, <2>1, <2>2, HoldStep DEF TrueInv
<1>16. CASE Reset
  <2>1. pc = "wait" /\ UNCHANGED cycle /\ Synced' = {}
    BY <1>16 DEF Reset, Synced
  <2>2. Pending' = {} /\ WroteHolds'
    BY <2>1 DEF IInv, Control, Pending, OpSteps, cycle, WroteHolds
  <2> QED BY <2>1, <2>2 DEF TrueInv, RowsHold, OpsHold
<1> QED
  BY <1>3, <1>4, <1>5, <1>6, <1>7, <1>8, <1>9, <1>10, <1>11, <1>12, <1>13, <1>14, <1>15,
     <1>16 DEF Next, Daemon, Faulty

\* The rows a run starts with are true.
LEMMA InitTrueInv == Init => TrueInv
<1> SUFFICES ASSUME Init PROVE TrueInv
  OBVIOUS
<1>1. PICK b \in Body :
        /\ card = [s \in Side |-> [h \in Href |->
              IF \E u \in Start : Home[u][s] = h
              THEN [uid |-> CHOOSE u \in Start : Home[u][s] = h, body |-> b]
              ELSE None]]
        /\ rows = [u \in Uid |->
              IF u \in Start
              THEN [res |-> [s \in Side |-> [href |-> Home[u][s], etag |-> 1]], body |-> b]
              ELSE None]
  BY DEF Init
<1>2. ASSUME NEW u \in Synced
      PROVE  RowHolds(u)
  <2>1. u \in Start /\ u \in Uid
    BY <1>1 DEF Synced
  <2>2. ASSUME NEW s \in Side
        PROVE  Holds(s, rows[u].res[s].href, rows[u].res[s].etag, [uid |-> u, body |-> rows[u].body])
    <3>1. rows[u].res[s].href = Home[u][s] /\ rows[u].res[s].etag = 1 /\ rows[u].body = b
      BY <1>1, <2>1
    <3>2. Home[u][s] \in Href
      BY <2>1, BoundsAssumption
    <3>3. (CHOOSE v \in Start : Home[v][s] = Home[u][s]) = u
      BY <2>1, BoundsAssumption
    <3>4. card[s][Home[u][s]] = [uid |-> u, body |-> b]
      BY <1>1, <2>1, <3>2, <3>3
    <3>5. ver[s][Home[u][s]] = 1
      BY <2>1, <3>2 DEF Init
    <3> QED BY <3>1, <3>4, <3>5 DEF Holds
  <2> QED BY <2>2 DEF RowHolds
<1>3. Pending = {} /\ WroteHolds
  BY DEF Init, Pending, OpSteps, WroteHolds
<1> QED BY <1>2, <1>3 DEF TrueInv, RowsHold, OpsHold

\* Echo suppression is sound: a card at the ETag its row stores says what
\* the row calls synced, whatever anybody does while a cycle runs, provided
\* the answers to writes carry ETags; without them, if people leave the
\* address books alone while one runs (snapshot::fetch_lists and
\* executor::execute's read-back).
THEOREM EchoesAreSound ==
    ASSUME EtagReplies = {TRUE} \/ ~ EditsInCycle
    PROVE  Spec => []UnchangedIsUnchanged
<1>1. IInv /\ TrueInv /\ [Next]_vars => (IInv /\ TrueInv)'
  BY NextIInv, NextTrueInv
<1>2. TrueInv => UnchangedIsUnchanged
  BY DEF TrueInv, RowsHold, RowHolds, Holds, UnchangedIsUnchanged
<1>3. Spec => [](IInv /\ TrueInv)
  BY <1>1, InitIInv, InitTrueInv, PTL DEF Spec
<1> QED BY <1>2, <1>3, PTL

(***************************************************************************)
(* Why an idle daemon has nothing to do.                                   *)
(***************************************************************************)

\* Nothing changed on a side since it was listed.
Quiet == \A s \in Side : ~ sinceListed[s]

\* The tokens stored last are still current.
Current == \A s \in Side : ~ sinceStored[s]

Running == pc = "apply" \/ pc \in OpSteps

FailingKeys == {k \in Side \X Href : failures[k[1]][k[2]] # None}

\* The failures that outlast the end of this cycle.
KeptKeys == FailingKeys \ Outdated

\* u is not in sync, but somebody is told: one of its cards is failing, or u
\* is synced and any card is, which may be u's own.
Excused(u, keys) ==
    \/ u \in Synced /\ keys # {}
    \/ \E s \in Side : \E h \in CardsOf(s, u) : <<s, h>> \in keys

\* A side's ETag is 0 exactly where it has no card, and what no token covers
\* any more, no listing does.
BooksSane ==
    /\ \A s \in Side, h \in Href : card[s][h] # None => ver[s][h] # 0
    /\ \A s \in Side : sinceListed[s] => sinceStored[s]

HasListed(s) ==
    \/ pc = "list" /\ on = "fastmail" /\ s = "icloud"
    \/ pc \in {"fetch", "plan"}

ListedNow == \A s \in Side : (HasListed(s) /\ ~ sinceListed[s]) => listing[s] = Listing(s)

\* An entry says what its side holds, or why it was not read.
Exact(s, h) ==
    LET e == snap[s][h] IN
    /\ e.kind = "absent" <=> card[s][h] = None
    /\ e.kind = "fetched" => e.card = card[s][h] /\ e.etag = ver[s][h]
    /\ e.kind = "unchanged" => \E u \in RowAt(s, h) : rows[u].res[s].etag = ver[s][h]
    /\ e.kind = "held" => failures[s][h] # None /\ listing[s][h] # 0

SnapExact ==
    \A s \in Side : (HasFetched(s) /\ ~ sinceListed[s]) => \A h \in Href : Exact(s, h)

\* The cards an operation works on are its contact's, as they were read; one
\* that only records them finds them, and leaves no failure unexplained.
Ready(op, keys) ==
    /\ op.kind \in {"Adopt", "Refresh"} => \A s \in Side :
          /\ card[s][op.res[s].href] = [uid |-> op.uid, body |-> op.body]
          /\ ver[s][op.res[s].href] = op.res[s].etag
          /\ RowAt(s, op.res[s].href) \subseteq {op.uid}
          /\ \A h \in CardsOf(s, op.uid) : h # op.res[s].href => <<s, h>> \in keys
    /\ op.kind = "Adopt" =>
          op.uid \notin Synced /\ \A s \in Side : <<s, op.res[s].href>> \notin keys
    /\ op.kind = "Forget" => \A s \in Side : \A h \in CardsOf(s, op.uid) : <<s, h>> \in keys
    /\ op.kind \in PushKinds => op.source.href \in CardsOf(Other(op.to), op.uid)
    /\ op.kind \in {"Conflict", "Delete"} => op.target.href \in CardsOf(op.to, op.uid)

\* While operations run and nothing changed since the listing, every contact
\* is in sync, or waits for its operation, or somebody will be told.
AccountedFor(u) ==
    InSync(u) \/ Excused(u, KeptKeys) \/ \E op \in Pending : op.uid = u

Accounts ==
    (Running /\ Quiet) =>
        /\ \A op \in Pending : Ready(op, KeptKeys)
        /\ \A u \in Uid : AccountedFor(u)

\* Only records are saved then, and rows' operations come before pairs'.
QuietStep ==
    (pc \in OpSteps /\ Quiet) =>
        /\ pc \in {"readback", "save"} => cur.kind \in {"Adopt", "Refresh", "Forget"}
        /\ cur.kind = "Adopt" => \A op \in todo : op.uid \notin Synced

\* While the stored tokens are current.
Settled == Current => \A u \in Uid : InSync(u) \/ Excused(u, FailingKeys)

NothingWritten == pc \notin {"readback", "save"} => wrote = None

IdleInv ==
    /\ BooksSane /\ ListedNow /\ SnapExact /\ NothingWritten
    /\ Accounts /\ QuietStep /\ Settled

\* How the address books and what is known of their tokens may change.
LEMMA BooksChange ==
    ASSUME IInv, [Next]_vars
    PROVE  \/ \E s \in Side, h \in Href, c \in Card : Write(s, h, c)
           \/ \E s \in Side, h \in Href : Remove(s, h)
           \/ UNCHANGED books
           \/ List \/ Reset \/ Finish
<1>1. CASE UserEdit
  <2>1. PICK s \in Side, h \in Href, u \in Uid, b \in EditBodies :
            Write(s, h, [uid |-> u, body |-> b])
    BY <1>1 DEF UserEdit, UserWrites
  <2>2. [uid |-> u, body |-> b] \in Card
    BY BoundsAssumption DEF Card
  <2> QED BY <2>1, <2>2
<1>2. CASE UserDelete
  BY <1>2 DEF UserDelete, UserDeletes
<1>3. CASE Put \/ (AnswerLost /\ pc = "put")
  <2>1. pc = "put" /\ Write(cur.to, cur.target.href, Pushed)
    BY <1>3 DEF Put, AnswerLost
  <2>2. cur \in PushOp
    BY <2>1 DEF IInv, Control
  <2> QED BY <2>1, <2>2, PushedIsCard
<1>4. CASE Delete \/ (AnswerLost /\ pc # "put")
  <2>1. pc = "delete" /\ (Remove(cur.to, cur.target.href) \/ UNCHANGED books)
    BY <1>4 DEF Delete, AnswerLost
  <2>2. cur \in DeleteOp
    BY <2>1 DEF IInv, Control
  <2>3. cur.to \in Side /\ cur.target.href \in Href
    BY <2>2 DEF DeleteOp, Resource
  <2> QED BY <2>1, <2>3
<1>5. CASE (\E s \in Side, h \in Href : BackoffPasses(s, h)) \/ UNCHANGED vars
  BY <1>5 DEF BackoffPasses, vars
<1>6. CASE Wake \/ CheckDelta \/ Fetch \/ Plan \/ StartOp \/ Archive \/ ReadBack \/ Save
  BY <1>6 DEF Wake, CheckDelta, Fetch, Plan, StartOp, Archive, ReadBack, Save
<1>7. CASE Refused \/ Rejected \/ Crash \/ TokenInvalid \/ Unsent
  BY <1>7 DEF Refused, Rejected, FailOp, Crash, TokenInvalid, Unsent
<1> QED
  BY <1>1, <1>2, <1>3, <1>4, <1>5, <1>6, <1>7 DEF Next, Daemon, Faulty

\* A side that shows no change since the listing, or since the stored token,
\* has not changed in this step.
LEMMA StillSide ==
    ASSUME IInv, [Next]_vars, NEW s \in Side
    PROVE  /\ ~ sinceListed'[s] => /\ card'[s] = card[s] /\ ver'[s] = ver[s]
                                   /\ ~ sinceListed[s] \/ (List /\ on = s)
           /\ ~ sinceStored'[s] => /\ card'[s] = card[s] /\ ver'[s] = ver[s]
                                   /\ ~ sinceStored[s] \/ Finish
<1>1. BooksTypeOK
  BY DEF IInv, TypeOK
<1>2. ASSUME NEW t \in Side, NEW h \in Href, NEW c \in Card, Write(t, h, c)
      PROVE  /\ ~ sinceListed'[s] => /\ card'[s] = card[s] /\ ver'[s] = ver[s] /\ ~ sinceListed[s]
             /\ ~ sinceStored'[s] => /\ card'[s] = card[s] /\ ver'[s] = ver[s] /\ ~ sinceStored[s]
  BY <1>1, <1>2 DEF Write, Touch, BooksTypeOK
<1>3. ASSUME NEW t \in Side, NEW h \in Href, Remove(t, h)
      PROVE  /\ ~ sinceListed'[s] => /\ card'[s] = card[s] /\ ver'[s] = ver[s] /\ ~ sinceListed[s]
             /\ ~ sinceStored'[s] => /\ card'[s] = card[s] /\ ver'[s] = ver[s] /\ ~ sinceStored[s]
  BY <1>1, <1>3 DEF Remove, Touch, BooksTypeOK
<1>4. CASE UNCHANGED books
  BY <1>4 DEF books
<1>5. CASE List
  BY <1>1, <1>5 DEF List, BooksTypeOK
<1>6. CASE Reset
  BY <1>6 DEF Reset
<1>7. CASE Finish
  BY <1>7 DEF Finish
<1> QED BY <1>2, <1>3, <1>4, <1>5, <1>6, <1>7, BooksChange

\* The address books stay sane.
LEMMA NextBooksSane ==
    ASSUME IInv, BooksSane, [Next]_vars
    PROVE  BooksSane'
<1>1. BooksTypeOK
  BY DEF IInv, TypeOK
<1>2. ASSUME NEW t \in Side, NEW h \in Href, NEW c \in Card, Write(t, h, c)
      PROVE  BooksSane'
  BY <1>1, <1>2 DEF Write, Touch, BooksTypeOK, BooksSane
<1>3. ASSUME NEW t \in Side, NEW h \in Href, Remove(t, h)
      PROVE  BooksSane'
  BY <1>1, <1>3 DEF Remove, Touch, BooksTypeOK, BooksSane
<1>4. CASE UNCHANGED books
  BY <1>4 DEF books, BooksSane
<1>5. CASE List
  BY <1>1, <1>5 DEF List, BooksTypeOK, BooksSane
<1>6. CASE Reset
  BY <1>6 DEF Reset, BooksSane
<1>7. CASE Finish
  BY <1>7 DEF Finish, BooksSane
<1> QED BY <1>2, <1>3, <1>4, <1>5, <1>6, <1>7, BooksChange

\* A listing is made once, and stays until the plan.
LEMMA ListedBefore ==
    ASSUME IInv, [Next]_vars, NEW s \in Side, HasListed(s)'
    PROVE  (List /\ on = s) \/ (HasListed(s) /\ listing'[s] = listing[s])
<1>1. CASE UserEdit \/ UserDelete \/ (\E t \in Side, h \in Href : BackoffPasses(t, h)) \/ UNCHANGED vars
  BY <1>1 DEF UserEdit, UserDelete, MayEdit, BackoffPasses, vars, cycle, HasListed,
              IInv, TypeOK, ViewTypeOK
<1>2. CASE List
  BY <1>2, Sides DEF List, Goto, HasListed, IInv, TypeOK, ViewTypeOK
<1>3. CASE Fetch
  BY <1>3 DEF Fetch, HasListed, IInv, TypeOK, ViewTypeOK
<1>4. CASE Wake \/ CheckDelta \/ TokenInvalid
  BY <1>4 DEF Wake, CheckDelta, TokenInvalid, Goto, HasListed
<1>5. CASE Plan \/ Finish \/ Crash \/ Unsent \/ AnswerLost
  BY <1>5 DEF Plan, Finish, Crash, Unsent, AnswerLost, AbortCycle, EndCycle, Goto, HasListed
<1>6. CASE StartOp \/ Archive \/ Put \/ ReadBack \/ Delete \/ Save \/ Refused \/ Rejected
  BY <1>6 DEF StartOp, FirstStep, PushKinds, Archive, Put, ReadBack, Delete, Save, Refused, Rejected,
              FailOp, EndOp, Goto, HasListed
<1>7. CASE Reset
  BY <1>7 DEF Reset, cycle, HasListed
<1> QED BY <1>1, <1>2, <1>3, <1>4, <1>5, <1>6, <1>7 DEF Next, Daemon, Faulty

\* A listing of a side that has not changed since is what is there.
LEMMA NextListedNow ==
    ASSUME IInv, ListedNow, [Next]_vars
    PROVE  ListedNow'
<1> SUFFICES ASSUME NEW s \in Side, HasListed(s)', ~ sinceListed'[s]
             PROVE  listing'[s] = Listing(s)'
  BY DEF ListedNow
<1>1. card'[s] = card[s] /\ ver'[s] = ver[s] /\ (~ sinceListed[s] \/ (List /\ on = s))
  BY StillSide
<1>2. Listing(s)' = Listing(s)
  BY <1>1 DEF Listing
<1>3. CASE List /\ on = s
  BY <1>2, <1>3 DEF List, IInv, TypeOK, ViewTypeOK
<1>4. CASE ~ (List /\ on = s)
  BY <1>1, <1>2, <1>4, ListedBefore DEF ListedNow
<1> QED BY <1>3, <1>4

\* A side is fetched once, and stays so until the plan.
LEMMA FetchedBefore ==
    ASSUME IInv, [Next]_vars, NEW s \in Side, HasFetched(s)'
    PROVE  \/ Fetch /\ on = s
           \/ /\ HasFetched(s) /\ snap'[s] = snap[s]
              /\ UNCHANGED <<listing, rows>>
              /\ \A h \in Href : failures[s][h] # None => failures'[s][h] # None
<1>1. CASE UserEdit \/ UserDelete \/ UNCHANGED vars
  BY <1>1 DEF UserEdit, UserDelete, MayEdit, vars, cycle, store, HasFetched
<1>2. CASE \E t \in Side, h \in Href : BackoffPasses(t, h)
  BY <1>2 DEF BackoffPasses, cycle, HasFetched
<1>3. CASE Fetch
  BY <1>3, Sides DEF Fetch, Goto, HasFetched, IInv, TypeOK, ViewTypeOK, store
<1>4. CASE Wake \/ CheckDelta \/ TokenInvalid \/ List
  BY <1>4 DEF Wake, CheckDelta, TokenInvalid, List, Goto, HasFetched
<1>5. CASE Plan \/ Finish \/ Crash \/ Unsent \/ AnswerLost
  BY <1>5 DEF Plan, Finish, Crash, Unsent, AnswerLost, AbortCycle, EndCycle, Goto, HasFetched
<1>6. CASE StartOp \/ Archive \/ Put \/ ReadBack \/ Delete \/ Save \/ Refused \/ Rejected
  BY <1>6 DEF StartOp, FirstStep, PushKinds, Archive, Put, ReadBack, Delete, Save, Refused, Rejected,
              FailOp, EndOp, Goto, HasFetched
<1>7. CASE Reset
  BY <1>7 DEF Reset, cycle, HasFetched
<1> QED BY <1>1, <1>2, <1>3, <1>4, <1>5, <1>6, <1>7 DEF Next, Daemon, Faulty

\* A snapshot of a side that has not changed since the listing is exact.
LEMMA SnapshotExact ==
    ASSUME TypeOK, BooksSane, NEW s \in Side, NEW h \in Href, listing[s] = Listing(s)
    PROVE  LET e == Snapshot(s)[h] IN
           /\ e.kind = "absent" <=> card[s][h] = None
           /\ e.kind = "fetched" => e.card = card[s][h] /\ e.etag = ver[s][h]
           /\ e.kind = "unchanged" => \E u \in RowAt(s, h) : rows[u].res[s].etag = ver[s][h]
           /\ e.kind = "held" => failures[s][h] # None /\ listing[s][h] # 0
<1> DEFINE e == Snapshot(s)[h]
<1>1. listing[s][h] = IF card[s][h] = None THEN 0 ELSE ver[s][h]
  BY DEF Listing
<1>2. h \in Listed(s) <=> card[s][h] # None
  BY <1>1 DEF BooksSane, Listed
<1>3. CASE h \notin Listed(s)
  <2>1. e = NoEntry
    BY <1>3 DEF Snapshot
  <2> QED BY <1>2, <1>3, <2>1 DEF NoEntry
<1>4. CASE h \in Listed(s) /\ h \in HeldHrefs(s)
  <2>1. e = [kind |-> "held", etag |-> listing[s][h], card |-> None]
    BY <1>4 DEF Snapshot
  <2> QED BY <1>2, <1>4, <2>1 DEF HeldHrefs, Listed
<1>5. CASE h \in Listed(s) /\ h \notin HeldHrefs(s) /\ h \in FetchList(s)
  <2>1. e = [kind |-> "fetched", etag |-> ver[s][h], card |-> card[s][h]]
    BY <1>2, <1>5 DEF Snapshot
  <2> QED BY <1>2, <1>5, <2>1
<1>6. CASE h \in Listed(s) /\ h \notin HeldHrefs(s) /\ h \notin FetchList(s)
  <2>1. e = [kind |-> "unchanged", etag |-> listing[s][h], card |-> None]
    BY <1>6 DEF Snapshot
  <2>2. \E u \in RowAt(s, h) : rows[u].res[s].etag = listing[s][h]
    BY <1>6 DEF FetchList, Changed
  <2> QED BY <1>1, <1>2, <1>6, <2>1, <2>2
<1> QED BY <1>3, <1>4, <1>5, <1>6

\* It stays so until the plan.
LEMMA NextSnapExact ==
    ASSUME IInv, BooksSane, ListedNow, SnapExact, [Next]_vars
    PROVE  SnapExact'
<1> SUFFICES ASSUME NEW s \in Side, HasFetched(s)', ~ sinceListed'[s], NEW h \in Href
             PROVE  Exact(s, h)'
  BY DEF SnapExact
<1>1. card'[s] = card[s] /\ ver'[s] = ver[s] /\ (~ sinceListed[s] \/ (List /\ on = s))
  BY StillSide
<1>2. CASE Fetch /\ on = s
  <2>1. pc = "fetch" /\ UNCHANGED <<listing, rows, failures>> /\ snap'[s] = Snapshot(s)
    BY <1>2 DEF Fetch, store, IInv, TypeOK, ViewTypeOK
  <2>2. ~ List
    BY <2>1 DEF List
  <2>3. listing[s] = Listing(s)
    BY <1>1, <2>1, <2>2 DEF ListedNow, HasListed
  <2>4. RowAt(s, h)' = RowAt(s, h)
    BY <2>1 DEF RowAt, Synced
  <2>5. /\ Snapshot(s)[h].kind = "absent" <=> card[s][h] = None
        /\ Snapshot(s)[h].kind = "fetched" =>
              Snapshot(s)[h].card = card[s][h] /\ Snapshot(s)[h].etag = ver[s][h]
        /\ Snapshot(s)[h].kind = "unchanged" =>
              \E u \in RowAt(s, h) : rows[u].res[s].etag = ver[s][h]
        /\ Snapshot(s)[h].kind = "held" => failures[s][h] # None /\ listing[s][h] # 0
    BY <2>3, SnapshotExact DEF IInv
  <2> QED BY <1>1, <2>1, <2>4, <2>5 DEF Exact
<1>3. CASE ~ (Fetch /\ on = s)
  <2>1. /\ HasFetched(s) /\ snap'[s] = snap[s] /\ UNCHANGED <<listing, rows>>
        /\ failures[s][h] # None => failures'[s][h] # None
    BY <1>3, FetchedBefore
  <2>2. ~ List
    BY <2>1 DEF HasFetched, List
  <2>3. Exact(s, h)
    BY <1>1, <2>1, <2>2 DEF SnapExact
  <2>4. RowAt(s, h)' = RowAt(s, h)
    BY <2>1 DEF RowAt, Synced
  <2> QED BY <1>1, <2>1, <2>3, <2>4 DEF Exact
<1> QED BY <1>2, <1>3

\* Nothing counts as written before a PUT was accepted.
LEMMA NextNothingWritten ==
    ASSUME NothingWritten, [Next]_vars
    PROVE  NothingWritten'
<1>1. CASE UserEdit \/ UserDelete \/ (\E s \in Side, h \in Href : BackoffPasses(s, h)) \/ UNCHANGED vars
  BY <1>1 DEF UserEdit, UserDelete, MayEdit, BackoffPasses, vars, cycle, NothingWritten
<1>2. CASE Wake \/ CheckDelta \/ TokenInvalid \/ List \/ Fetch \/ Plan
  BY <1>2 DEF Wake, CheckDelta, TokenInvalid, List, Fetch, Plan, EndCycle, NothingWritten
<1>3. CASE StartOp \/ Archive \/ Put \/ ReadBack \/ Delete
  BY <1>3 DEF StartOp, Archive, Put, ReadBack, Delete, Goto, NothingWritten
<1>4. CASE Save \/ Refused \/ Rejected
  BY <1>4 DEF Save, Refused, Rejected, FailOp, EndOp, NothingWritten
<1>5. CASE Finish \/ Crash \/ Unsent \/ AnswerLost
  BY <1>5 DEF Finish, Crash, Unsent, AnswerLost, AbortCycle, EndCycle, NothingWritten
<1>6. CASE Reset
  BY <1>6 DEF Reset, cycle, NothingWritten
<1> QED BY <1>1, <1>2, <1>3, <1>4, <1>5, <1>6 DEF Next, Daemon, Faulty

(***************************************************************************)
(* What a plan over an exact snapshot leaves out.                          *)
(***************************************************************************)
AllExact == \A s \in Side, h \in Href : Exact(s, h)

\* The cards a plan leaves failing: those still held, and those it reports.
PlanKeys ==
    {k \in Side \X Href :
        \/ snap[k[1]][k[2]].kind = "held"
        \/ \E c \in ReadFailures : c.side = k[1] /\ c.href = k[2]}

\* A card reported on a side is one of them.
LEMMA ReportedKey ==
    ASSUME NEW s \in Side, NEW h \in Href,
           NEW c \in UnreadableOn(s) \cup UidChangedOn(s) \cup DuplicatesOn(s),
           c.side = s, c.href = h
    PROVE  <<s, h>> \in PlanKeys
<1>1. c \in ReadFailures
  BY DEF ReadFailures
<1> QED BY <1>1 DEF PlanKeys

\* An opaque entry is one of them, and so is a card that is now another's.
LEMMA OpaqueKey ==
    ASSUME NEW s \in Side, NEW h \in Href, Opaque(s, h) \/ UidChanged(s, h)
    PROVE  <<s, h>> \in PlanKeys
<1>1. CASE snap[s][h].kind = "held"
  BY <1>1 DEF PlanKeys
<1>2. CASE snap[s][h].kind = "fetched" /\ snap[s][h].card.body = Unreadable
  <2>1. Failing(s, h, None, snap[s][h].etag) \in UnreadableOn(s)
    BY <1>2 DEF UnreadableOn
  <2> QED BY <2>1, ReportedKey DEF Failing
<1>3. CASE UidChanged(s, h)
  <2>1. Failing(s, h, snap[s][h].card.uid, snap[s][h].etag) \in UidChangedOn(s)
    BY <1>3 DEF UidChangedOn
  <2> QED BY <2>1, ReportedKey DEF Failing
<1> QED BY <1>1, <1>2, <1>3 DEF Opaque

\* So is every card of a contact that has several on a side.
LEMMA DuplicateKey ==
    ASSUME NEW s \in Side, NEW u \in Duplicated(s), NEW h \in Appearances(s, u)
    PROVE  <<s, h>> \in PlanKeys
<1>1. h \in Href
  BY DEF Appearances
<1>2. Failing(s, h, u, listing[s][h]) \in DuplicatesOn(s)
  BY DEF DuplicatesOn
<1> QED BY <1>1, <1>2, ReportedKey DEF Failing

\* A card that was not fetched is the one its row says.
LEMMA UnreadCard ==
    ASSUME IInv, TrueInv, AllExact, NEW s \in Side, NEW h \in Href, NEW u \in RowAt(s, h),
           snap[s][h].kind = "unchanged"
    PROVE  /\ u \in Uid /\ card[s][h] = [uid |-> u, body |-> rows[u].body]
           /\ ver[s][h] = rows[u].res[s].etag
<1>1. card[s][h] # None
  BY DEF AllExact, Exact
<1>2. PICK w \in RowAt(s, h) : rows[w].res[s].etag = ver[s][h]
  BY DEF AllExact, Exact
<1>3. u = w /\ u \in Synced /\ u \in Uid /\ rows[u].res[s].href = h
  BY DEF RowAt, Synced, IInv, RowsApart
<1>4. Holds(s, rows[u].res[s].href, rows[u].res[s].etag, [uid |-> u, body |-> rows[u].body])
  BY <1>3 DEF TrueInv, RowsHold, RowHolds
<1> QED BY <1>1, <1>2, <1>3, <1>4 DEF Holds

\* Where a contact appears, there is a card of it.
LEMMA AppearanceIsCard ==
    ASSUME IInv, TrueInv, AllExact, NEW s \in Side, NEW u \in Uid, NEW h \in Appearances(s, u)
    PROVE  h \in Href /\ h \in CardsOf(s, u)
<1>1. h \in Href
  BY DEF Appearances
<1>2. CASE snap[s][h].kind = "unchanged" /\ u \in RowAt(s, h)
  <2>1. card[s][h] # None
    BY <1>1, <1>2 DEF AllExact, Exact
  <2>2. card[s][h] = [uid |-> u, body |-> rows[u].body]
    BY <1>1, <1>2, UnreadCard
  <2> QED BY <1>1, <2>1, <2>2 DEF CardsOf
<1>3. CASE Readable(s, h) /\ snap[s][h].card.uid = u
  <2>1. card[s][h] # None /\ card[s][h] = snap[s][h].card
    BY <1>1, <1>3 DEF AllExact, Exact, Readable
  <2> QED BY <1>1, <1>3, <2>1 DEF CardsOf
<1> QED BY <1>2, <1>3 DEF Appearances

\* Every card of a contact is one the plan looks at, or one it leaves failing.
LEMMA CardFound ==
    ASSUME IInv, TrueInv, AllExact, NEW s \in Side, NEW u \in Uid, NEW h \in CardsOf(s, u)
    PROVE  <<s, h>> \in PlanKeys \/ h \in Appearances(s, u)
<1>1. h \in Href /\ card[s][h] # None /\ card[s][h].uid = u
  BY DEF CardsOf
<1>2. snap[s][h].kind # "absent" /\ snap[s][h] \in Entry
  BY <1>1 DEF AllExact, Exact, IInv, TypeOK, ViewTypeOK
<1>3. CASE snap[s][h].kind = "unchanged"
  <2>1. PICK w \in RowAt(s, h) : TRUE
    BY <1>1, <1>3 DEF AllExact, Exact
  <2>2. card[s][h] = [uid |-> w, body |-> rows[w].body]
    BY <1>1, <1>3, <2>1, UnreadCard
  <2> QED BY <1>1, <1>3, <2>1, <2>2 DEF Appearances
<1>4. CASE Readable(s, h) /\ ~ UidChanged(s, h)
  <2>1. card[s][h] = snap[s][h].card
    BY <1>1, <1>4 DEF AllExact, Exact, Readable
  <2> QED BY <1>1, <1>4, <2>1 DEF Appearances
<1>5. CASE Opaque(s, h) \/ UidChanged(s, h)
  BY <1>1, <1>5, OpaqueKey
<1> QED BY <1>2, <1>3, <1>4, <1>5 DEF Entry, Readable, Opaque

\* A contact the plan holds is excused.
LEMMA HeldExcused ==
    ASSUME IInv, TrueInv, AllExact, NEW u \in HeldUids
    PROVE  Excused(u, PlanKeys)
<1>1. PICK s \in Side : u \in Blocked(s) \cup Duplicated(s)
  BY DEF HeldUids
<1>2. u \in Uid
  BY <1>1 DEF Blocked, Duplicated
<1>3. CASE u \in Blocked(s)
  <2>1. PICK h \in Href : \/ u \in RowAt(s, h) /\ (Opaque(s, h) \/ UidChanged(s, h))
                          \/ UidChanged(s, h) /\ snap[s][h].card.uid = u
    BY <1>3 DEF Blocked
  <2>2. <<s, h>> \in PlanKeys
    BY <2>1, OpaqueKey
  <2>3. CASE u \in RowAt(s, h)
    BY <2>2, <2>3 DEF RowAt, Excused
  <2>4. CASE UidChanged(s, h) /\ snap[s][h].card.uid = u
    <3>1. card[s][h] # None /\ card[s][h] = snap[s][h].card
      BY <2>4 DEF AllExact, Exact, UidChanged, Readable
    <3>2. h \in CardsOf(s, u)
      BY <2>4, <3>1 DEF CardsOf
    <3> QED BY <2>2, <3>2 DEF Excused
  <2> QED BY <2>1, <2>3, <2>4
<1>4. CASE u \in Duplicated(s)
  <2>1. PICK h \in Appearances(s, u) : TRUE
    BY <1>4 DEF Duplicated
  <2>2. <<s, h>> \in PlanKeys /\ h \in CardsOf(s, u)
    BY <1>2, <1>4, DuplicateKey, AppearanceIsCard
  <2> QED BY <2>2 DEF Excused
<1> QED BY <1>1, <1>3, <1>4

\* So is a row whose missing card may be one that was not read.
LEMMA DeferredExcused ==
    ASSUME AllExact, NEW u \in Synced, Deferred(u)
    PROVE  Excused(u, PlanKeys)
<1>1. PICK s \in Side : Uncertain(s)
  BY DEF Deferred
<1>2. PICK h \in Href : RowAt(s, h) = {} /\ (Opaque(s, h) \/ snap[s][h].kind = "unchanged")
  BY <1>1 DEF Uncertain
<1>3. snap[s][h].kind # "unchanged"
  BY <1>2 DEF AllExact, Exact
<1>4. <<s, h>> \in PlanKeys
  BY <1>2, <1>3, OpaqueKey
<1> QED BY <1>4 DEF Excused

\* A contact whose cards were both taken as unchanged is in sync.
LEMMA UnreadInSync ==
    ASSUME IInv, TrueInv, AllExact, NEW u \in Planned, BothHave(u, "unchanged")
    PROVE  InSync(u) \/ Excused(u, PlanKeys)
<1>1. u \in Uid /\ u \in Synced /\ u \notin HeldUids /\ rows[u] # None
  BY DEF Planned, Synced
<1> SUFFICES ASSUME ~ Excused(u, PlanKeys), NEW s \in Side
             PROVE  /\ CardsOf(s, u) = {rows[u].res[s].href}
                    /\ card[s][rows[u].res[s].href].body = rows[u].body
                    /\ ver[s][rows[u].res[s].href] = rows[u].res[s].etag
  BY <1>1 DEF InSync
<1> DEFINE h == Where(s, u)
<1>2. Appearances(s, u) # {} /\ snap[s][h].kind = "unchanged"
  BY <1>1, StatusSays DEF BothHave
<1>3. h \in Href /\ h \in Appearances(s, u) /\ u \in RowAt(s, h)
  BY <1>1, <1>2, WhereAppears DEF IInv, Appearances, Readable
<1>4. card[s][h] = [uid |-> u, body |-> rows[u].body] /\ ver[s][h] = rows[u].res[s].etag
  BY <1>2, <1>3, UnreadCard
<1>5. h = rows[u].res[s].href
  BY <1>3 DEF RowAt
<1>6. ASSUME NEW g \in CardsOf(s, u)
      PROVE  g = h
  <2>1. <<s, g>> \notin PlanKeys
    BY DEF Excused
  <2>2. g \in Appearances(s, u)
    BY <1>1, <2>1, CardFound
  <2>3. u \notin Blocked(s) /\ u \notin Duplicated(s)
    BY <1>1 DEF HeldUids
  <2> QED BY <1>1, <1>3, <2>2, <2>3 DEF Duplicated
<1>7. h \in CardsOf(s, u)
  BY <1>1, <1>3, AppearanceIsCard
<1> QED BY <1>4, <1>5, <1>6, <1>7

\* Every other decision is an operation.
LEMMA DecisionMade ==
    ASSUME IInv, pc = "plan", NEW u \in Planned, ~ BothHave(u, "unchanged")
    PROVE  \E op \in RowOps(u) : op.uid = u
<1>1. u \in Uid /\ u \in Synced /\ u \notin HeldUids
  BY DEF Planned, Synced
<1>2. \A s \in Side : Status(s, u) \in {"deleted", "unchanged", "same", "changed"}
  BY <1>1, StatusSays
<1>3. \A s \in Side : Status(s, u) # "unchanged"
  BY <1>2, UnreadTogether, Sides DEF BothHave
<1>4. CASE BothHave(u, "deleted")
  <2>1. [kind |-> "Forget", uid |-> u] \in Forgets(u)
    BY <1>1, <1>4 DEF Forgets, ForgetOp
  <2> QED BY <2>1 DEF RowOps
<1>5. CASE BothHave(u, "changed") /\ SameBodies(u)
  <2>1. RecordBoth("Refresh", u, BodyAt("icloud", u)) \in Refreshes(u)
    BY <1>5 DEF Refreshes
  <2> QED BY <2>1 DEF RowOps, RecordBoth
<1>6. CASE BothHave(u, "changed") /\ ~ SameBodies(u)
  <2>1. Overwrite("Conflict", u, Winner) \in SyncConflicts(u)
    BY <1>6 DEF SyncConflicts
  <2> QED BY <2>1 DEF RowOps, Overwrite
<1>7. CASE \E s \in Side : Status(s, u) = "changed" /\ Status(Other(s), u) = "deleted"
  <2>1. PICK s \in Side : Copy("Resurrect", u, s) \in Resurrections(u)
    BY <1>7 DEF Resurrections
  <2> QED BY <2>1 DEF RowOps, Copy
<1>8. CASE \E s \in Side : Status(s, u) = "changed" /\ Status(Other(s), u) = "same"
  <2>1. PICK s \in Side : Overwrite("Update", u, s) \in Updates(u)
    BY <1>8 DEF Updates
  <2> QED BY <2>1 DEF RowOps, Overwrite
<1>9. CASE \E s \in Side : Status(s, u) = "same" /\ Status(Other(s), u) = "deleted"
  <2>1. PICK s \in Side :
            [kind |-> "Delete", uid |-> u, to |-> s, target |-> Located(s, u)] \in Deletes(u)
    BY <1>9 DEF Deletes
  <2> QED BY <2>1 DEF RowOps
<1>10. CASE BothHave(u, "same")
  <2>1. RecordBoth("Refresh", u, rows[u].body) \in Refreshes(u)
    BY <1>10, Sides DEF Refreshes, BothHave
  <2> QED BY <2>1 DEF RowOps, RecordBoth
<1> QED
  BY <1>2, <1>3, <1>4, <1>5, <1>6, <1>7, <1>8, <1>9, <1>10, Sides DEF BothHave

\* A plan accounts for every contact.
LEMMA PlanAccounts ==
    ASSUME IInv, TrueInv, AllExact, pc = "plan", NEW u \in Uid
    PROVE  InSync(u) \/ Excused(u, PlanKeys) \/ \E op \in CycleOps : op.uid = u
<1>1. CASE u \in HeldUids
  BY <1>1, HeldExcused
<1>2. CASE u \notin HeldUids /\ u \in Synced /\ Deferred(u)
  BY <1>2, DeferredExcused
<1>3. CASE u \notin HeldUids /\ u \in Synced /\ ~ Deferred(u)
  <2>1. u \in Planned
    BY <1>3 DEF Planned
  <2>2. CASE BothHave(u, "unchanged")
    BY <2>1, <2>2, UnreadInSync
  <2>3. CASE ~ BothHave(u, "unchanged")
    BY <2>1, <2>3, DecisionMade DEF CycleOps
  <2> QED BY <2>2, <2>3
<1>4. CASE u \notin HeldUids /\ u \notin Synced
  <2>1. CASE \A s \in Side : CardsOf(s, u) = {}
    BY <1>4, <2>1 DEF InSync, Synced
  <2>2. CASE \E s \in Side : CardsOf(s, u) # {}
    <3>1. PICK s \in Side : \E h \in CardsOf(s, u) : TRUE
      BY <2>2
    <3>2. PICK h \in CardsOf(s, u) : TRUE
      BY <3>1
    <3>3. CASE <<s, h>> \in PlanKeys
      BY <3>3 DEF Excused
    <3>4. CASE h \in Appearances(s, u)
      <4>1. u \in Unsynced(s)
        BY <1>4, <3>4 DEF Unsynced
      <4>2. CASE u \in Unsynced(Other(s))
        <5>1. u \in Unsynced("icloud") \cap Unsynced("fastmail")
          BY <4>1, <4>2, Sides
        <5>2. \E op \in Adopts(u) : op.uid = u
          BY DEF Adopts, RecordBoth, Overwrite
        <5> QED BY <5>1, <5>2 DEF CycleOps, PairOps
      <4>3. CASE u \notin Unsynced(Other(s))
        <5>1. Copy("Create", u, s) \in PairOps
          BY <4>1, <4>3 DEF PairOps
        <5> QED BY <5>1 DEF CycleOps, Copy
      <4> QED BY <4>2, <4>3
    <3> QED BY <3>3, <3>4, CardFound
  <2> QED BY <2>1, <2>2
<1> QED BY <1>1, <1>2, <1>3, <1>4

\* Where a contact was read, its card is as it was read, and no other row's.
LEMMA ReadCard ==
    ASSUME IInv, TrueInv, AllExact, NEW s \in Side, NEW u \in Uid \ HeldUids,
           Appearances(s, u) # {}, snap[s][Where(s, u)].kind # "unchanged"
    PROVE  /\ card[s][Where(s, u)] = [uid |-> u, body |-> BodyAt(s, u)]
           /\ ver[s][Where(s, u)] = Located(s, u).etag
           /\ RowAt(s, Where(s, u)) \subseteq {u}
           /\ <<s, Where(s, u)>> \notin PlanKeys
           /\ \A h \in CardsOf(s, u) : h # Where(s, u) => <<s, h>> \in PlanKeys
<1> DEFINE h == Where(s, u)
<1>1. h \in Href /\ h \in Appearances(s, u) /\ Readable(s, h) /\ snap[s][h].card.uid = u /\ ~ UidChanged(s, h)
  BY WhereAppears DEF IInv, Appearances
<1>2. card[s][h] = snap[s][h].card /\ ver[s][h] = snap[s][h].etag /\ card[s][h] \in Card
  BY <1>1 DEF AllExact, Exact, Readable, IInv, TypeOK, BooksTypeOK
<1>3. card[s][h] = [uid |-> u, body |-> BodyAt(s, u)] /\ ver[s][h] = Located(s, u).etag
  BY <1>1, <1>2 DEF Card, BodyAt, Located
<1>4. RowAt(s, h) \subseteq {u}
  BY <1>1 DEF UidChanged
<1>5. u \notin Blocked(s) /\ u \notin Duplicated(s)
  BY DEF HeldUids
<1>6. ASSUME <<s, h>> \in PlanKeys
      PROVE  FALSE
  <2>1. PICK c \in ReadFailures : c.side = s /\ c.href = h
    BY <1>1, <1>6 DEF PlanKeys, Readable
  <2>2. PICK t \in Side : c \in UnreadableOn(t) \cup UidChangedOn(t) \cup DuplicatesOn(t)
    BY <2>1 DEF ReadFailures
  <2>3. CASE c \in UnreadableOn(t)
    BY <1>1, <2>1, <2>3 DEF UnreadableOn, Failing, Readable
  <2>4. CASE c \in UidChangedOn(t)
    BY <1>1, <2>1, <2>4 DEF UidChangedOn, Failing
  <2>5. CASE c \in DuplicatesOn(t)
    <3>1. PICK v \in Duplicated(t) : \E g \in Appearances(t, v) : c = Failing(t, g, v, listing[t][g])
      BY <2>5 DEF DuplicatesOn
    <3>2. h \in Appearances(s, v) /\ t = s
      BY <2>1, <3>1 DEF Failing
    <3>3. v = u
      BY <1>1, <3>2 DEF Appearances, Readable
    <3> QED BY <1>5, <3>1, <3>2, <3>3
  <2> QED BY <2>2, <2>3, <2>4, <2>5
<1>7. ASSUME NEW g \in CardsOf(s, u), g # h
      PROVE  <<s, g>> \in PlanKeys
  BY <1>1, <1>5, <1>7, CardFound DEF Duplicated
<1> QED BY <1>3, <1>4, <1>6, <1>7

\* A contact's card is where it is located.
LEMMA LocatedCard ==
    ASSUME IInv, TrueInv, AllExact, NEW s \in Side, NEW u \in Uid, Appearances(s, u) # {}
    PROVE  Located(s, u).href \in CardsOf(s, u)
<1>1. Where(s, u) \in Appearances(s, u)
  BY WhereAppears DEF IInv
<1> QED BY <1>1, AppearanceIsCard DEF Located

\* A copy and an overwrite are of a card of the contact.
LEMMA PushReady ==
    ASSUME IInv, TrueInv, AllExact, NEW s \in Side, NEW u \in Uid, NEW kind \in PushKinds,
           Appearances(s, u) # {}
    PROVE  /\ kind # "Conflict" => Ready(Copy(kind, u, s), PlanKeys)
           /\ Appearances(Other(s), u) # {} => Ready(Overwrite(kind, u, s), PlanKeys)
<1>1. Located(s, u).href \in CardsOf(s, u) /\ Other(Other(s)) = s /\ Other(s) \in Side
  BY LocatedCard, Sides
<1>2. kind \notin {"Adopt", "Refresh", "Forget", "Delete"}
  BY DEF PushKinds
<1>3. ASSUME kind # "Conflict"
      PROVE  Ready(Copy(kind, u, s), PlanKeys)
  <2> DEFINE op == Copy(kind, u, s)
  <2>1. op.kind = kind /\ op.uid = u /\ op.to = Other(s) /\ op.source = Located(s, u)
    BY DEF Copy
  <2> HIDE DEF op
  <2>2. Ready(op, PlanKeys)
    BY <1>1, <1>2, <1>3, <2>1 DEF Ready
  <2> QED BY <2>2 DEF op
<1>4. ASSUME Appearances(Other(s), u) # {}
      PROVE  Ready(Overwrite(kind, u, s), PlanKeys)
  <2> DEFINE op == Overwrite(kind, u, s)
  <2>1. /\ op.kind = kind /\ op.uid = u /\ op.to = Other(s) /\ op.source = Located(s, u)
        /\ op.target = Located(Other(s), u)
    BY DEF Overwrite
  <2>2. Located(Other(s), u).href \in CardsOf(Other(s), u)
    BY <1>1, <1>4, LocatedCard
  <2> HIDE DEF op
  <2>3. Ready(op, PlanKeys)
    BY <1>1, <1>2, <2>1, <2>2 DEF Ready
  <2> QED BY <2>3 DEF op
<1> QED BY <1>3, <1>4

\* A record is of cards that are as it says.
LEMMA RecordReady ==
    ASSUME IInv, TrueInv, AllExact, NEW u \in Uid \ HeldUids, NEW b, NEW kind \in {"Adopt", "Refresh"},
           \A s \in Side : /\ Appearances(s, u) # {}
                           /\ snap[s][Where(s, u)].kind # "unchanged"
                           /\ BodyAt(s, u) = b,
           kind = "Adopt" => u \notin Synced
    PROVE  Ready(RecordBoth(kind, u, b), PlanKeys)
<1> DEFINE op == RecordBoth(kind, u, b)
<1>1. op.kind = kind /\ op.uid = u /\ op.body = b /\ \A s \in Side : op.res[s] = Located(s, u)
  BY DEF RecordBoth
<1>2. \A s \in Side : op.res[s].href = Where(s, u)
  <2>1. \A s \in Side : Located(s, u).href = Where(s, u)
    BY DEF Located
  <2> QED BY <1>1, <2>1
<1>3. \A s \in Side :
          /\ card[s][op.res[s].href] = [uid |-> op.uid, body |-> op.body]
          /\ ver[s][op.res[s].href] = op.res[s].etag
          /\ RowAt(s, op.res[s].href) \subseteq {op.uid}
          /\ <<s, op.res[s].href>> \notin PlanKeys
          /\ \A h \in CardsOf(s, op.uid) : h # op.res[s].href => <<s, h>> \in PlanKeys
  BY <1>1, <1>2, ReadCard
<1>4. op.kind \in {"Adopt", "Refresh"} /\ (op.kind = "Adopt" => op.uid \notin Synced)
  BY <1>1
<1> HIDE DEF op
<1>5. Ready(op, PlanKeys)
  BY <1>3, <1>4 DEF Ready, PushKinds
<1> QED BY <1>5 DEF op

\* So with every operation of the plan.
LEMMA PlannedReady ==
    ASSUME IInv, TrueInv, AllExact, pc = "plan", NEW op \in CycleOps
    PROVE  Ready(op, PlanKeys)
<1>1. ASSUME NEW u, SameBodies(u)
      PROVE  \A s \in Side : BodyAt(s, u) = BodyAt("icloud", u)
  BY <1>1, Sides DEF SameBodies
<1>2. CASE op \in PairOps
  <2>1. CASE op \in UNION {Adopts(u) : u \in Unsynced("icloud") \cap Unsynced("fastmail")}
    <3>1. PICK u \in Unsynced("icloud") \cap Unsynced("fastmail") : op \in Adopts(u)
      BY <2>1
    <3>2. /\ u \in Uid \ HeldUids /\ u \notin Synced
          /\ \A s \in Side : Appearances(s, u) # {} /\ snap[s][Where(s, u)].kind # "unchanged"
      BY UnsyncedRead, Sides DEF IInv, Unsynced
    <3>3. CASE SameBodies(u)
      <4>1. op = RecordBoth("Adopt", u, BodyAt("icloud", u))
        BY <3>1, <3>3 DEF Adopts
      <4> QED BY <1>1, <3>2, <3>3, <4>1, RecordReady
    <3>4. CASE ~ SameBodies(u)
      <4>1. op = Overwrite("Conflict", u, Winner)
        BY <3>1, <3>4 DEF Adopts
      <4> QED BY <3>2, <4>1, PushReady, WinnerAssumption, Sides DEF PushKinds
    <3> QED BY <3>3, <3>4
  <2>2. CASE op \notin UNION {Adopts(u) : u \in Unsynced("icloud") \cap Unsynced("fastmail")}
    <3>1. PICK s \in Side, u \in Uid : u \in Unsynced(s) /\ op = Copy("Create", u, s)
      BY <1>2, <2>2 DEF PairOps, Unsynced
    <3> QED BY <3>1, PushReady DEF Unsynced, PushKinds
  <2> QED BY <2>1, <2>2
<1>3. CASE op \notin PairOps
  <2>1. PICK u \in Planned : op \in RowOps(u)
    BY <1>3 DEF CycleOps
  <2>2. u \in Uid \ HeldUids /\ u \in Synced
    BY DEF Planned, Synced
  <2>3. \A s \in Side :
          /\ Status(s, u) = "deleted" <=> Appearances(s, u) = {}
          /\ Status(s, u) = "unchanged" <=>
                 (Appearances(s, u) # {} /\ snap[s][Where(s, u)].kind = "unchanged")
          /\ Status(s, u) = "same" => BodyAt(s, u) = rows[u].body
    BY <2>2, StatusSays
  <2>4. CASE op \in Forgets(u)
    <3>1. op.kind = "Forget" /\ op.uid = u /\ \A s \in Side : Appearances(s, u) = {}
      BY <2>3, <2>4 DEF Forgets, ForgetOp, BothHave
    <3>2. \A s \in Side : \A h \in CardsOf(s, u) : <<s, h>> \in PlanKeys
      BY <2>2, <3>1, CardFound
    <3> QED BY <3>1, <3>2 DEF Ready, PushKinds
  <2>5. CASE op \in Deletes(u)
    <3>1. PICK s \in Side : /\ op = [kind |-> "Delete", uid |-> u, to |-> s, target |-> Located(s, u)]
                            /\ Status(s, u) \in {"same", "unchanged"}
      BY <2>5 DEF Deletes
    <3>2. op.kind = "Delete" /\ op.uid = u /\ op.to = s /\ op.target = Located(s, u)
      BY <3>1
    <3>3. Located(s, u).href \in CardsOf(s, u)
      BY <2>2, <2>3, <3>1, LocatedCard
    <3> QED BY <3>2, <3>3 DEF Ready, PushKinds
  <2>6. CASE op \in Refreshes(u)
    <3>1. CASE BothHave(u, "changed") /\ SameBodies(u)
      <4>1. op = RecordBoth("Refresh", u, BodyAt("icloud", u))
        BY <2>6, <3>1 DEF Refreshes
      <4>2. \A s \in Side : Appearances(s, u) # {} /\ snap[s][Where(s, u)].kind # "unchanged"
        BY <2>3, <3>1 DEF BothHave
      <4> QED BY <1>1, <2>2, <3>1, <4>1, <4>2, RecordReady
    <3>2. CASE ~ (BothHave(u, "changed") /\ SameBodies(u))
      <4>1. /\ op = RecordBoth("Refresh", u, rows[u].body)
            /\ \E s \in Side : Status(s, u) = "same"
            /\ \A s \in Side : Status(s, u) \in {"same", "unchanged"}
        BY <2>6, <3>2 DEF Refreshes
      <4>2. \A s \in Side : Status(s, u) = "same"
        BY <4>1, UnreadTogether, Sides
      <4>3. \A s \in Side : /\ Appearances(s, u) # {} /\ snap[s][Where(s, u)].kind # "unchanged"
                            /\ BodyAt(s, u) = rows[u].body
        BY <2>3, <4>2
      <4> QED BY <2>2, <4>1, <4>3, RecordReady
    <3> QED BY <3>1, <3>2
  <2>7. CASE op \in SyncConflicts(u)
    <3>1. op = Overwrite("Conflict", u, Winner) /\ BothHave(u, "changed")
      BY <2>7 DEF SyncConflicts
    <3>2. \A s \in Side : Appearances(s, u) # {}
      BY <2>3, <3>1 DEF BothHave
    <3> QED BY <2>2, <3>1, <3>2, PushReady, WinnerAssumption, Sides DEF PushKinds
  <2>8. CASE op \in Resurrections(u)
    <3>1. PICK s \in Side : op = Copy("Resurrect", u, s) /\ Status(s, u) = "changed"
      BY <2>8 DEF Resurrections
    <3> QED BY <2>2, <2>3, <3>1, PushReady DEF PushKinds
  <2>9. CASE op \in Updates(u)
    <3>1. PICK s \in Side : /\ op = Overwrite("Update", u, s)
                            /\ Status(s, u) = "changed" /\ Status(Other(s), u) = "same"
      BY <2>9 DEF Updates
    <3> QED BY <2>2, <2>3, <3>1, PushReady, Sides DEF PushKinds
  <2> QED BY <2>1, <2>4, <2>5, <2>6, <2>7, <2>8, <2>9 DEF RowOps
<1> QED BY <1>2, <1>3

\* Recording failures of cards makes them fail, and no other stops failing.
LEMMA RecordingGrows ==
    ASSUME NEW cards \in SUBSET FailedCard, NEW s \in Side, NEW h \in Href,
           failures[s][h] # None \/ \E c \in cards : c.side = s /\ c.href = h
    PROVE  Recorded(cards)[s][h] # None
<1>1. CASE \E c \in cards : c.side = s /\ c.href = h
  <2> DEFINE c == CHOOSE c \in cards : c.side = s /\ c.href = h
             f == [uid |-> c.uid, etag |-> c.etag, due |-> FALSE]
  <2>1. c \in FailedCard
    BY <1>1
  <2>2. f \in Failure
    BY <2>1 DEF FailedCard, Failure
  <2>3. Recorded(cards)[s][h] = f
    BY <1>1 DEF Recorded
  <2> QED BY <2>2, <2>3, NoRowAssumption
<1>2. CASE ~ \E c \in cards : c.side = s /\ c.href = h
  <2>1. Recorded(cards)[s][h] = failures[s][h]
    BY <1>2 DEF Recorded
  <2> QED BY <1>2, <2>1
<1> QED BY <1>1, <1>2

\* No other card starts to.
LEMMA RecordingOnly ==
    ASSUME NEW cards, NEW s \in Side, NEW h \in Href,
           ~ \E c \in cards : c.side = s /\ c.href = h
    PROVE  Recorded(cards)[s][h] = failures[s][h]
BY DEF Recorded

(***************************************************************************)
(* What each step leaves accounted for.                                    *)
(***************************************************************************)

\* Cards of a contact stay its cards, and it stays in sync, as long as nobody
\* writes them or its row.
LEMMA InSyncSame ==
    ASSUME UNCHANGED <<card, ver>>, NEW u, rows'[u] = rows[u]
    PROVE  /\ InSync(u)' = InSync(u)
           /\ \A s \in Side : CardsOf(s, u)' = CardsOf(s, u)
BY DEF InSync, CardsOf

\* An operation stays ready as long as its cards, its failures and the rows
\* at its hrefs allow.
LEMMA ReadyStep ==
    ASSUME UNCHANGED <<card, ver>>, NEW op \in Op, NEW keys, Ready(op, keys), keys \subseteq KeptKeys',
           op \in RecordOp => \A s \in Side : RowAt(s, op.res[s].href)' \subseteq {op.uid},
           op.kind = "Adopt" =>
              op.uid \notin Synced' /\ \A s \in Side : <<s, op.res[s].href>> \notin KeptKeys'
    PROVE  Ready(op, KeptKeys)'
<1>1. \A s \in Side : CardsOf(s, op.uid)' = CardsOf(s, op.uid)
  BY DEF CardsOf
<1>2. op.kind \in {"Adopt", "Refresh"} => op \in RecordOp
  BY DEF Op, PushOp, DeleteOp, ForgetOp, PushKinds
<1>3. CASE op.kind \in {"Adopt", "Refresh"}
  <2>1. ASSUME NEW s \in Side
        PROVE  /\ card'[s][op.res[s].href] = [uid |-> op.uid, body |-> op.body]
               /\ ver'[s][op.res[s].href] = op.res[s].etag
               /\ RowAt(s, op.res[s].href)' \subseteq {op.uid}
               /\ \A h \in CardsOf(s, op.uid)' : h # op.res[s].href => <<s, h>> \in KeptKeys'
    BY <1>1, <1>2, <1>3 DEF Ready
  <2> QED BY <1>3, <2>1 DEF Ready, PushKinds
<1>4. CASE op.kind = "Forget"
  BY <1>1, <1>4 DEF Ready, PushKinds
<1>5. CASE op.kind \in PushKinds
  <2>1. op.to \in Side /\ Other(op.to) \in Side
    BY <1>5, Sides DEF Op, PushOp, DeleteOp, RecordOp, ForgetOp, PushKinds
  <2> QED BY <1>1, <1>5, <2>1 DEF Ready, PushKinds
<1>6. CASE op.kind = "Delete"
  <2>1. op.to \in Side
    BY <1>6 DEF Op, PushOp, DeleteOp, RecordOp, ForgetOp, PushKinds
  <2> QED BY <1>1, <1>6, <2>1 DEF Ready, PushKinds
<1> QED BY <1>3, <1>4, <1>5, <1>6 DEF Op, PushOp, DeleteOp, RecordOp, ForgetOp

\* A plan leaves failing what it held and what it reports.
LEMMA PlanKeeps ==
    ASSUME IInv, AllExact, Plan, ~ MassDeletion(CycleOps)
    PROVE  KeptKeys' = PlanKeys
<1>1. /\ pc = "plan" /\ failures' = Recorded(ReadFailures) /\ UNCHANGED <<listing, snap>>
      /\ failed' = {<<c.side, c.href>> : c \in ReadFailures}
  BY DEF Plan, RecordFailures
<1>2. ReadFailures \in SUBSET FailedCard
  BY <1>1, ReadFailuresType
<1> SUFFICES ASSUME NEW s \in Side, NEW h \in Href
             PROVE  <<s, h>> \in KeptKeys' <=> <<s, h>> \in PlanKeys
  BY DEF KeptKeys, FailingKeys, PlanKeys
<1>3. <<s, h>> \in KeptKeys' <=>
          /\ failures'[s][h] # None
          /\ <<s, h>> \in failed' \/ (listing'[s][h] # 0 /\ snap'[s][h].kind = "held")
  BY DEF KeptKeys, FailingKeys, Outdated
<1>4. <<s, h>> \in failed' <=> \E c \in ReadFailures : c.side = s /\ c.href = h
  BY <1>1
<1>5. snap[s][h].kind = "held" => failures[s][h] # None /\ listing[s][h] # 0
  BY DEF AllExact, Exact
<1>6. <<s, h>> \in PlanKeys <=> (snap[s][h].kind = "held" \/ <<s, h>> \in failed')
  BY <1>4 DEF PlanKeys
<1>7. <<s, h>> \in PlanKeys => failures'[s][h] # None
  BY <1>1, <1>2, <1>4, <1>5, <1>6, RecordingGrows
<1> QED BY <1>1, <1>3, <1>5, <1>6, <1>7

\* A plan over what is there accounts for every contact.
LEMMA PlanAccounted ==
    ASSUME IInv, TrueInv, IdleInv, Plan, Running', Quiet'
    PROVE  Accounts'
<1>1. ~ MassDeletion(CycleOps)
  BY DEF Plan, EndCycle, Running, OpSteps
<1>2. /\ pc = "plan" /\ pc' = "apply" /\ todo' = CycleOps
      /\ UNCHANGED <<card, ver, sinceListed, rows>>
  BY <1>1 DEF Plan, Goto, RecordFailures, books
<1>3. AllExact
  BY <1>2 DEF Quiet, IdleInv, SnapExact, HasFetched, AllExact
<1>4. KeptKeys' = PlanKeys /\ Pending' = CycleOps /\ CycleOps \subseteq Op
  BY <1>1, <1>2, <1>3, PlanKeeps, CycleOpsSound DEF Pending, OpSteps
<1>5. ASSUME NEW op \in CycleOps
      PROVE  Ready(op, KeptKeys)'
  <2>1. Ready(op, PlanKeys) /\ op \in Op
    BY <1>2, <1>3, <1>4, PlannedReady
  <2>2. \A s \in Side : RowAt(s, op.res[s].href)' = RowAt(s, op.res[s].href)
    BY <1>2 DEF RowAt, Synced
  <2>3. op \in RecordOp => \A s \in Side : RowAt(s, op.res[s].href)' \subseteq {op.uid}
    BY <2>1, <2>2 DEF Ready, RecordOp
  <2>4. op.kind = "Adopt" =>
          op.uid \notin Synced' /\ \A s \in Side : <<s, op.res[s].href>> \notin KeptKeys'
    BY <1>2, <1>4, <2>1 DEF Ready, Synced
  <2> QED BY <1>2, <1>4, <2>1, <2>3, <2>4, ReadyStep
<1>6. ASSUME NEW u \in Uid
      PROVE  AccountedFor(u)'
  <2>1. InSync(u) \/ Excused(u, PlanKeys) \/ \E op \in CycleOps : op.uid = u
    BY <1>2, <1>3, PlanAccounts
  <2>2. InSync(u)' = InSync(u) /\ Synced' = Synced /\ \A s \in Side : CardsOf(s, u)' = CardsOf(s, u)
    BY <1>2, InSyncSame DEF Synced
  <2>3. Excused(u, PlanKeys) => Excused(u, KeptKeys)'
    BY <1>4, <2>2 DEF Excused
  <2> QED BY <1>4, <2>1, <2>2, <2>3 DEF AccountedFor
<1> QED BY <1>4, <1>5, <1>6 DEF Accounts

\* Steps within an operation that write nothing change nothing of that.
LEMMA AccountsSame ==
    ASSUME IInv, Accounts, Running, Quiet, Pending' = Pending,
           UNCHANGED <<card, ver, rows, failures, listing, snap, failed>>
    PROVE  Accounts'
<1>1. KeptKeys' = KeptKeys /\ Synced' = Synced
  BY DEF KeptKeys, FailingKeys, Outdated, Synced
<1>2. Pending \subseteq Op
  BY DEF IInv, TypeOK, Pending, Control
<1>3. ASSUME NEW op \in Pending
      PROVE  Ready(op, KeptKeys)'
  <2>1. Ready(op, KeptKeys) /\ op \in Op
    BY <1>2 DEF Accounts
  <2>2. \A s \in Side : RowAt(s, op.res[s].href)' = RowAt(s, op.res[s].href)
    BY DEF RowAt, Synced
  <2>3. op \in RecordOp => \A s \in Side : RowAt(s, op.res[s].href)' \subseteq {op.uid}
    BY <2>1, <2>2 DEF Ready, RecordOp
  <2> QED BY <1>1, <2>1, <2>3, ReadyStep DEF Ready
<1>4. ASSUME NEW u \in Uid
      PROVE  AccountedFor(u)'
  <2>1. AccountedFor(u)
    BY DEF Accounts
  <2>2. InSync(u)' = InSync(u) /\ \A s \in Side : CardsOf(s, u)' = CardsOf(s, u)
    BY InSyncSame
  <2> QED BY <1>1, <2>1, <2>2 DEF AccountedFor, Excused
<1> QED BY <1>3, <1>4 DEF Accounts

\* What an operation that failed before its write was accepted holds.
LEMMA FailedIsCard ==
    ASSUME NEW op \in PushOp \cup DeleteOp, NEW keys, Ready(op, keys)
    PROVE  /\ \A c \in FailedCards(op, None) : c.href \in CardsOf(c.side, op.uid)
           /\ \E c \in FailedCards(op, None) : c.side \in Side
<1>1. FailedCards(op, None) = {Failing(k[1], k[2].href, op.uid, k[2].etag) : k \in HeldBy(op)}
  BY DEF FailedCards, WrittenBy
<1>2. /\ \A k \in HeldBy(op) : k[2].href \in CardsOf(k[1], op.uid)
      /\ \E k \in HeldBy(op) : k[1] \in Side
  <2>1. CASE op.kind = "Delete"
    <3>1. HeldBy(op) = {<<op.to, op.target>>} /\ op.to \in Side
      BY <2>1 DEF HeldBy, PushOp, PushKinds, DeleteOp
    <3>2. op.target.href \in CardsOf(op.to, op.uid)
      BY <2>1 DEF Ready
    <3> QED BY <3>1, <3>2
  <2>2. CASE op.kind \in {"Create", "Resurrect", "Update"}
    <3>1. HeldBy(op) = {<<Other(op.to), op.source>>} /\ Other(op.to) \in Side
      BY <2>2, Sides DEF HeldBy, PushOp, DeleteOp
    <3>2. op.source.href \in CardsOf(Other(op.to), op.uid)
      BY <2>2 DEF Ready, PushKinds
    <3> QED BY <3>1, <3>2
  <2>3. CASE op.kind = "Conflict"
    <3>1. /\ <<Other(op.to), op.source>> \in HeldBy(op) /\ Other(op.to) \in Side
          /\ HeldBy(op) \subseteq {<<Other(op.to), op.source>>, <<op.to, op.target>>}
      BY <2>3, Sides DEF HeldBy, PushOp, DeleteOp
    <3>2. /\ op.source.href \in CardsOf(Other(op.to), op.uid)
          /\ op.target.href \in CardsOf(op.to, op.uid)
      BY <2>3 DEF Ready, PushKinds
    <3> QED BY <3>1, <3>2
  <2> QED BY <2>1, <2>2, <2>3 DEF PushOp, PushKinds, DeleteOp
<1>3. \A c \in FailedCards(op, None) : \E k \in HeldBy(op) : c.side = k[1] /\ c.href = k[2].href
  BY <1>1 DEF Failing
<1>4. \A k \in HeldBy(op) : Failing(k[1], k[2].href, op.uid, k[2].etag) \in FailedCards(op, None)
  BY <1>1
<1>5. \A k : Failing(k[1], k[2].href, op.uid, k[2].etag).side = k[1]
  BY DEF Failing
<1> QED BY <1>2, <1>3, <1>4, <1>5

\* An operation that fails while nothing changed leaves a card of its
\* contact failing, and spoils no other operation.
LEMMA FailAccounted ==
    ASSUME IInv, TrueInv, IdleInv, FailOp, pc \in {"put", "delete"}, Quiet
    PROVE  Accounts'
<1>1. /\ EndOp /\ UNCHANGED <<card, ver, sinceListed, rows, listing, snap>>
      /\ failures' = Recorded(FailedCards(cur, None))
      /\ failed' = failed \cup {<<c.side, c.href>> : c \in FailedCards(cur, None)}
  BY DEF FailOp, RecordFailures, EndOp, books, IdleInv, NothingWritten
<1>2. /\ pc \in OpSteps /\ cur \in PushOp \cup DeleteOp /\ cur \in Op /\ cur \in Pending
      /\ FailedCards(cur, None) \in SUBSET FailedCard
  <2>1. pc \in OpSteps /\ cur \in PushOp \cup DeleteOp
    BY DEF IInv, Control, OpSteps
  <2>2. cur \in Op /\ cur \in Pending
    BY <2>1 DEF IInv, Control, Pending
  <2> QED BY <2>1, <2>2, FailedCardsType
<1>3. /\ Pending' = todo /\ cur \notin todo /\ todo \subseteq Op /\ todo \subseteq Pending
      /\ Pending = todo \cup {cur}
  BY <1>1, <1>2, EndOpKeepsRest DEF Pending
<1>4. /\ \A op \in Pending : Ready(op, KeptKeys)
      /\ \A u \in Uid : AccountedFor(u)
  BY <1>2 DEF IdleInv, Accounts, Running
<1>5. /\ \A c \in FailedCards(cur, None) : c.href \in CardsOf(c.side, cur.uid)
      /\ \E c \in FailedCards(cur, None) : c.side \in Side
  BY <1>2, <1>4, FailedIsCard
<1>6. ASSUME NEW s \in Side, NEW h \in Href
      PROVE  <<s, h>> \in KeptKeys' <=>
                <<s, h>> \in KeptKeys \/ \E c \in FailedCards(cur, None) : c.side = s /\ c.href = h
  <2>1. /\ <<s, h>> \in KeptKeys <=>
              /\ failures[s][h] # None
              /\ <<s, h>> \in failed \/ (listing[s][h] # 0 /\ snap[s][h].kind = "held")
        /\ <<s, h>> \in KeptKeys' <=>
              /\ failures'[s][h] # None
              /\ <<s, h>> \in failed' \/ (listing'[s][h] # 0 /\ snap'[s][h].kind = "held")
    BY DEF KeptKeys, FailingKeys, Outdated
  <2>2. <<s, h>> \in failed' <=>
            <<s, h>> \in failed \/ \E c \in FailedCards(cur, None) : c.side = s /\ c.href = h
    BY <1>1
  <2>3. CASE \E c \in FailedCards(cur, None) : c.side = s /\ c.href = h
    BY <1>1, <1>2, <2>1, <2>2, <2>3, RecordingGrows
  <2>4. CASE ~ \E c \in FailedCards(cur, None) : c.side = s /\ c.href = h
    <3>1. failures'[s][h] = failures[s][h]
      BY <1>1, <2>4, RecordingOnly
    <3> QED BY <1>1, <2>1, <2>2, <2>4, <3>1
  <2> QED BY <2>3, <2>4
<1>7. KeptKeys \subseteq KeptKeys'
  BY <1>6 DEF KeptKeys, FailingKeys
<1>8. ASSUME NEW op \in todo
      PROVE  Ready(op, KeptKeys)'
  <2>1. Ready(op, KeptKeys) /\ op \in Op /\ op.uid # cur.uid
    BY <1>2, <1>3, <1>4 DEF IInv, OpsApart
  <2>2. \A s \in Side : RowAt(s, op.res[s].href)' = RowAt(s, op.res[s].href)
    BY <1>1 DEF RowAt, Synced
  <2>3. op \in RecordOp => \A s \in Side : RowAt(s, op.res[s].href)' \subseteq {op.uid}
    BY <2>1, <2>2 DEF Ready, RecordOp
  <2>4. ASSUME op.kind = "Adopt", NEW s \in Side
        PROVE  <<s, op.res[s].href>> \notin KeptKeys'
    <3>1. op \in RecordOp
      BY <2>1, <2>4 DEF Op, PushOp, DeleteOp, ForgetOp, PushKinds
    <3>2. /\ <<s, op.res[s].href>> \notin KeptKeys
          /\ card[s][op.res[s].href] = [uid |-> op.uid, body |-> op.body]
      BY <2>1, <2>4 DEF Ready
    <3>3. ~ \E c \in FailedCards(cur, None) : c.side = s /\ c.href = op.res[s].href
      BY <1>5, <2>1, <3>2 DEF CardsOf
    <3>4. op.res[s].href \in Href
      BY <3>1 DEF RecordOp, Resource
    <3> QED BY <1>6, <3>2, <3>3, <3>4
  <2>5. op.kind = "Adopt" => op.uid \notin Synced'
    BY <1>1, <2>1 DEF Ready, Synced
  <2> QED BY <1>1, <1>7, <2>1, <2>3, <2>4, <2>5, ReadyStep
<1>9. ASSUME NEW u \in Uid
      PROVE  AccountedFor(u)'
  <2>1. /\ InSync(u)' = InSync(u) /\ Synced' = Synced
        /\ \A s \in Side : CardsOf(s, u)' = CardsOf(s, u)
    BY <1>1, InSyncSame DEF Synced
  <2>2. CASE u = cur.uid
    <3>1. PICK c \in FailedCards(cur, None) : c.side \in Side
      BY <1>5
    <3>2. c.href \in CardsOf(c.side, u) /\ c.href \in Href
      BY <1>5, <2>2, <3>1 DEF CardsOf
    <3>3. <<c.side, c.href>> \in KeptKeys'
      BY <1>6, <3>1, <3>2
    <3> QED BY <2>1, <3>1, <3>2, <3>3 DEF AccountedFor, Excused
  <2>3. CASE u # cur.uid
    <3>1. AccountedFor(u)
      BY <1>4
    <3>2. Excused(u, KeptKeys) => Excused(u, KeptKeys)'
      BY <1>7, <2>1 DEF Excused
    <3>3. (\E op \in Pending : op.uid = u) => \E op \in Pending' : op.uid = u
      BY <1>3, <2>3
    <3> QED BY <2>1, <3>1, <3>2, <3>3 DEF AccountedFor
  <2> QED BY <2>2, <2>3
<1> QED BY <1>3, <1>8, <1>9 DEF Accounts

\* A record that is saved while nothing changed: its contact is in sync, or
\* another of its cards is failing; and no failure that counts is cleared.
LEMMA SaveRecords ==
    ASSUME IInv, TrueInv, IdleInv, Save, Quiet
    PROVE  /\ UNCHANGED <<card, ver, sinceListed, sinceStored>>
           /\ cur \in Pending /\ Ready(cur, KeptKeys) /\ cur \in RecordOp \cup ForgetOp
           /\ Resolves \cap KeptKeys = {} /\ failures' = Cleared(Resolves)
           /\ KeptKeys' = KeptKeys
           /\ \A u \in Uid : u # cur.uid => rows'[u] = rows[u]
           /\ \A u \in Uid : u = cur.uid =>
                 /\ u \in Synced' => cur \in RecordOp /\ rows'[u].res = cur.res
                 /\ InSync(u)' \/ Excused(u, KeptKeys)'
<1>1. /\ pc = "save" /\ EndOp /\ UNCHANGED <<books, failed>>
      /\ \/ Drops /\ DropState(cur.uid, Resolves)
         \/ ~ Drops /\ WriteState(cur.uid, RowAfter, cur.body, Resolves)
  BY DEF Save
<1>2. pc \in OpSteps /\ cur \in Op /\ cur \in Pending
  BY <1>1 DEF IInv, Control, Pending, OpSteps
<1>3. Ready(cur, KeptKeys) /\ cur.kind \in {"Adopt", "Refresh", "Forget"}
  BY <1>1, <1>2 DEF IdleInv, Accounts, QuietStep, Running
<1>4. cur \in RecordOp \cup ForgetOp /\ cur.uid \in Uid
  BY <1>2, <1>3 DEF Op, PushOp, PushKinds, DeleteOp, RecordOp, ForgetOp
<1>5. UNCHANGED <<card, ver, sinceListed, sinceStored, failed, listing, snap>>
  BY <1>1 DEF books, EndOp
<1>6. failures' = Cleared(Resolves) /\ rows \in [Uid -> Row \cup {None}]
  BY <1>1 DEF DropState, WriteState, IInv, TypeOK, StoreTypeOK
<1>7. Resolves \cap KeptKeys = {}
  <2>1. CASE cur.kind = "Adopt"
    <3>1. Resolves = {<<s, cur.res[s].href>> : s \in Side}
      BY <2>1 DEF Resolves
    <3> QED BY <1>3, <2>1, <3>1 DEF Ready
  <2>2. CASE cur.kind \in {"Refresh", "Forget"}
    <3>1. Resolves = {}
      BY <2>2 DEF Resolves
    <3> QED BY <3>1
  <2> QED BY <1>3, <2>1, <2>2
<1>8. KeptKeys' = KeptKeys
  <2> SUFFICES ASSUME NEW s \in Side, NEW h \in Href
               PROVE  <<s, h>> \in KeptKeys' <=> <<s, h>> \in KeptKeys
    BY DEF KeptKeys, FailingKeys
  <2>1. /\ <<s, h>> \in KeptKeys <=>
              /\ failures[s][h] # None
              /\ <<s, h>> \in failed \/ (listing[s][h] # 0 /\ snap[s][h].kind = "held")
        /\ <<s, h>> \in KeptKeys' <=>
              /\ failures'[s][h] # None
              /\ <<s, h>> \in failed' \/ (listing'[s][h] # 0 /\ snap'[s][h].kind = "held")
    BY DEF KeptKeys, FailingKeys, Outdated
  <2>2. failures'[s][h] = IF <<s, h>> \in Resolves THEN None ELSE failures[s][h]
    BY <1>6 DEF Cleared
  <2>3. CASE <<s, h>> \in Resolves
    BY <1>7, <2>1, <2>2, <2>3
  <2>4. CASE <<s, h>> \notin Resolves
    BY <1>5, <2>1, <2>2, <2>4
  <2> QED BY <2>3, <2>4
<1>9. \A u \in Uid : u # cur.uid => rows'[u] = rows[u]
  BY <1>1, <1>6 DEF DropState, WriteState
<1>10. ASSUME NEW u \in Uid, u = cur.uid
       PROVE  /\ u \in Synced' => cur \in RecordOp /\ rows'[u].res = cur.res
              /\ InSync(u)' \/ Excused(u, KeptKeys)'
  <2>1. \A s \in Side : CardsOf(s, u)' = CardsOf(s, u)
    BY <1>5 DEF CardsOf
  <2>2. CASE cur.kind = "Forget"
    <3>1. rows'[u] = None
      BY <1>1, <1>6, <1>10, <2>2 DEF DropState, Drops
    <3>2. \A s \in Side : \A h \in CardsOf(s, u) : <<s, h>> \in KeptKeys
      BY <1>3, <1>10, <2>2 DEF Ready
    <3>3. CASE \A s \in Side : CardsOf(s, u) = {}
      BY <2>1, <3>1, <3>3 DEF InSync, Synced
    <3>4. CASE \E s \in Side : CardsOf(s, u) # {}
      BY <1>8, <2>1, <3>1, <3>2, <3>4 DEF Excused, Synced
    <3> QED BY <3>3, <3>4
  <2>3. CASE cur.kind \in {"Adopt", "Refresh"}
    <3> DEFINE row == [res |-> cur.res, body |-> cur.body]
    <3>1. cur \in RecordOp
      BY <1>4, <2>3 DEF ForgetOp
    <3>2. rows'[u] = row
      BY <1>1, <1>6, <1>10, <2>3 DEF WriteState, Drops, RowAfter, PushKinds
    <3>3. row \in Row
      BY <3>1 DEF RecordOp, Row
    <3>4. rows'[u] # None /\ rows'[u].res = cur.res /\ rows'[u].body = cur.body
      BY <3>2, <3>3, NoRowAssumption
    <3>5. \A s \in Side :
            /\ card[s][cur.res[s].href] = [uid |-> u, body |-> cur.body]
            /\ ver[s][cur.res[s].href] = cur.res[s].etag
            /\ \A h \in CardsOf(s, u) : h # cur.res[s].href => <<s, h>> \in KeptKeys
      BY <1>3, <1>10, <2>3 DEF Ready
    <3>6. CASE \E s \in Side : \E h \in CardsOf(s, u) : h # cur.res[s].href
      BY <1>8, <2>1, <3>1, <3>4, <3>5, <3>6 DEF Excused
    <3>7. CASE ~ \E s \in Side : \E h \in CardsOf(s, u) : h # cur.res[s].href
      <4>1. ASSUME NEW s \in Side
            PROVE  /\ CardsOf(s, u) = {cur.res[s].href}
                   /\ card[s][cur.res[s].href].body = cur.body
        <5>1. [uid |-> u, body |-> cur.body] \in Card
          BY <3>1 DEF RecordOp, Card
        <5>2. cur.res[s].href \in Href
          BY <3>1 DEF RecordOp, Resource
        <5>3. cur.res[s].href \in CardsOf(s, u)
          BY <3>5, <5>1, <5>2, NoneAssumption DEF CardsOf
        <5> QED BY <3>5, <3>7, <5>3
      <4>2. InSync(u)'
        BY <1>5, <2>1, <3>4, <3>5, <4>1 DEF InSync
      <4> QED BY <3>1, <3>4, <4>2
    <3> QED BY <3>6, <3>7
  <2> QED BY <1>3, <2>2, <2>3
<1> QED BY <1>2, <1>3, <1>4, <1>5, <1>6, <1>7, <1>8, <1>9, <1>10

\* The other operations stay ready, and the other contacts accounted for.
LEMMA SaveAccounted ==
    ASSUME IInv, TrueInv, IdleInv, Save, Quiet
    PROVE  Accounts'
<1>1. /\ UNCHANGED <<card, ver, sinceListed, sinceStored>>
      /\ cur \in Pending /\ Ready(cur, KeptKeys) /\ KeptKeys' = KeptKeys
      /\ \A u \in Uid : u # cur.uid => rows'[u] = rows[u]
      /\ \A u \in Uid : u = cur.uid =>
            /\ u \in Synced' => cur \in RecordOp /\ rows'[u].res = cur.res
            /\ InSync(u)' \/ Excused(u, KeptKeys)'
  BY SaveRecords
<1>2. pc \in OpSteps /\ EndOp
  BY DEF Save, OpSteps
<1>3. /\ Pending' = todo /\ cur \notin todo /\ todo \subseteq Op /\ todo \subseteq Pending
      /\ Pending = todo \cup {cur}
  BY <1>2, EndOpKeepsRest DEF Pending
<1>4. /\ \A op \in Pending : Ready(op, KeptKeys)
      /\ \A u \in Uid : AccountedFor(u)
  BY <1>2 DEF IdleInv, Accounts, Running
<1>5. ASSUME NEW op \in todo
      PROVE  Ready(op, KeptKeys)'
  <2>1. Ready(op, KeptKeys) /\ op \in Op /\ op.uid # cur.uid /\ op.uid \in Uid
    BY <1>1, <1>3, <1>4 DEF IInv, OpsApart, Op, PushOp, DeleteOp, RecordOp, ForgetOp
  <2>2. ASSUME op \in RecordOp, NEW s \in Side, NEW w \in RowAt(s, op.res[s].href)'
        PROVE  w = op.uid
    <3>1. w \in Uid /\ w \in Synced' /\ rows'[w].res[s].href = op.res[s].href
      BY DEF RowAt, Synced
    <3>2. /\ card[s][op.res[s].href] = [uid |-> op.uid, body |-> op.body]
          /\ RowAt(s, op.res[s].href) \subseteq {op.uid}
      BY <2>1, <2>2 DEF Ready, RecordOp
    <3>3. CASE w = cur.uid
      <4>1. cur \in RecordOp /\ cur.res[s].href = op.res[s].href
        BY <1>1, <3>1, <3>3
      <4>2. card[s][cur.res[s].href] = [uid |-> cur.uid, body |-> cur.body]
        BY <1>1, <4>1 DEF Ready, RecordOp
      <4> QED BY <2>1, <3>2, <4>1, <4>2
    <3>4. CASE w # cur.uid
      <4>1. w \in RowAt(s, op.res[s].href)
        BY <1>1, <3>1, <3>4 DEF RowAt, Synced
      <4> QED BY <3>2, <4>1
    <3> QED BY <3>3, <3>4
  <2>3. op.kind = "Adopt" =>
          op.uid \notin Synced' /\ \A s \in Side : <<s, op.res[s].href>> \notin KeptKeys'
    BY <1>1, <2>1 DEF Ready, Synced
  <2> QED BY <1>1, <2>1, <2>2, <2>3, ReadyStep
<1>6. ASSUME NEW u \in Uid
      PROVE  AccountedFor(u)'
  <2>1. CASE u = cur.uid
    BY <1>1, <2>1 DEF AccountedFor
  <2>2. CASE u # cur.uid
    <3>1. rows'[u] = rows[u] /\ AccountedFor(u)
      BY <1>1, <1>4, <2>2
    <3>2. /\ InSync(u)' = InSync(u) /\ (u \in Synced' <=> u \in Synced)
          /\ \A s \in Side : CardsOf(s, u)' = CardsOf(s, u)
      BY <1>1, <3>1, InSyncSame DEF Synced
    <3>3. Excused(u, KeptKeys) => Excused(u, KeptKeys)'
      BY <1>1, <3>2 DEF Excused
    <3>4. (\E op \in Pending : op.uid = u) => \E op \in Pending' : op.uid = u
      BY <1>3, <2>2
    <3> QED BY <3>1, <3>2, <3>3, <3>4 DEF AccountedFor
  <2> QED BY <2>1, <2>2
<1> QED BY <1>3, <1>5, <1>6 DEF Accounts

\* With current tokens, a record settles its contact and unsettles no other.
LEMMA SaveSettled ==
    ASSUME IInv, TrueInv, IdleInv, Save, Current
    PROVE  Settled'
<1>1. Quiet
  BY DEF IdleInv, BooksSane, Current, Quiet
<1>2. /\ UNCHANGED <<card, ver, sinceListed, sinceStored>>
      /\ cur \in Pending /\ Ready(cur, KeptKeys) /\ cur \in RecordOp \cup ForgetOp
      /\ failures' = Cleared(Resolves) /\ KeptKeys' = KeptKeys
      /\ \A u \in Uid : u # cur.uid => rows'[u] = rows[u]
      /\ \A u \in Uid : u = cur.uid => InSync(u)' \/ Excused(u, KeptKeys)'
  BY <1>1, SaveRecords
<1>3. KeptKeys' \subseteq FailingKeys'
  BY DEF KeptKeys
<1>4. \A s \in Side, h \in Href :
          <<s, h>> \in FailingKeys' <=> <<s, h>> \in FailingKeys /\ <<s, h>> \notin Resolves
  BY <1>2 DEF Cleared, FailingKeys
<1>5. pc \in OpSteps /\ Running
  BY DEF Save, OpSteps, Running
<1> SUFFICES ASSUME NEW u \in Uid PROVE InSync(u)' \/ Excused(u, FailingKeys)'
  BY DEF Settled
<1>6. CASE u = cur.uid
  BY <1>2, <1>3, <1>6 DEF Excused
<1>7. CASE u # cur.uid
  <2>1. rows'[u] = rows[u] /\ (InSync(u) \/ Excused(u, FailingKeys))
    BY <1>2, <1>7 DEF IdleInv, Settled
  <2>2. /\ InSync(u)' = InSync(u) /\ (u \in Synced' <=> u \in Synced)
        /\ \A s \in Side : CardsOf(s, u)' = CardsOf(s, u)
    BY <1>2, <2>1, InSyncSame DEF Synced
  <2>3. CASE InSync(u)
    BY <2>2, <2>3
  <2>4. CASE \E s \in Side : \E h \in CardsOf(s, u) : <<s, h>> \in FailingKeys
    <3>1. PICK s \in Side : \E h \in CardsOf(s, u) : <<s, h>> \in FailingKeys
      BY <2>4
    <3>2. PICK h \in CardsOf(s, u) : <<s, h>> \in FailingKeys
      BY <3>1
    <3>3. h \in Href /\ card[s][h].uid = u
      BY DEF CardsOf
    <3>4. <<s, h>> \notin Resolves
      <4>1. CASE cur.kind = "Adopt"
        <5>1. Resolves = {<<t, cur.res[t].href>> : t \in Side}
          BY <4>1 DEF Resolves
        <5>2. \A t \in Side : card[t][cur.res[t].href] = [uid |-> cur.uid, body |-> cur.body]
          BY <1>2, <4>1 DEF Ready
        <5> QED BY <1>7, <3>3, <5>1, <5>2
      <4>2. CASE cur.kind \in {"Refresh", "Forget"}
        BY <4>2 DEF Resolves
      <4> QED BY <1>2, <4>1, <4>2 DEF RecordOp, ForgetOp
    <3>5. <<s, h>> \in FailingKeys'
      BY <1>4, <3>2, <3>3, <3>4
    <3> QED BY <2>2, <3>2, <3>5 DEF Excused
  <2>5. CASE u \in Synced /\ FailingKeys # {}
    <3>1. CASE cur.kind \in {"Refresh", "Forget"}
      <4>1. Resolves = {}
        BY <3>1 DEF Resolves
      <4>2. PICK k \in FailingKeys : TRUE
        BY <2>5
      <4>3. PICK s \in Side, h \in Href : k = <<s, h>>
        BY DEF FailingKeys
      <4>4. k \in FailingKeys'
        BY <1>4, <4>1, <4>2, <4>3
      <4> QED BY <2>2, <2>5, <4>4 DEF Excused
    <3>2. CASE cur.kind = "Adopt"
      <4>1. AccountedFor(u)
        BY <1>1, <1>5 DEF IdleInv, Accounts
      <4>2. CASE Excused(u, KeptKeys)
        BY <1>2, <1>3, <2>2, <4>2 DEF Excused
      <4>3. CASE \E op \in Pending : op.uid = u
        <5>1. \E op \in todo : op.uid = u
          BY <1>7, <4>3 DEF Pending
        <5>2. \A op \in todo : op.uid \notin Synced
          BY <1>1, <1>5, <3>2 DEF IdleInv, QuietStep
        <5> QED BY <2>5, <5>1, <5>2
      <4> QED BY <2>3, <4>1, <4>2, <4>3 DEF AccountedFor
    <3> QED BY <1>2, <3>1, <3>2 DEF RecordOp, ForgetOp
  <2> QED BY <2>1, <2>3, <2>4, <2>5 DEF Excused
<1> QED BY <1>6, <1>7

\* A cycle that ends with nothing left to do stores tokens that cover only
\* what it settled.
LEMMA FinishSettled ==
    ASSUME IInv, IdleInv, Finish, Current'
    PROVE  Settled'
<1>1. /\ pc = "apply" /\ todo = {} /\ failures' = Cleared(Outdated)
      /\ UNCHANGED <<card, ver, rows>> /\ Quiet
  BY DEF Finish, Current, Quiet
<1>2. Pending = {} /\ Running
  BY <1>1 DEF Pending, OpSteps, Running
<1>3. \A s \in Side, h \in Href : <<s, h>> \in KeptKeys => <<s, h>> \in FailingKeys'
  BY <1>1 DEF KeptKeys, FailingKeys, Cleared
<1>4. KeptKeys \subseteq FailingKeys'
  BY <1>3 DEF KeptKeys, FailingKeys
<1> SUFFICES ASSUME NEW u \in Uid PROVE InSync(u)' \/ Excused(u, FailingKeys)'
  BY DEF Settled
<1>5. InSync(u) \/ Excused(u, KeptKeys)
  BY <1>1, <1>2 DEF IdleInv, Accounts, AccountedFor
<1>6. /\ InSync(u)' = InSync(u) /\ Synced' = Synced
      /\ \A s \in Side : CardsOf(s, u)' = CardsOf(s, u)
  BY <1>1, InSyncSame DEF Synced
<1> QED BY <1>4, <1>5, <1>6 DEF Excused

\* No other step writes a row or loses a failure.
LEMMA FailingStays ==
    ASSUME IInv, [Next]_vars, ~ Save, ~ Finish, ~ Reset
    PROVE  UNCHANGED rows /\ FailingKeys \subseteq FailingKeys'
<1>1. ASSUME UNCHANGED failures
      PROVE  FailingKeys \subseteq FailingKeys'
  BY <1>1 DEF FailingKeys
<1>2. ASSUME NEW cards \in SUBSET FailedCard, failures' = Recorded(cards)
      PROVE  FailingKeys \subseteq FailingKeys'
  BY <1>2, RecordingGrows DEF FailingKeys
<1>3. CASE UserEdit \/ UserDelete \/ UNCHANGED vars
  BY <1>1, <1>3 DEF UserEdit, UserDelete, MayEdit, vars, store
<1>4. CASE \E s \in Side, h \in Href : BackoffPasses(s, h)
  <2>1. PICK s \in Side, h \in Href : BackoffPasses(s, h)
    BY <1>4
  <2>2. UNCHANGED rows /\ failures' = [failures EXCEPT ![s][h].due = TRUE]
    BY <2>1 DEF BackoffPasses
  <2>3. failures \in [Side -> [Href -> Failure \cup {None}]] /\ failures[s][h] \in Failure
    BY <2>1 DEF BackoffPasses, IInv, TypeOK, StoreTypeOK
  <2>4. [failures[s][h] EXCEPT !.due = TRUE] # None
    BY <2>3, NoRowAssumption DEF Failure
  <2>5. \A t \in Side, g \in Href : failures[t][g] # None => failures'[t][g] # None
    BY <2>2, <2>3, <2>4
  <2> QED BY <2>2, <2>5 DEF FailingKeys
<1>5. CASE Wake \/ CheckDelta \/ List \/ Fetch \/ StartOp \/ Put \/ ReadBack \/ Delete
  BY <1>1, <1>5 DEF Wake, CheckDelta, List, Fetch, StartOp, Put, ReadBack, Delete, store
<1>6. CASE Archive
  BY <1>1, <1>6 DEF Archive, RecordConflict
<1>7. CASE Plan
  <2>1. CASE MassDeletion(CycleOps)
    BY <1>1, <1>7, <2>1 DEF Plan, store
  <2>2. CASE ~ MassDeletion(CycleOps)
    <3>1. pc = "plan" /\ UNCHANGED rows /\ failures' = Recorded(ReadFailures)
      BY <1>7, <2>2 DEF Plan, RecordFailures
    <3> QED BY <1>2, <3>1, ReadFailuresType
  <2> QED BY <2>1, <2>2
<1>8. CASE Refused \/ Rejected \/ Unsent \/ AnswerLost
  <2>1. FailedCards(cur, wrote) \in SUBSET FailedCard
    <3>1. pc \in OpSteps
      BY <1>8 DEF Refused, Rejected, Unsent, AnswerLost, OpSteps
    <3> QED BY <3>1, FailedCardsType DEF IInv, TypeOK, Control
  <2>2. \/ UNCHANGED <<rows, failures>>
        \/ UNCHANGED rows /\ failures' = Recorded(FailedCards(cur, wrote))
    BY <1>8 DEF Refused, Rejected, FailOp, Unsent, AnswerLost, AbortCycle, RecordFailures, store
  <2> QED BY <1>1, <1>2, <2>1, <2>2
<1>9. CASE Crash \/ TokenInvalid
  BY <1>1, <1>9 DEF Crash, TokenInvalid, store
<1> QED BY <1>3, <1>4, <1>5, <1>6, <1>7, <1>8, <1>9 DEF Next, Daemon, Faulty

\* While the stored tokens are current, every contact is in sync or excused.
LEMMA NextSettled ==
    ASSUME IInv, TrueInv, IdleInv, [Next]_vars
    PROVE  Settled'
<1> SUFFICES ASSUME Current' PROVE Settled'
  BY DEF Settled
<1>1. ~ Reset
  BY Sides DEF Current, Reset
<1>2. CASE Finish
  BY <1>2, FinishSettled
<1>3. CASE ~ Finish
  <2>1. /\ Current
        /\ \A s \in Side : card'[s] = card[s] /\ ver'[s] = ver[s]
    BY <1>3, StillSide DEF Current
  <2>2. CASE Save
    BY <2>1, <2>2, SaveSettled
  <2>3. CASE ~ Save
    <3>1. UNCHANGED rows /\ FailingKeys \subseteq FailingKeys'
      BY <1>1, <1>3, <2>3, FailingStays
    <3>2. \A u \in Uid : InSync(u) \/ Excused(u, FailingKeys)
      BY <2>1 DEF IdleInv, Settled
    <3>3. \A u : InSync(u)' = InSync(u) /\ \A s \in Side : CardsOf(s, u)' = CardsOf(s, u)
      BY <2>1, <3>1 DEF InSync, CardsOf
    <3>4. Synced' = Synced
      BY <3>1 DEF Synced
    <3> QED BY <3>1, <3>2, <3>3, <3>4 DEF Settled, Excused
  <2> QED BY <2>2, <2>3
<1> QED BY <1>2, <1>3

\* Whoever changes a side shows it.
LEMMA TouchShows ==
    ASSUME IInv, NEW s \in Side, Touch(s)
    PROVE  ~ Quiet'
BY DEF IInv, TypeOK, BooksTypeOK, Touch, Quiet

\* What people do shows, and so does what an operation writes or removes.
LEMMA WritesShow ==
    ASSUME IInv
    PROVE  /\ UserEdit \/ UserDelete => ~ Quiet'
           /\ pc = "put" /\ Write(cur.to, cur.target.href, Pushed) => ~ Quiet'
           /\ pc = "delete" /\ Remove(cur.to, cur.target.href) => ~ Quiet'
<1>1. ASSUME UserEdit PROVE ~ Quiet'
  <2>1. PICK s \in Side, h \in Href, u \in Uid, b \in EditBodies :
            Write(s, h, [uid |-> u, body |-> b])
    BY <1>1 DEF UserEdit, UserWrites
  <2> QED BY <2>1, TouchShows DEF Write
<1>2. ASSUME UserDelete PROVE ~ Quiet'
  BY <1>2, TouchShows DEF UserDelete, UserDeletes, Remove
<1>3. ASSUME pc = "put", Write(cur.to, cur.target.href, Pushed) PROVE ~ Quiet'
  <2>1. cur.to \in Side
    BY <1>3 DEF IInv, Control, PushOp
  <2> QED BY <1>3, <2>1, TouchShows DEF Write
<1>4. ASSUME pc = "delete", Remove(cur.to, cur.target.href) PROVE ~ Quiet'
  <2>1. cur.to \in Side
    BY <1>4 DEF IInv, Control, DeleteOp
  <2> QED BY <1>4, <2>1, TouchShows DEF Remove
<1> QED BY <1>1, <1>2, <1>3, <1>4

\* While nothing changed, nothing written is read back, no card that is to be
\* deleted is gone already, and no record meets another contact's href.
LEMMA QuietOp ==
    ASSUME IInv, IdleInv, Quiet, pc \in OpSteps
    PROVE  /\ pc # "readback"
           /\ pc = "delete" => card[cur.to][cur.target.href] # None
           /\ pc = "save" => Drops \/ ~ HrefTaken(cur.uid, RowAfter)
<1>1. pc \in {"readback", "save"} => cur.kind \in {"Adopt", "Refresh", "Forget"}
  BY DEF IdleInv, QuietStep
<1>2. Ready(cur, KeptKeys)
  BY DEF IdleInv, Accounts, Running, Pending
<1>3. pc # "readback"
  BY <1>1 DEF IInv, Control, PushOp, PushKinds
<1>4. ASSUME pc = "delete"
      PROVE  card[cur.to][cur.target.href] # None
  <2>1. cur.kind = "Delete"
    BY <1>4 DEF IInv, Control, DeleteOp
  <2> QED BY <1>2, <2>1 DEF Ready, CardsOf
<1>5. ASSUME pc = "save", ~ Drops, HrefTaken(cur.uid, RowAfter)
      PROVE  FALSE
  <2>1. cur.kind \in {"Adopt", "Refresh"}
    BY <1>1, <1>5 DEF Drops
  <2>2. RowAfter = cur.res
    BY <2>1 DEF RowAfter, PushKinds
  <2>3. PICK v \in Synced \ {cur.uid}, s \in Side : rows[v].res[s].href = cur.res[s].href
    BY <1>5, <2>2 DEF HrefTaken
  <2>4. v \in RowAt(s, cur.res[s].href)
    BY <2>3 DEF RowAt
  <2> QED BY <1>2, <2>1, <2>3, <2>4 DEF Ready
<1> QED BY <1>3, <1>4, <1>5

\* An operation that starts takes nothing away from what is pending.
LEMMA StartPending ==
    ASSUME IInv, StartOp
    PROVE  Pending' = Pending
<1>1. PICK op \in todo : todo' = todo \ {op} /\ cur' = op /\ pc' = FirstStep(op)
  BY DEF StartOp, Goto
<1>2. pc = "apply" /\ FirstStep(op) \in OpSteps
  BY DEF StartOp, FirstStep, OpSteps, PushKinds
<1>3. Pending = todo /\ Pending' = (todo \ {op}) \cup {op}
  BY <1>1, <1>2 DEF Pending, OpSteps
<1> QED BY <1>3

\* While operations run and nothing changed, every contact stays accounted
\* for: the state store takes what it is given.
LEMMA NextAccounts ==
    ASSUME IInv, TrueInv, IdleInv, [Next]_vars, "store" \notin Faults
    PROVE  Accounts'
<1> SUFFICES ASSUME Running', Quiet' PROVE Accounts'
  BY DEF Accounts
<1>1. CASE UserEdit \/ UserDelete
  BY <1>1, WritesShow
<1>2. CASE Plan
  BY <1>2, PlanAccounted
<1>3. CASE Wake \/ CheckDelta \/ List \/ Fetch \/ TokenInvalid
  BY <1>3 DEF Wake, CheckDelta, List, Fetch, TokenInvalid, Goto, Running, OpSteps
<1>4. CASE Finish \/ Crash \/ Unsent \/ AnswerLost
  BY <1>4 DEF Finish, Crash, Unsent, AnswerLost, AbortCycle, EndCycle, Running, OpSteps
<1>5. CASE Reset \/ \E s \in Side, h \in Href : BackoffPasses(s, h)
  BY <1>5 DEF Reset, BackoffPasses, cycle, Running, OpSteps
<1>6. CASE StartOp \/ Archive \/ Put \/ ReadBack \/ Delete \/ Save \/ Refused \/ Rejected \/ UNCHANGED vars
  <2>1. Quiet
    <3>1. ~ List
      BY <1>6 DEF StartOp, Archive, Put, ReadBack, Delete, Save, Refused, Rejected, List,
                  Running, OpSteps, Goto
    <3> QED BY <3>1, StillSide DEF Quiet
  <2>2. CASE StartOp
    <3>1. Running /\ UNCHANGED <<card, ver, rows, failures, listing, snap, failed>>
      BY <2>2 DEF StartOp, books, store, Running
    <3> QED BY <2>1, <2>2, <3>1, StartPending, AccountsSame DEF IdleInv
  <2>3. CASE Archive
    <3>1. /\ Running /\ Pending' = Pending
          /\ UNCHANGED <<card, ver, rows, failures, listing, snap, failed>>
      BY <2>3 DEF Archive, RecordConflict, Goto, books, Running, Pending, OpSteps
    <3> QED BY <2>1, <3>1, AccountsSame DEF IdleInv
  <2>4. CASE Put
    BY <2>4, WritesShow DEF Put
  <2>5. CASE ReadBack
    BY <2>1, <2>5, QuietOp DEF ReadBack, OpSteps
  <2>6. CASE Delete
    BY <2>1, <2>6, QuietOp, WritesShow DEF Delete, OpSteps
  <2>7. CASE Save
    BY <2>1, <2>7, SaveAccounted
  <2>8. CASE Refused \/ Rejected
    <3>1. FailOp /\ pc \in {"put", "delete"}
      BY <2>1, <2>8, QuietOp DEF Refused, Rejected, Fault, OpSteps
    <3> QED BY <2>1, <3>1, FailAccounted
  <2>9. CASE UNCHANGED vars
    <3>1. /\ Running /\ Pending' = Pending
          /\ UNCHANGED <<card, ver, rows, failures, listing, snap, failed>>
      BY <2>9 DEF vars, books, store, cycle, Running, Pending
    <3> QED BY <2>1, <3>1, AccountsSame DEF IdleInv
  <2> QED BY <1>6, <2>2, <2>3, <2>4, <2>5, <2>6, <2>7, <2>8, <2>9
<1> QED BY <1>1, <1>2, <1>3, <1>4, <1>5, <1>6 DEF Next, Daemon, Faulty

\* The operation that starts is of the lowest rank: rows' before pairs'.
LEMMA StartsQuiet ==
    ASSUME IInv, IdleInv, StartOp, Quiet
    PROVE  QuietStep'
<1>1. PICK op \in todo :
          /\ \A q \in todo : Rank(op) <= Rank(q)
          /\ todo' = todo \ {op} /\ cur' = op /\ pc' = FirstStep(op)
  BY DEF StartOp, Goto
<1>2. pc = "apply" /\ UNCHANGED rows
  BY DEF StartOp, store
<1>3. op \in Pending /\ op \in Op
  BY DEF IInv, TypeOK, Pending
<1>4. Ready(op, KeptKeys)
  BY <1>2, <1>3 DEF IdleInv, Accounts, Running
<1>5. pc' \in {"readback", "save"} => op.kind \in {"Adopt", "Refresh", "Forget"}
  BY <1>1, <1>3 DEF FirstStep, PushKinds, Op, PushOp, DeleteOp, RecordOp, ForgetOp
<1>6. ASSUME op.kind = "Adopt", NEW q \in todo
      PROVE  q.uid \notin Synced
  <2>1. Rank(op) = 2
    BY <1>4, <1>6 DEF Ready, Rank
  <2>2. Rank(op) <= Rank(q)
    BY <1>1
  <2>3. q.uid \in Synced => Rank(q) = 1
    BY DEF Rank
  <2> QED BY <2>1, <2>2, <2>3
<1>7. Synced' = Synced
  BY <1>2 DEF Synced
<1> QED BY <1>1, <1>5, <1>6, <1>7 DEF QuietStep

\* What runs while nothing changed only records.
LEMMA NextQuietStep ==
    ASSUME IInv, TrueInv, IdleInv, [Next]_vars
    PROVE  QuietStep'
<1> SUFFICES ASSUME pc' \in OpSteps, Quiet' PROVE QuietStep'
  BY DEF QuietStep
<1>1. CASE UserEdit \/ UserDelete
  BY <1>1, WritesShow
<1>2. CASE Wake \/ CheckDelta \/ List \/ Fetch \/ Plan \/ TokenInvalid
  BY <1>2 DEF Wake, CheckDelta, List, Fetch, Plan, EndCycle, TokenInvalid, Goto, OpSteps
<1>3. CASE Finish \/ Crash \/ Unsent \/ AnswerLost
  BY <1>3 DEF Finish, Crash, Unsent, AnswerLost, AbortCycle, EndCycle, OpSteps
<1>4. CASE Reset \/ \E s \in Side, h \in Href : BackoffPasses(s, h)
  BY <1>4 DEF Reset, BackoffPasses, cycle, OpSteps
<1>5. CASE Save \/ Refused \/ Rejected
  BY <1>5 DEF Save, Refused, Rejected, FailOp, EndOp, Goto, OpSteps
<1>6. CASE StartOp \/ Archive \/ Put \/ ReadBack \/ Delete \/ UNCHANGED vars
  <2>1. Quiet
    <3>1. ~ List
      BY <1>6 DEF StartOp, Archive, Put, ReadBack, Delete, List, OpSteps, Goto
    <3> QED BY <3>1, StillSide DEF Quiet
  <2>2. CASE StartOp
    BY <2>1, <2>2, StartsQuiet
  <2>3. CASE Archive
    BY <2>3 DEF Archive, Goto, IInv, Control, QuietStep
  <2>4. CASE Put
    BY <2>4, WritesShow DEF Put
  <2>5. CASE ReadBack
    BY <2>1, <2>5, QuietOp DEF ReadBack, OpSteps
  <2>6. CASE Delete
    BY <2>1, <2>6, QuietOp, WritesShow DEF Delete, OpSteps
  <2>7. CASE UNCHANGED vars
    <3>1. UNCHANGED <<pc, cur, todo, rows>>
      BY <2>7 DEF vars, cycle, store
    <3>2. Synced' = Synced
      BY <3>1 DEF Synced
    <3> QED BY <2>1, <3>1, <3>2 DEF IdleInv, QuietStep
  <2> QED BY <1>6, <2>2, <2>3, <2>4, <2>5, <2>6, <2>7
<1> QED BY <1>1, <1>2, <1>3, <1>4, <1>5, <1>6 DEF Next, Daemon, Faulty

\* A run starts with tokens that are not current, and nothing running.
LEMMA InitIdleInv == Init => IdleInv
<1> SUFFICES ASSUME Init PROVE IdleInv
  OBVIOUS
<1>1. pc = "wait" /\ wrote = None
      /\ (\A s \in Side : sinceStored[s] /\ sinceListed[s])
  BY DEF Init
<1>2. BooksSane
  BY <1>1 DEF Init, BooksSane
<1>3. ~ Current
  BY <1>1, Sides DEF Current
<1>4. ListedNow /\ SnapExact /\ NothingWritten /\ Accounts /\ QuietStep /\ Settled
  BY <1>1, <1>3 DEF ListedNow, HasListed, SnapExact, HasFetched, NothingWritten, Accounts,
                    Running, OpSteps, QuietStep, Settled
<1> QED BY <1>2, <1>4 DEF IdleInv

\* The three invariants together are kept by every step.
LEMMA NextIdleInv ==
    ASSUME EtagReplies = {TRUE} \/ ~ EditsInCycle, "store" \notin Faults
    PROVE  IInv /\ TrueInv /\ IdleInv /\ [Next]_vars => IInv' /\ TrueInv' /\ IdleInv'
<1> SUFFICES ASSUME IInv, TrueInv, IdleInv, [Next]_vars PROVE IInv' /\ TrueInv' /\ IdleInv'
  OBVIOUS
<1>1. IInv' /\ TrueInv'
  BY NextIInv, NextTrueInv
<1>2. BooksSane' /\ ListedNow' /\ SnapExact' /\ NothingWritten'
  BY NextBooksSane, NextListedNow, NextSnapExact, NextNothingWritten DEF IdleInv
<1>3. Accounts' /\ QuietStep' /\ Settled'
  BY NextAccounts, NextQuietStep, NextSettled
<1> QED BY <1>1, <1>2, <1>3 DEF IdleInv

\* A daemon that finds nothing new has nothing to do: when both tokens it
\* stored are current and no card is failing, every contact is in sync
\* (listing::idle, and finish, which stores the listing's tokens).  The rows
\* must be true of their cards, as for the echoes; and the state store must
\* take what it is given: a record it refuses is lost, the cycle ends all the
\* same, and its tokens skip the contact.
THEOREM IdleMeansInSync ==
    ASSUME EtagReplies = {TRUE} \/ ~ EditsInCycle, "store" \notin Faults
    PROVE  Spec => []IdleIsInSync
<1>1. Init => IInv /\ TrueInv /\ IdleInv
  BY InitIInv, InitTrueInv, InitIdleInv
<1>2. IInv /\ TrueInv /\ IdleInv /\ [Next]_vars => IInv' /\ TrueInv' /\ IdleInv'
  BY NextIdleInv
<1>3. ASSUME IdleInv
      PROVE  IdleIsInSync
  <2> SUFFICES ASSUME NoFailures, Current, NEW u \in Uid PROVE InSync(u)
    BY DEF IdleIsInSync, Current
  <2>1. FailingKeys = {}
    BY DEF NoFailures, FailingKeys
  <2> QED BY <1>3, <2>1 DEF IdleInv, Settled, Excused
<1> QED BY <1>1, <1>2, <1>3, PTL DEF Spec

(***************************************************************************)
(* Why no contact is copied beside itself.                                 *)
(***************************************************************************)

\* People edit iCloud only, between cycles, and write cards one can read;
\* servers return the ETag of what they stored; nothing is synced yet.  None is
\* no UID, and no written card.
Calm ==
    /\ None \notin Uid \cup Resource
    /\ Start = {} /\ EditSides \subseteq {"icloud"} /\ Unreadable \notin EditBodies
    /\ ~ UserCopies /\ ~ EditsInCycle /\ EtagReplies = {TRUE}

\* iCloud keeps each href for one contact.
AtHome(own) ==
    \A h \in Href : card["icloud"][h] # None => card["icloud"][h].uid = own[h]

\* An href of side s that is contact u's.
Place(own, s, h, u) == IF s = "fastmail" THEN h = Mint[u] ELSE own[h] = u

\* An ETag the side has given.
Dated(s, r) == 0 < r.etag /\ r.etag <= ver[s][r.href]

\* Whatever is u's is at one of its hrefs.
CardsPlaced(own, u) ==
    \A s \in Side : \A h \in CardsOf(s, u) : Place(own, s, h, u) /\ card[s][h].body # Unreadable

RowPlaced(own, u) ==
    rows[u] # None => \A s \in Side : Place(own, s, rows[u].res[s].href, u)

FailuresPlaced(own) ==
    \A s \in Side, h \in Href : failures[s][h] # None =>
        /\ failures[s][h].uid \in Uid /\ Place(own, s, h, failures[s][h].uid)
        /\ 0 < failures[s][h].etag /\ failures[s][h].etag <= ver[s][h]

Alone(u) == \A g, h \in CardsOf("icloud", u) : g = h

\* u has a card on Fastmail that no row knows.
Unrecorded(u) == rows[u] = None /\ card["fastmail"][Mint[u]] # None

\* The cards of u on iCloud that are held, and stay so if nobody edits them.
Stuck(u) ==
    {h \in CardsOf("icloud", u) :
        /\ failures["icloud"][h] # None /\ ~ failures["icloud"][h].due
        /\ failures["icloud"][h].etag = ver["icloud"][h]}

\* They are not held alone: the card that would be copied is held with them.
HeldTogether(u) ==
    (Unrecorded(u) /\ Stuck(u) # {}) => failures["fastmail"][Mint[u]] # None

\* Nor are they after the end of this cycle.
KeptTogether(u) ==
    (Unrecorded(u) /\ \E h \in Stuck(u) : <<"icloud", h>> \notin Outdated) =>
        <<"fastmail", Mint[u]>> \notin Outdated

\* The operation has not done its work yet.
Ahead(op) == op \in todo \/ pc # "save"

\* What an operation works on is its contact's.
OpPlaced(own, op) ==
    /\ op.kind \in PushKinds =>
          /\ op.body # Unreadable
          /\ Place(own, Other(op.to), op.source.href, op.uid) /\ Dated(Other(op.to), op.source)
    /\ op.kind \in {"Create", "Resurrect"} => op.target = Minted(op.uid)
    /\ op.kind \in {"Update", "Conflict", "Delete"} =>
          Place(own, op.to, op.target.href, op.uid) /\ Dated(op.to, op.target)
    /\ op.kind \in {"Adopt", "Refresh"} => \A s \in Side : Place(own, s, op.res[s].href, op.uid)

\* Which contacts it is for.
OpFits(op) ==
    /\ op.kind \in {"Create", "Adopt"} => rows[op.uid] = None
    /\ op.kind \in {"Resurrect", "Update", "Delete"} => rows[op.uid] # None

\* A copy to iCloud is of a contact that has no card there; a new copy to
\* Fastmail is of a card that is not held, and meets only a card that is; and a
\* row is dropped when Fastmail has no card.
OpAlone(op) ==
    /\ (Ahead(op) /\ op.kind \in {"Create", "Resurrect"} /\ op.to = "icloud") =>
          CardsOf("icloud", op.uid) = {}
    /\ (Ahead(op) /\ op.kind = "Create" /\ op.to = "fastmail") =>
          /\ Stuck(op.uid) = {}
          /\ card["fastmail"][Mint[op.uid]] # None =>
               /\ failures["fastmail"][Mint[op.uid]] # None
               /\ snap["fastmail"][Mint[op.uid]].kind = "held"
               /\ listing["fastmail"][Mint[op.uid]] # 0
    /\ (op.kind = "Forget" \/ (op.kind = "Delete" /\ (op.to = "icloud" \/ ~ Ahead(op)))) =>
          card["fastmail"][Mint[op.uid]] = None

Tame(own, op) == OpPlaced(own, op) /\ OpFits(op) /\ OpAlone(op)

\* What is known of one contact.
Cared(own, u) ==
    /\ CardsPlaced(own, u) /\ RowPlaced(own, u) /\ Alone(u) /\ HeldTogether(u)
    /\ Running => KeptTogether(u)
    /\ \A op \in Pending : op.uid = u => Tame(own, op)

\* What an operation wrote is where it was to write.
WroteThere(own) ==
    /\ pc # "readback"
    /\ pc # "save" => wrote = None
    /\ (pc = "save" /\ cur.kind \in PushKinds) =>
          /\ wrote.href = cur.target.href
          /\ Place(own, cur.to, wrote.href, cur.uid) /\ Dated(cur.to, wrote)

\* Nobody changes anything between the listing and the plan, so what is held
\* then are the cards whose failures say so.
ReadStill == \A s \in Side : HasListed(s) => ~ sinceListed[s]

SnapHeld ==
    \A s \in Side : HasFetched(s) =>
        \A h \in Listed(s) : snap[s][h].kind = "held" <=> h \in HeldHrefs(s)

Reading == BooksSane /\ ListedNow /\ SnapExact /\ ReadStill /\ SnapHeld

AInv(own) ==
    /\ Calm /\ IInv /\ TrueInv /\ Reading
    /\ FailuresPlaced(own) /\ WroteThere(own)
    /\ \A u \in Uid : Cared(own, u)

\* A card has one contact, and so has its href.
LEMMA OnePlace ==
    ASSUME NEW own, NEW s \in Side, NEW h \in Href, NEW u \in Uid, NEW v \in Uid,
           Place(own, s, h, u), Place(own, s, h, v)
    PROVE  u = v
BY MintAssumption DEF Place

\* On Fastmail a contact has one href.
LEMMA FastmailPlace ==
    ASSUME NEW own, NEW u
    PROVE  \A h : Place(own, "fastmail", h, u) <=> h = Mint[u]
BY DEF Place

LEMMA MintIsHref == \A u \in Uid : Mint[u] \in Href
BY MintAssumption

\* So no contact has two cards on a side.
LEMMA OneCard ==
    ASSUME NEW own, AInv(own), NEW u \in Uid, NEW s \in Side,
           NEW g \in CardsOf(s, u), NEW h \in CardsOf(s, u)
    PROVE  g = h
<1>1. Cared(own, u)
  BY DEF AInv
<1> QED BY <1>1 DEF Cared, Alone, CardsPlaced, Place, Side

\* What an operation on u's cards touches: u's hrefs, with u's cards and
\* failures, and u's row.
Touches(own, u) ==
    /\ \A s \in Side, h \in Href : ~ Place(own, s, h, u) =>
          /\ card'[s][h] = card[s][h] /\ ver'[s][h] = ver[s][h]
          /\ failures'[s][h] = failures[s][h]
          /\ Running' => (<<s, h>> \in failed <=> <<s, h>> \in failed')
    /\ \A s \in Side, h \in Href : Place(own, s, h, u) =>
          (card'[s][h] # None => card'[s][h].uid = u)
    /\ \A v \in Uid : v # u => rows'[v] = rows[v]

\* Others' hrefs are left alone.
LEMMA OthersPlaces ==
    ASSUME NEW own, NEW u \in Uid, Touches(own, u), NEW v \in Uid, v # u, NEW s \in Side,
           NEW h \in Href, Place(own, s, h, v)
    PROVE  /\ card'[s][h] = card[s][h] /\ ver'[s][h] = ver[s][h]
           /\ failures'[s][h] = failures[s][h]
           /\ Running' => (<<s, h>> \in failed <=> <<s, h>> \in failed')
<1>1. ~ Place(own, s, h, u)
  BY OnePlace
<1> QED BY <1>1 DEF Touches

\* Those on Fastmail too.
LEMMA OthersMinted ==
    ASSUME NEW own, NEW u \in Uid, Touches(own, u), NEW v \in Uid, v # u
    PROVE  /\ card'["fastmail"][Mint[v]] = card["fastmail"][Mint[v]]
           /\ failures'["fastmail"][Mint[v]] = failures["fastmail"][Mint[v]]
           /\ Running' => (<<"fastmail", Mint[v]>> \in failed <=> <<"fastmail", Mint[v]>> \in failed')
<1>1. "fastmail" \in Side /\ Mint[v] \in Href /\ Place(own, "fastmail", Mint[v], v)
  BY MintAssumption DEF Side, Place
<1> QED BY <1>1, OthersPlaces

\* And no card becomes theirs.
LEMMA OthersCards ==
    ASSUME NEW own, AInv(own), NEW u \in Uid, Touches(own, u), NEW v \in Uid, v # u, NEW s \in Side
    PROVE  /\ CardsOf(s, v)' = CardsOf(s, v)
           /\ \A h \in CardsOf(s, v) : h \in Href /\ Place(own, s, h, v)
<1>1. Cared(own, v)
  BY DEF AInv
<1>2. ASSUME NEW h \in CardsOf(s, v)
      PROVE  h \in Href /\ Place(own, s, h, v)
  BY <1>1 DEF Cared, CardsPlaced, CardsOf
<1>3. ASSUME NEW h \in Href
      PROVE  h \in CardsOf(s, v)' <=> h \in CardsOf(s, v)
  <2>1. CASE Place(own, s, h, u)
    <3>1. h \notin CardsOf(s, v)
      BY <1>2, <2>1, OnePlace
    <3>2. card'[s][h] # None => card'[s][h].uid = u
      BY <2>1 DEF Touches
    <3> QED BY <3>1, <3>2 DEF CardsOf
  <2>2. CASE ~ Place(own, s, h, u)
    <3>1. card'[s][h] = card[s][h]
      BY <2>2 DEF Touches
    <3> QED BY <3>1 DEF CardsOf
  <2> QED BY <2>1, <2>2
<1> QED BY <1>2, <1>3 DEF CardsOf

\* What is known of a pending operation of another contact stays true.
LEMMA OthersTame ==
    ASSUME NEW own, AInv(own), BooksStep, NEW u \in Uid, Touches(own, u), NEW v \in Uid, v # u,
           UNCHANGED <<listing, snap>>,
           NEW op \in todo, op \in todo', op.uid = v
    PROVE  Tame(own, op)'
<1>1. op \in Op /\ Tame(own, op)
  BY DEF AInv, Cared, Pending, IInv, TypeOK
<1>2. \A s \in Side, r \in Resource : Dated(s, r) => Dated(s, r)'
  <2>1. ASSUME NEW s \in Side, NEW r \in Resource, Dated(s, r)
        PROVE  Dated(s, r)'
    <3>1. r.href \in Href /\ r.etag \in Nat
      BY DEF Resource
    <3>2. ver[s][r.href] \in Nat /\ ver'[s][r.href] \in Nat /\ ver[s][r.href] <= ver'[s][r.href]
      BY <3>1 DEF BooksStep, AInv, IInv, TypeOK, BooksTypeOK
    <3> QED BY <2>1, <3>1, <3>2 DEF Dated
  <2> QED BY <2>1
<1>3. OpPlaced(own, op)'
  <2>1. CASE op.kind \in PushKinds
    <3>1. op.to \in Side /\ Other(op.to) \in Side /\ op.source \in Resource /\ op.target \in Resource
      BY <1>1, <2>1, Sides DEF Op, PushOp, DeleteOp, RecordOp, ForgetOp, PushKinds
    <3> QED BY <1>1, <1>2, <2>1, <3>1 DEF Tame, OpPlaced, Place, PushKinds, Minted
  <2>2. CASE op.kind = "Delete"
    <3>1. op.to \in Side /\ op.target \in Resource
      BY <1>1, <2>2 DEF Op, PushOp, DeleteOp, RecordOp, ForgetOp, PushKinds
    <3> QED BY <1>1, <1>2, <2>2, <3>1 DEF Tame, OpPlaced, Place, PushKinds
  <2>3. CASE op.kind \notin PushKinds \cup {"Delete"}
    BY <1>1, <2>3 DEF Tame, OpPlaced, Place, PushKinds
  <2> QED BY <2>1, <2>2, <2>3
<1>4. OpFits(op)'
  <2>1. rows'[v] = rows[v]
    BY DEF Touches
  <2> QED BY <1>1, <2>1 DEF Tame, OpFits
<1>5. Ahead(op) /\ Ahead(op)'
  BY DEF Ahead
<1>6. CardsOf("icloud", v)' = CardsOf("icloud", v) /\ Stuck(v)' = Stuck(v)
  <2>1. /\ CardsOf("icloud", v)' = CardsOf("icloud", v)
        /\ \A h \in CardsOf("icloud", v) : h \in Href /\ Place(own, "icloud", h, v)
    BY OthersCards DEF Side
  <2>2. \A h \in CardsOf("icloud", v) :
            ver'["icloud"][h] = ver["icloud"][h] /\ failures'["icloud"][h] = failures["icloud"][h]
    BY <2>1, OthersPlaces DEF Side
  <2> QED BY <2>1, <2>2 DEF Stuck
<1>7. /\ card'["fastmail"][Mint[v]] = card["fastmail"][Mint[v]]
      /\ failures'["fastmail"][Mint[v]] = failures["fastmail"][Mint[v]]
  BY OthersMinted
<1>8. OpAlone(op)'
  BY <1>1, <1>5, <1>6, <1>7 DEF Tame, OpAlone
<1> QED BY <1>3, <1>4, <1>8 DEF Tame

\* An operation on one contact leaves what is known of the others true.
LEMMA OthersCared ==
    ASSUME NEW own, AInv(own), BooksStep, NEW u \in Uid, Touches(own, u), NEW v \in Uid, v # u,
           Running' => Running /\ UNCHANGED <<listing, snap>>,
           \A op \in Pending' : op.uid = v => Running' /\ op \in todo /\ op \in todo'
    PROVE  Cared(own, v)'
<1>1. Cared(own, v)
  BY DEF AInv
<1>2. \A s \in Side : /\ CardsOf(s, v)' = CardsOf(s, v)
                      /\ \A h \in CardsOf(s, v) : h \in Href /\ Place(own, s, h, v)
  BY OthersCards
<1>3. \A s \in Side : \A h \in CardsOf(s, v) :
          /\ card'[s][h] = card[s][h] /\ ver'[s][h] = ver[s][h]
          /\ failures'[s][h] = failures[s][h]
          /\ Running' => (<<s, h>> \in failed <=> <<s, h>> \in failed')
  BY <1>2, OthersPlaces
<1>4. /\ card'["fastmail"][Mint[v]] = card["fastmail"][Mint[v]]
      /\ failures'["fastmail"][Mint[v]] = failures["fastmail"][Mint[v]]
      /\ Running' => (<<"fastmail", Mint[v]>> \in failed <=> <<"fastmail", Mint[v]>> \in failed')
  BY OthersMinted
<1>5. rows'[v] = rows[v]
  BY DEF Touches
<1>6. CardsPlaced(own, v)' /\ RowPlaced(own, v)' /\ Alone(v)'
  <2>1. CardsPlaced(own, v)'
    <3> SUFFICES ASSUME NEW s \in Side, NEW h \in CardsOf(s, v)'
                 PROVE  Place(own, s, h, v) /\ card'[s][h].body # Unreadable
      BY DEF CardsPlaced, Place
    <3>1. h \in CardsOf(s, v)
      BY <1>2
    <3> QED BY <1>1, <1>3, <3>1 DEF Cared, CardsPlaced
  <2>2. RowPlaced(own, v)'
    BY <1>5, <1>1 DEF Cared, RowPlaced, Place
  <2>3. Alone(v)'
    BY <1>2, <1>1 DEF Cared, Alone, Side
  <2> QED BY <2>1, <2>2, <2>3
<1>7. Stuck(v)' = Stuck(v) /\ Unrecorded(v)' = Unrecorded(v)
  <2>1. Stuck(v)' = Stuck(v)
    BY <1>2, <1>3 DEF Stuck, Side
  <2> QED BY <2>1, <1>4, <1>5 DEF Unrecorded
<1>8. HeldTogether(v)'
  BY <1>1, <1>4, <1>7 DEF Cared, HeldTogether
<1>9. ASSUME Running'
      PROVE  KeptTogether(v)'
  <2>1. UNCHANGED <<listing, snap>> /\ KeptTogether(v)
    BY <1>1, <1>9 DEF Cared
  <2>2. \A h \in Stuck(v) : <<"icloud", h>> \in Outdated => <<"icloud", h>> \in Outdated'
    BY <1>3, <1>9, <2>1 DEF Outdated, Stuck, Side
  <2>3. <<"fastmail", Mint[v]>> \in Outdated' => <<"fastmail", Mint[v]>> \in Outdated
    BY <1>4, <1>9, <2>1 DEF Outdated
  <2> QED BY <1>7, <2>1, <2>2, <2>3 DEF KeptTogether
<1>10. ASSUME NEW op \in Pending', op.uid = v
       PROVE  Tame(own, op)'
  <2>1. op \in todo /\ op \in todo' /\ UNCHANGED <<listing, snap>>
    BY <1>10
  <2> QED BY <1>10, <2>1, OthersTame
<1> QED BY <1>6, <1>8, <1>9, <1>10 DEF Cared

(***************************************************************************)
(* Reading, while nobody edits.                                            *)
(***************************************************************************)

\* What was listed is still there.
LEMMA NextReadStill ==
    ASSUME ~ EditsInCycle, IInv, ReadStill, [Next]_vars
    PROVE  ReadStill'
<1> SUFFICES ASSUME NEW s \in Side, HasListed(s)' PROVE ~ sinceListed'[s]
  BY DEF ReadStill
<1>1. CASE List /\ on = s
  BY <1>1 DEF List, IInv, TypeOK, BooksTypeOK
<1>2. CASE ~ (List /\ on = s)
  <2>1. HasListed(s) /\ ~ sinceListed[s] /\ pc \in {"list", "fetch", "plan"}
    BY <1>2, ListedBefore DEF ReadStill, HasListed
  <2>2. CASE UserEdit \/ UserDelete \/ Put \/ Delete \/ AnswerLost \/ Reset
    BY <2>1, <2>2 DEF UserEdit, UserDelete, MayEdit, Put, Delete, AnswerLost, Reset
  <2>3. CASE List
    BY <1>2, <2>1, <2>3 DEF List, IInv, TypeOK, BooksTypeOK
  <2>4. CASE (\E t \in Side, h \in Href : BackoffPasses(t, h)) \/ UNCHANGED vars
    BY <2>1, <2>4 DEF BackoffPasses, vars, books
  <2>5. CASE Wake \/ CheckDelta \/ Fetch \/ Plan \/ StartOp \/ Archive \/ ReadBack \/ Save
    BY <2>1, <2>5 DEF Wake, CheckDelta, Fetch, Plan, StartOp, Archive, ReadBack, Save, books
  <2>6. CASE Refused \/ Rejected \/ Crash \/ TokenInvalid \/ Unsent \/ Finish
    BY <2>1, <2>6 DEF Refused, Rejected, FailOp, Crash, TokenInvalid, Unsent, Finish, books
  <2> QED BY <2>2, <2>3, <2>4, <2>5, <2>6 DEF Next, Daemon, Faulty
<1> QED BY <1>1, <1>2

\* No failure changes between a side's snapshot and the plan.
LEMMA FailuresStill ==
    ASSUME IInv, [Next]_vars, NEW s \in Side, HasFetched(s)'
    PROVE  UNCHANGED failures
<1>1. CASE UserEdit \/ UserDelete \/ UNCHANGED vars
  BY <1>1 DEF UserEdit, UserDelete, MayEdit, vars, store
<1>2. CASE (\E t \in Side, h \in Href : BackoffPasses(t, h)) \/ Reset
  BY <1>2 DEF BackoffPasses, Reset, cycle, HasFetched
<1>3. CASE Wake \/ CheckDelta \/ TokenInvalid \/ List \/ Fetch
  BY <1>3 DEF Wake, CheckDelta, TokenInvalid, List, Fetch, store
<1>4. CASE Plan \/ Finish \/ Crash \/ Unsent \/ AnswerLost
  BY <1>4 DEF Plan, Finish, Crash, Unsent, AnswerLost, AbortCycle, EndCycle, Goto, HasFetched
<1>5. CASE StartOp \/ Archive \/ Put \/ ReadBack \/ Delete \/ Save \/ Refused \/ Rejected
  BY <1>5 DEF StartOp, FirstStep, PushKinds, Archive, Put, ReadBack, Delete, Save, Refused, Rejected,
              FailOp, EndOp, Goto, HasFetched
<1> QED BY <1>1, <1>2, <1>3, <1>4, <1>5 DEF Next, Daemon, Faulty

\* So the held cards of a snapshot are those whose failures hold them.
LEMMA NextSnapHeld ==
    ASSUME IInv, SnapHeld, [Next]_vars
    PROVE  SnapHeld'
<1> SUFFICES ASSUME NEW s \in Side, HasFetched(s)', NEW h \in Listed(s)'
             PROVE  snap'[s][h].kind = "held" <=> h \in HeldHrefs(s)'
  BY DEF SnapHeld
<1>1. UNCHANGED failures
  BY FailuresStill
<1>2. CASE Fetch /\ on = s
  <2>1. UNCHANGED listing /\ snap'[s] = Snapshot(s)
    BY <1>2 DEF Fetch, IInv, TypeOK, ViewTypeOK
  <2>2. HeldHrefs(s)' = HeldHrefs(s) /\ h \in Listed(s) /\ h \in Href
    BY <1>1, <2>1 DEF HeldHrefs, Due, FailuresOf, Listed
  <2>3. CASE h \in HeldHrefs(s)
    <3>1. Snapshot(s)[h] = [kind |-> "held", etag |-> listing[s][h], card |-> None]
      BY <2>2, <2>3 DEF Snapshot
    <3> QED BY <2>1, <2>2, <2>3, <3>1
  <2>4. CASE h \notin HeldHrefs(s) /\ h \in FetchList(s)
    <3>1. Snapshot(s)[h] = IF card[s][h] = None THEN NoEntry
                           ELSE [kind |-> "fetched", etag |-> ver[s][h], card |-> card[s][h]]
      BY <2>2, <2>4 DEF Snapshot
    <3> QED BY <2>1, <2>2, <2>4, <3>1 DEF NoEntry
  <2>5. CASE h \notin HeldHrefs(s) /\ h \notin FetchList(s)
    <3>1. Snapshot(s)[h] = [kind |-> "unchanged", etag |-> listing[s][h], card |-> None]
      BY <2>2, <2>5 DEF Snapshot
    <3> QED BY <2>1, <2>2, <2>5, <3>1
  <2> QED BY <2>3, <2>4, <2>5
<1>3. CASE ~ (Fetch /\ on = s)
  <2>1. HasFetched(s) /\ snap'[s] = snap[s] /\ UNCHANGED listing
    BY <1>3, FetchedBefore
  <2>2. HeldHrefs(s)' = HeldHrefs(s) /\ h \in Listed(s)
    BY <1>1, <2>1 DEF HeldHrefs, Due, FailuresOf, Listed
  <2> QED BY <2>1, <2>2 DEF SnapHeld
<1> QED BY <1>2, <1>3

LEMMA NextReading ==
    ASSUME ~ EditsInCycle, IInv, Reading, [Next]_vars
    PROVE  Reading'
BY NextBooksSane, NextListedNow, NextSnapExact, NextReadStill, NextSnapHeld DEF Reading

\* A plan is made of what is there.
LEMMA PlanReads ==
    ASSUME NEW own, AInv(own), pc = "plan"
    PROVE  /\ AllExact
           /\ \A s \in Side : listing[s] = Listing(s)
           /\ \A s \in Side, h \in Href : card[s][h] # None =>
                 /\ h \in Listed(s) /\ listing[s][h] = ver[s][h]
                 /\ snap[s][h].kind = "held" <=> h \in HeldHrefs(s)
<1>1. \A s \in Side : HasListed(s) /\ HasFetched(s) /\ ~ sinceListed[s]
  BY DEF HasListed, HasFetched, AInv, Reading, ReadStill
<1>2. AllExact /\ \A s \in Side : listing[s] = Listing(s)
  BY <1>1 DEF AllExact, AInv, Reading, SnapExact, ListedNow
<1>3. ASSUME NEW s \in Side, NEW h \in Href, card[s][h] # None
      PROVE  /\ h \in Listed(s) /\ listing[s][h] = ver[s][h]
             /\ snap[s][h].kind = "held" <=> h \in HeldHrefs(s)
  <2>1. listing[s][h] = ver[s][h] /\ ver[s][h] # 0
    BY <1>2, <1>3 DEF Listing, AInv, Reading, BooksSane
  <2> QED BY <1>1, <2>1 DEF Listed, AInv, Reading, SnapHeld
<1> QED BY <1>2, <1>3

(***************************************************************************)
(* The plan.                                                               *)
(***************************************************************************)

\* A card is at a place of its contact, and can be read.
LEMMA PlacedCard ==
    ASSUME NEW own, AInv(own), NEW s \in Side, NEW h \in Href, card[s][h] # None
    PROVE  /\ card[s][h].uid \in Uid /\ h \in CardsOf(s, card[s][h].uid)
           /\ Place(own, s, h, card[s][h].uid) /\ card[s][h].body # Unreadable
<1>1. card[s][h].uid \in Uid
  BY DEF AInv, IInv, TypeOK, BooksTypeOK, Card
<1>2. h \in CardsOf(s, card[s][h].uid)
  BY DEF CardsOf
<1>3. Cared(own, card[s][h].uid)
  BY <1>1 DEF AInv
<1> QED BY <1>1, <1>2, <1>3 DEF Cared, CardsPlaced

\* So is a row.
LEMMA PlacedRow ==
    ASSUME NEW own, AInv(own), NEW s \in Side, NEW h \in Href, NEW u \in RowAt(s, h)
    PROVE  u \in Uid /\ Place(own, s, h, u)
BY DEF RowAt, Synced, AInv, Cared, RowPlaced

\* Where u's row is, u's card is.
LEMMA RowOfCard ==
    ASSUME NEW own, AInv(own), NEW s \in Side, NEW u \in Uid, NEW h \in Href, Place(own, s, h, u),
           NEW v \in RowAt(s, h)
    PROVE  v = u
BY PlacedRow, OnePlace

\* No card took another's href.
LEMMA NoUidChanged ==
    ASSUME NEW own, AInv(own), pc = "plan", NEW s \in Side, NEW h \in Href
    PROVE  ~ UidChanged(s, h)
<1> SUFFICES ASSUME UidChanged(s, h) PROVE FALSE
  OBVIOUS
<1>1. Exact(s, h) /\ snap[s][h].kind = "fetched"
  BY PlanReads DEF AllExact, UidChanged, Readable
<1>2. card[s][h] # None /\ snap[s][h].card = card[s][h]
  BY <1>1 DEF Exact
<1>3. PICK u \in RowAt(s, h) : u # card[s][h].uid
  BY <1>2 DEF UidChanged
<1> QED BY <1>2, <1>3, PlacedCard, RowOfCard

\* A card that is not held is looked at.
LEMMA CardSeen ==
    ASSUME NEW own, AInv(own), pc = "plan", NEW s \in Side, NEW u \in Uid, NEW h \in CardsOf(s, u)
    PROVE  h \in Appearances(s, u) \/ (snap[s][h].kind = "held" /\ h \in HeldHrefs(s))
<1>1. h \in Href /\ card[s][h] # None /\ card[s][h].uid = u
  BY DEF CardsOf
<1>2. Exact(s, h) /\ snap[s][h] \in Entry /\ (snap[s][h].kind = "held" <=> h \in HeldHrefs(s))
  BY <1>1, PlanReads DEF AllExact, AInv, IInv, TypeOK, ViewTypeOK
<1>3. Place(own, s, h, u) /\ card[s][h].body # Unreadable
  BY <1>1, PlacedCard
<1>4. CASE snap[s][h].kind = "unchanged"
  <2>1. PICK v \in RowAt(s, h) : TRUE
    BY <1>2, <1>4 DEF Exact
  <2>2. v = u
    BY <1>1, <1>3, RowOfCard
  <2> QED BY <1>1, <1>4, <2>1, <2>2 DEF Appearances
<1>5. CASE snap[s][h].kind = "fetched"
  <2>1. snap[s][h].card = card[s][h]
    BY <1>2, <1>5 DEF Exact
  <2>2. ~ UidChanged(s, h)
    BY <1>1, NoUidChanged
  <2> QED BY <1>1, <1>3, <1>5, <2>1, <2>2 DEF Appearances, Readable
<1> QED BY <1>1, <1>2, <1>4, <1>5 DEF Entry, Exact

\* There is nothing to report.
LEMMA NothingToReport ==
    ASSUME NEW own, AInv(own), pc = "plan"
    PROVE  ReadFailures = {}
<1> SUFFICES ASSUME NEW s \in Side PROVE UnreadableOn(s) = {} /\ UidChangedOn(s) = {} /\ DuplicatesOn(s) = {}
  BY DEF ReadFailures
<1>1. UnreadableOn(s) = {}
  <2> SUFFICES ASSUME NEW h \in Href, snap[s][h].kind = "fetched" PROVE snap[s][h].card.body # Unreadable
    BY DEF UnreadableOn
  <2>1. Exact(s, h)
    BY PlanReads DEF AllExact
  <2>2. card[s][h] # None /\ snap[s][h].card = card[s][h]
    BY <2>1 DEF Exact
  <2> QED BY <2>2, PlacedCard
<1>2. UidChangedOn(s) = {}
  BY NoUidChanged DEF UidChangedOn
<1>3. DuplicatesOn(s) = {}
  <2> SUFFICES ASSUME NEW u \in Duplicated(s) PROVE FALSE
    BY DEF DuplicatesOn
  <2>1. PICK g, h \in Appearances(s, u) : g # h
    BY DEF Duplicated
  <2>2. u \in Uid /\ IInv /\ TrueInv /\ AllExact
    BY PlanReads DEF Duplicated, AInv
  <2>3. g \in CardsOf(s, u) /\ h \in CardsOf(s, u)
    BY <2>1, <2>2, AppearanceIsCard
  <2> QED BY <2>1, <2>2, <2>3, OneCard
<1> QED BY <1>1, <1>2, <1>3

\* What is held with a card: one of its contact's cards is not due.
LEMMA HeldSays ==
    ASSUME NEW own, AInv(own), NEW s \in Side, NEW h \in Href, NEW u \in Uid, Place(own, s, h, u)
    PROVE  h \in HeldHrefs(s) <=>
              (failures[s][h] # None /\ \E k \in FailuresOf(u) : ~ Due(k[1], k[2]))
<1>1. failures[s][h] # None => failures[s][h].uid = u
  <2>1. failures[s][h] # None => failures[s][h].uid \in Uid /\ Place(own, s, h, failures[s][h].uid)
    BY DEF AInv, FailuresPlaced
  <2> QED BY <2>1, OnePlace
<1>2. failures[s][h] # None => failures[s][h].uid # None
  BY <1>1 DEF AInv, Calm
<1> QED BY <1>1, <1>2 DEF HeldHrefs

\* A failure whose card is held.
LEMMA HeldCard ==
    ASSUME NEW own, AInv(own), pc = "plan", NEW s \in Side, NEW u \in Uid, NEW h \in CardsOf(s, u),
           snap[s][h].kind = "held"
    PROVE  failures[s][h] # None /\ \E k \in FailuresOf(u) : ~ Due(k[1], k[2])
<1>1. h \in Href /\ card[s][h] # None /\ Place(own, s, h, u)
  BY PlacedCard DEF CardsOf
<1>2. h \in HeldHrefs(s)
  BY <1>1, PlanReads
<1> QED BY <1>1, <1>2, HeldSays

\* A failure that is not due is of a card that is there, as it failed.
LEMMA NotDueIsThere ==
    ASSUME NEW own, AInv(own), pc = "plan", NEW u \in Uid, NEW k \in FailuresOf(u), ~ Due(k[1], k[2])
    PROVE  /\ k[1] \in Side /\ k[2] \in CardsOf(k[1], u)
           /\ k = <<k[1], k[2]>>
           /\ ~ failures[k[1]][k[2]].due /\ failures[k[1]][k[2]].etag = ver[k[1]][k[2]]
<1> DEFINE s == k[1]
           h == k[2]
           f == failures[s][h]
<1>1. s \in Side /\ h \in Href /\ f # None /\ f.uid = u /\ k = <<s, h>>
  BY DEF FailuresOf
<1>2. ~ f.due /\ listing[s][h] = f.etag
  BY DEF Due, IsDue
<1>3. Place(own, s, h, u) /\ 0 < f.etag
  BY <1>1 DEF AInv, FailuresPlaced
<1>4. listing[s][h] = IF card[s][h] = None THEN 0 ELSE ver[s][h]
  <2>1. listing[s] = Listing(s)
    BY <1>1, PlanReads
  <2> QED BY <1>1, <2>1 DEF Listing
<1>5. card[s][h] # None /\ f.etag = ver[s][h]
  BY <1>2, <1>3, <1>4
<1>6. card[s][h].uid = u
  BY <1>1, <1>3, <1>5, PlacedCard, OnePlace
<1> QED BY <1>1, <1>2, <1>5, <1>6 DEF CardsOf

\* A contact without a row that is seen on Fastmail has no card on iCloud that
\* is not seen.
LEMMA CreateHasRoom ==
    ASSUME NEW own, AInv(own), pc = "plan", NEW u \in Uid, u \notin Synced,
           Appearances("icloud", u) = {}, Appearances("fastmail", u) # {}
    PROVE  CardsOf("icloud", u) = {}
<1> SUFFICES ASSUME NEW h \in CardsOf("icloud", u) PROVE FALSE
  OBVIOUS
<1> DEFINE m == Mint[u]
<1>1. "icloud" \in Side /\ "fastmail" \in Side /\ m \in Href /\ Place(own, "fastmail", m, u)
  BY MintAssumption DEF Side, Place
<1>2. failures["icloud"][h] # None /\ \E k \in FailuresOf(u) : ~ Due(k[1], k[2])
  BY <1>1, CardSeen, HeldCard
<1>3. m \in Appearances("fastmail", u) /\ card["fastmail"][m] # None
  <2>1. PICK g \in Appearances("fastmail", u) : g \in CardsOf("fastmail", u)
    BY <1>1, PlanReads, AppearanceIsCard DEF AInv
  <2>2. g = m /\ card["fastmail"][g] # None
    BY <1>1, <2>1, PlacedCard, OnePlace DEF CardsOf, Place
  <2> QED BY <2>1, <2>2
<1>4. snap["fastmail"][m].kind # "held"
  BY <1>3 DEF Appearances, Readable
<1>5. failures["fastmail"][m] = None
  <2>1. m \notin HeldHrefs("fastmail")
    BY <1>1, <1>3, <1>4, PlanReads
  <2> QED BY <1>1, <1>2, <2>1, HeldSays
<1>6. PICK k \in FailuresOf(u) : ~ Due(k[1], k[2])
  BY <1>2
<1>7. /\ k[1] \in Side /\ k[2] \in CardsOf(k[1], u) /\ failures[k[1]][k[2]] # None
      /\ ~ failures[k[1]][k[2]].due /\ failures[k[1]][k[2]].etag = ver[k[1]][k[2]]
  BY <1>6, NotDueIsThere DEF FailuresOf
<1>8. k[1] = "icloud"
  <2>1. CASE k[1] = "fastmail"
    <3>1. k[2] \in Href /\ card["fastmail"][k[2]] # None /\ card["fastmail"][k[2]].uid = u
      BY <1>7, <2>1 DEF CardsOf
    <3>2. k[2] = m
      BY <1>1, <3>1, PlacedCard DEF Place
    <3> QED BY <1>5, <1>7, <2>1, <3>2
  <2> QED BY <1>7, <2>1 DEF Side
<1>9. Stuck(u) # {} /\ Unrecorded(u)
  BY <1>3, <1>7, <1>8 DEF Stuck, Unrecorded, Synced
<1> QED BY <1>5, <1>9 DEF AInv, Cared, HeldTogether

\* A row's contact that is not seen on a side has no card there.
LEMMA DeletedIsNowhere ==
    ASSUME NEW own, AInv(own), pc = "plan", NEW s \in Side, NEW u \in Planned, Status(s, u) = "deleted"
    PROVE  CardsOf(s, u) = {}
<1> SUFFICES ASSUME NEW h \in CardsOf(s, u) PROVE FALSE
  OBVIOUS
<1>1. u \in Uid /\ u \in Synced /\ u \notin HeldUids /\ ~ Uncertain(s)
  BY DEF Planned, Deferred, Synced
<1>2. Appearances(s, u) = {} /\ h \in Href
  BY <1>1, StatusSays DEF CardsOf
<1>3. snap[s][h].kind = "held"
  BY <1>1, <1>2, CardSeen
<1>4. Place(own, s, h, u)
  BY <1>1, <1>2, PlacedCard DEF CardsOf
<1>5. PICK v \in RowAt(s, h) : TRUE
  BY <1>1, <1>2, <1>3 DEF Uncertain, Opaque
<1>6. v = u
  BY <1>1, <1>2, <1>4, <1>5, RowOfCard
<1> QED BY <1>1, <1>2, <1>3, <1>5, <1>6 DEF HeldUids, Blocked, Opaque

\* A card without a row that is read on iCloud is not held, and what it may
\* meet on Fastmail is.
LEMMA CreateMeets ==
    ASSUME NEW own, AInv(own), pc = "plan", NEW u \in Uid, u \notin Synced,
           Appearances("icloud", u) # {}, Appearances("fastmail", u) = {}
    PROVE  /\ Stuck(u) = {}
           /\ card["fastmail"][Mint[u]] # None =>
                 /\ failures["fastmail"][Mint[u]] # None
                 /\ snap["fastmail"][Mint[u]].kind = "held"
                 /\ listing["fastmail"][Mint[u]] # 0
<1> DEFINE m == Mint[u]
<1>1. "icloud" \in Side /\ "fastmail" \in Side /\ m \in Href /\ Place(own, "fastmail", m, u)
  BY MintAssumption DEF Side, Place
<1>2. ASSUME NEW h \in Stuck(u)
      PROVE  FALSE
  <2>1. /\ h \in CardsOf("icloud", u) /\ h \in Href /\ card["icloud"][h] # None
        /\ failures["icloud"][h] # None /\ ~ failures["icloud"][h].due
        /\ failures["icloud"][h].etag = ver["icloud"][h]
    BY DEF Stuck, CardsOf
  <2>2. PICK g \in Appearances("icloud", u) : g \in CardsOf("icloud", u)
    BY <1>1, PlanReads, AppearanceIsCard DEF AInv
  <2>3. g = h
    BY <1>1, <2>1, <2>2, OneCard
  <2>4. Place(own, "icloud", h, u)
    BY <1>1, <2>1, PlacedCard DEF CardsOf
  <2>5. ~ Due("icloud", h)
    BY <1>1, <2>1, PlanReads DEF Due, IsDue
  <2>6. <<"icloud", h>> \in FailuresOf(u)
    <3>1. failures["icloud"][h].uid \in Uid /\ Place(own, "icloud", h, failures["icloud"][h].uid)
      BY <1>1, <2>1 DEF AInv, FailuresPlaced
    <3>2. failures["icloud"][h].uid = u
      BY <1>1, <2>1, <2>4, <3>1, OnePlace
    <3> QED BY <1>1, <2>1, <3>2 DEF FailuresOf
  <2>7. h \in HeldHrefs("icloud")
    <3>1. \E k \in FailuresOf(u) : ~ Due(k[1], k[2])
      BY <2>5, <2>6
    <3> QED BY <1>1, <2>1, <2>4, <3>1, HeldSays
  <2>8. snap["icloud"][h].kind = "held"
    BY <1>1, <2>1, <2>7, PlanReads
  <2> QED BY <2>2, <2>3, <2>8 DEF Appearances, Readable
<1>3. ASSUME card["fastmail"][m] # None
      PROVE  /\ failures["fastmail"][m] # None /\ snap["fastmail"][m].kind = "held"
             /\ listing["fastmail"][m] # 0
  <2>1. m \in CardsOf("fastmail", u)
    <3>1. card["fastmail"][m].uid = u
      BY <1>1, <1>3, PlacedCard, OnePlace
    <3> QED BY <1>1, <1>3, <3>1 DEF CardsOf
  <2>2. snap["fastmail"][m].kind = "held"
    BY <1>1, <2>1, CardSeen
  <2>3. m \in Listed("fastmail")
    BY <1>1, <1>3, PlanReads
  <2> QED BY <1>1, <2>1, <2>2, <2>3, HeldCard DEF Listed
<1> QED BY <1>2, <1>3

\* Where a contact is located is its place, and what was read there is as read.
LEMMA LocatedPlaced ==
    ASSUME NEW own, AInv(own), pc = "plan", NEW s \in Side, NEW u \in Uid, Appearances(s, u) # {}
    PROVE  /\ Place(own, s, Located(s, u).href, u)
           /\ snap[s][Where(s, u)].kind # "unchanged" =>
                 Dated(s, Located(s, u)) /\ BodyAt(s, u) # Unreadable
<1> DEFINE h == Where(s, u)
<1>1. h \in Appearances(s, u) /\ h \in Href
  BY WhereAppears DEF AInv, IInv
<1>2. h \in CardsOf(s, u)
  BY <1>1, PlanReads, AppearanceIsCard DEF AInv
<1>3. Place(own, s, h, u) /\ card[s][h] # None /\ card[s][h].body # Unreadable
  BY <1>1, <1>2, PlacedCard DEF CardsOf
<1>4. Located(s, u) = [href |-> h, etag |-> snap[s][h].etag]
  BY DEF Located
<1>5. ASSUME snap[s][h].kind # "unchanged"
      PROVE  Dated(s, Located(s, u)) /\ BodyAt(s, u) # Unreadable
  <2>1. Readable(s, h) /\ Exact(s, h)
    BY <1>1, <1>5, PlanReads DEF Appearances, AllExact
  <2>2. snap[s][h].etag = ver[s][h] /\ ver[s][h] # 0 /\ ver[s][h] \in Nat
    BY <1>1, <1>3, <2>1 DEF Exact, Readable, AInv, Reading, BooksSane, IInv, TypeOK, BooksTypeOK
  <2>3. Dated(s, Located(s, u))
    BY <1>4, <2>2 DEF Dated
  <2> QED BY <2>1, <2>3 DEF BodyAt, Readable
<1> QED BY <1>3, <1>4, <1>5

\* A copy brings u's card to a place of its own.
LEMMA CopyPlaced ==
    ASSUME NEW own, AInv(own), pc = "plan", NEW s \in Side, NEW u \in Uid,
           Appearances(s, u) # {}, snap[s][Where(s, u)].kind # "unchanged",
           NEW kind \in {"Create", "Resurrect"}
    PROVE  OpPlaced(own, Copy(kind, u, s))
<1> DEFINE op == Copy(kind, u, s)
<1>1. /\ op.kind = kind /\ op.uid = u /\ op.to = Other(s) /\ op.source = Located(s, u)
      /\ op.body = BodyAt(s, u) /\ op.target = Minted(u)
  BY DEF Copy
<1>2. Place(own, s, Located(s, u).href, u) /\ Dated(s, Located(s, u)) /\ BodyAt(s, u) # Unreadable
  BY LocatedPlaced
<1>3. Other(op.to) = s
  BY <1>1, Sides
<1> HIDE DEF op
<1>4. OpPlaced(own, op)
  BY <1>1, <1>2, <1>3 DEF OpPlaced, PushKinds
<1> QED BY <1>4 DEF op

\* An overwrite is of both cards of u.
LEMMA OverwritePlaced ==
    ASSUME NEW own, AInv(own), pc = "plan", NEW s \in Side, NEW u \in Uid,
           \A t \in Side : Appearances(t, u) # {} /\ snap[t][Where(t, u)].kind # "unchanged",
           NEW kind \in {"Update", "Conflict"}
    PROVE  OpPlaced(own, Overwrite(kind, u, s))
<1> DEFINE op == Overwrite(kind, u, s)
<1>1. /\ op.kind = kind /\ op.uid = u /\ op.to = Other(s) /\ op.source = Located(s, u)
      /\ op.body = BodyAt(s, u) /\ op.target = Located(Other(s), u)
  BY DEF Overwrite
<1>2. \A t \in Side : /\ Place(own, t, Located(t, u).href, u) /\ Dated(t, Located(t, u))
                      /\ BodyAt(t, u) # Unreadable
  BY LocatedPlaced
<1>3. Other(op.to) = s /\ op.to \in Side
  BY <1>1, Sides
<1> HIDE DEF op
<1>4. OpPlaced(own, op)
  BY <1>1, <1>2, <1>3 DEF OpPlaced, PushKinds
<1> QED BY <1>4 DEF op

\* A record is of both cards of u.
LEMMA RecordPlaced ==
    ASSUME NEW own, AInv(own), pc = "plan", NEW u \in Uid, NEW b, NEW kind \in {"Adopt", "Refresh"},
           \A s \in Side : Appearances(s, u) # {}
    PROVE  OpPlaced(own, RecordBoth(kind, u, b))
<1> DEFINE op == RecordBoth(kind, u, b)
<1>1. op.kind = kind /\ op.uid = u /\ \A s \in Side : op.res[s] = Located(s, u)
  BY DEF RecordBoth
<1>2. \A s \in Side : Place(own, s, Located(s, u).href, u)
  BY LocatedPlaced
<1> HIDE DEF op
<1>3. OpPlaced(own, op)
  BY <1>1, <1>2 DEF OpPlaced, PushKinds
<1> QED BY <1>3 DEF op

\* The operations of a row are tame.
LEMMA RowOpTame ==
    ASSUME NEW own, AInv(own), pc = "plan", NEW u \in Planned, NEW op \in RowOps(u)
    PROVE  Tame(own, op)
<1>1. u \in Uid /\ rows[u] # None /\ IInv
  BY DEF Planned, Synced, AInv
<1>2. \A s \in Side :
          /\ Status(s, u) \in {"same", "changed"} =>
                Appearances(s, u) # {} /\ snap[s][Where(s, u)].kind # "unchanged"
          /\ Status(s, u) = "unchanged" => Appearances(s, u) # {}
          /\ Status(s, u) = "deleted" => CardsOf(s, u) = {}
  BY <1>1, StatusSays, DeletedIsNowhere
<1>3. \A s \in Side : CardsOf(s, u) = {} /\ s = "fastmail" => card["fastmail"][Mint[u]] = None
  <2>1. ASSUME card["fastmail"][Mint[u]] # None
        PROVE  Mint[u] \in CardsOf("fastmail", u)
    <3>1. "fastmail" \in Side /\ Mint[u] \in Href /\ Place(own, "fastmail", Mint[u], u)
      BY <1>1, MintAssumption DEF Side, Place
    <3>2. card["fastmail"][Mint[u]].uid = u
      BY <1>1, <2>1, <3>1, PlacedCard, OnePlace
    <3> QED BY <2>1, <3>1, <3>2 DEF CardsOf
  <2> QED BY <2>1
<1>4. CASE op \in Forgets(u)
  <2>1. op.kind = "Forget" /\ op.uid = u /\ Status("fastmail", u) = "deleted"
    BY <1>4 DEF Forgets, ForgetOp, BothHave, Side
  <2>2. card["fastmail"][Mint[u]] = None
    BY <1>2, <1>3, <2>1 DEF Side
  <2> QED BY <2>1, <2>2 DEF Tame, OpPlaced, OpFits, OpAlone, PushKinds
<1>5. CASE op \in Refreshes(u)
  <2>1. PICK b : op = RecordBoth("Refresh", u, b) /\ \A s \in Side : Appearances(s, u) # {}
    <3>1. CASE BothHave(u, "changed") /\ SameBodies(u)
      BY <1>2, <1>5, <3>1 DEF Refreshes, BothHave
    <3>2. CASE ~ (BothHave(u, "changed") /\ SameBodies(u))
      <4>1. op = RecordBoth("Refresh", u, rows[u].body)
            /\ \A s \in Side : Status(s, u) \in {"same", "unchanged"}
        BY <1>5, <3>2 DEF Refreshes
      <4> QED BY <1>2, <4>1
    <3> QED BY <3>1, <3>2
  <2>2. OpPlaced(own, op)
    BY <1>1, <2>1, RecordPlaced
  <2>3. op.kind = "Refresh"
    BY <2>1 DEF RecordBoth
  <2> QED BY <2>2, <2>3 DEF Tame, OpFits, OpAlone
<1>6. CASE op \in SyncConflicts(u)
  <2>1. op = Overwrite("Conflict", u, Winner) /\ BothHave(u, "changed")
    BY <1>6 DEF SyncConflicts
  <2>2. OpPlaced(own, op)
    BY <1>1, <1>2, <2>1, OverwritePlaced, WinnerAssumption, Sides DEF BothHave
  <2>3. op.kind = "Conflict"
    BY <2>1 DEF Overwrite
  <2> QED BY <2>2, <2>3 DEF Tame, OpFits, OpAlone
<1>7. CASE op \in Resurrections(u)
  <2>1. PICK s \in Side : /\ op = Copy("Resurrect", u, s)
                          /\ Status(s, u) = "changed" /\ Status(Other(s), u) = "deleted"
    BY <1>7 DEF Resurrections
  <2>2. OpPlaced(own, op)
    BY <1>1, <1>2, <2>1, CopyPlaced
  <2>3. op.kind = "Resurrect" /\ op.uid = u /\ op.to = Other(s)
    BY <2>1 DEF Copy
  <2>4. CardsOf(op.to, u) = {}
    BY <1>2, <2>1, <2>3, Sides
  <2> QED BY <1>1, <2>2, <2>3, <2>4 DEF Tame, OpFits, OpAlone
<1>8. CASE op \in Updates(u)
  <2>1. PICK s \in Side : /\ op = Overwrite("Update", u, s)
                          /\ Status(s, u) = "changed" /\ Status(Other(s), u) = "same"
    BY <1>8 DEF Updates
  <2>2. \A t \in Side : Status(t, u) \in {"same", "changed"}
    BY <2>1, Sides
  <2>3. OpPlaced(own, op)
    BY <1>1, <1>2, <2>1, <2>2, OverwritePlaced
  <2>4. op.kind = "Update" /\ op.uid = u
    BY <2>1 DEF Overwrite
  <2> QED BY <1>1, <2>3, <2>4 DEF Tame, OpFits, OpAlone
<1>9. CASE op \in Deletes(u)
  <2>1. PICK s \in Side : /\ op = [kind |-> "Delete", uid |-> u, to |-> s, target |-> Located(s, u)]
                          /\ Status(s, u) \in {"same", "unchanged"} /\ Status(Other(s), u) = "deleted"
    BY <1>9 DEF Deletes
  <2>2. Status(s, u) = "same"
    BY <1>1, <2>1, UnreadTogether
  <2>3. Place(own, s, Located(s, u).href, u) /\ Dated(s, Located(s, u))
    BY <1>1, <1>2, <2>2, LocatedPlaced
  <2>4. op.kind = "Delete" /\ op.uid = u /\ op.to = s /\ op.target = Located(s, u)
    BY <2>1
  <2>5. OpPlaced(own, op)
    BY <2>3, <2>4 DEF OpPlaced, PushKinds
  <2>6. op.to = "icloud" => card["fastmail"][Mint[u]] = None
    BY <1>2, <1>3, <2>1, <2>4 DEF Other, Side
  <2>7. Ahead(op)
    BY DEF Ahead
  <2> QED BY <1>1, <2>4, <2>5, <2>6, <2>7 DEF Tame, OpFits, OpAlone
<1> QED BY <1>4, <1>5, <1>6, <1>7, <1>8, <1>9 DEF RowOps

\* Those of a contact without a row too.
LEMMA PairOpTame ==
    ASSUME NEW own, AInv(own), pc = "plan", NEW op \in PairOps
    PROVE  Tame(own, op)
<1>1. CASE op \in UNION {Adopts(u) : u \in Unsynced("icloud") \cap Unsynced("fastmail")}
  <2>1. PICK u \in Unsynced("icloud") \cap Unsynced("fastmail") : op \in Adopts(u)
    BY <1>1
  <2>2. /\ u \in Uid /\ rows[u] = None
        /\ \A s \in Side : Appearances(s, u) # {} /\ snap[s][Where(s, u)].kind # "unchanged"
    BY UnsyncedRead, Sides DEF AInv, IInv, Synced
  <2>3. CASE SameBodies(u)
    <3>1. op = RecordBoth("Adopt", u, BodyAt("icloud", u))
      BY <2>1, <2>3 DEF Adopts
    <3>2. OpPlaced(own, op)
      BY <2>2, <3>1, RecordPlaced
    <3>3. op.kind = "Adopt" /\ op.uid = u
      BY <3>1 DEF RecordBoth
    <3> QED BY <2>2, <3>2, <3>3 DEF Tame, OpFits, OpAlone
  <2>4. CASE ~ SameBodies(u)
    <3>1. op = Overwrite("Conflict", u, Winner)
      BY <2>1, <2>4 DEF Adopts
    <3>2. OpPlaced(own, op)
      BY <2>2, <3>1, OverwritePlaced, WinnerAssumption, Sides
    <3>3. op.kind = "Conflict"
      BY <3>1 DEF Overwrite
    <3> QED BY <3>2, <3>3 DEF Tame, OpFits, OpAlone
  <2> QED BY <2>3, <2>4
<1>2. CASE op \notin UNION {Adopts(u) : u \in Unsynced("icloud") \cap Unsynced("fastmail")}
  <2>1. PICK s \in Side, u \in Uid : /\ u \in Unsynced(s) /\ u \notin Unsynced(Other(s))
                                     /\ op = Copy("Create", u, s)
    BY <1>2 DEF PairOps, Unsynced
  <2>2. u \in Uid /\ u \notin Synced /\ Appearances(s, u) # {} /\ snap[s][Where(s, u)].kind # "unchanged"
    BY <2>1, UnsyncedRead DEF AInv, IInv
  <2>3. Appearances(Other(s), u) = {}
    BY <2>1 DEF Unsynced
  <2>4. OpPlaced(own, op)
    BY <2>1, <2>2, CopyPlaced
  <2>5. op.kind = "Create" /\ op.uid = u /\ op.to = Other(s) /\ rows[u] = None
    BY <2>1, <2>2 DEF Copy, Synced
  <2>6. CASE s = "icloud"
    <3>1. op.to = "fastmail"
      BY <2>5, <2>6 DEF Other
    <3> QED BY <2>2, <2>3, <2>4, <2>5, <2>6, <3>1, CreateMeets DEF Tame, OpFits, OpAlone
  <2>7. CASE s = "fastmail"
    <3>1. op.to = "icloud"
      BY <2>5, <2>7 DEF Other
    <3> QED BY <2>2, <2>3, <2>4, <2>5, <2>7, <3>1, CreateHasRoom DEF Tame, OpFits, OpAlone
  <2> QED BY <2>6, <2>7 DEF Side
<1> QED BY <1>1, <1>2

(***************************************************************************)
(* The steps.                                                              *)
(***************************************************************************)

\* A step that changes no card, row or failure, and starts no work.
LEMMA StillCared ==
    ASSUME NEW own, AInv(own), UNCHANGED <<card, ver, rows, failures>>,
           Running' => Running /\ UNCHANGED <<listing, snap, failed>>,
           \A op \in Pending' :
              /\ op \in Pending /\ UNCHANGED <<listing, snap>>
              /\ Ahead(op)' => Ahead(op)
              /\ op.kind = "Delete" => Ahead(op)' = Ahead(op)
    PROVE  FailuresPlaced(own)' /\ \A u \in Uid : Cared(own, u)'
<1>1. FailuresPlaced(own)'
  BY DEF AInv, FailuresPlaced, Place
<1>2. ASSUME NEW u \in Uid
      PROVE  Cared(own, u)'
  <2>1. Cared(own, u)
    BY DEF AInv
  <2>2. \A s \in Side : CardsOf(s, u)' = CardsOf(s, u)
    BY DEF CardsOf
  <2>3. CardsPlaced(own, u)' /\ RowPlaced(own, u)' /\ Alone(u)'
    BY <2>1, <2>2 DEF Cared, CardsPlaced, RowPlaced, Alone, Place, Side
  <2>4. Stuck(u)' = Stuck(u) /\ Unrecorded(u)' = Unrecorded(u)
    BY <2>2 DEF Stuck, Unrecorded, Side
  <2>5. HeldTogether(u)'
    BY <2>1, <2>4 DEF Cared, HeldTogether
  <2>6. ASSUME Running' PROVE KeptTogether(u)'
    <3>1. Outdated' = Outdated
      BY <2>6 DEF Outdated
    <3> QED BY <2>1, <2>4, <2>6, <3>1 DEF Cared, KeptTogether
  <2>7. ASSUME NEW op \in Pending', op.uid = u
        PROVE  Tame(own, op)'
    <3>1. Tame(own, op) /\ UNCHANGED <<listing, snap>>
      BY <2>1, <2>7 DEF Cared
    <3>2. OpPlaced(own, op)'
      BY <3>1 DEF Tame, OpPlaced, Place, Dated, Minted
    <3>3. OpFits(op)'
      BY <3>1 DEF Tame, OpFits
    <3>4. OpAlone(op)'
      BY <2>2, <2>4, <2>7, <3>1 DEF Tame, OpAlone, Side
    <3> QED BY <3>2, <3>3, <3>4 DEF Tame
  <2> QED BY <2>3, <2>5, <2>6, <2>7 DEF Cared
<1> QED BY <1>1, <1>2

\* What is left to show of a step.
Stays(own) == FailuresPlaced(own) /\ WroteThere(own) /\ \A u \in Uid : Cared(own, u)

\* The end of a cycle, or of a read, that changed nothing.
LEMMA IdleStays ==
    ASSUME NEW own, AInv(own), IInv', UNCHANGED <<card, ver, rows, failures>>,
           pc' \in {"wait", "check", "list", "fetch", "plan"}, wrote' = None
    PROVE  Stays(own)'
<1>1. ~ Running' /\ Pending' = {}
  BY DEF Running, OpSteps, Pending, IInv, Control
<1>2. WroteThere(own)'
  BY DEF WroteThere
<1> QED BY <1>1, <1>2, StillCared DEF Stays

\* Reading, and stopping.
LEMMA ReadStays ==
    ASSUME NEW own, AInv(own), IInv', Wake \/ CheckDelta \/ TokenInvalid \/ List \/ Fetch \/ Crash
    PROVE  Stays(own)'
<1>1. UNCHANGED <<card, ver, rows, failures>>
  BY DEF Wake, CheckDelta, TokenInvalid, List, Fetch, Crash, books, store
<1>2. CASE Crash
  BY <1>1, <1>2, IdleStays DEF Crash, EndCycle
<1>3. CASE ~ Crash
  <2>1. pc \in {"wait", "check", "list", "fetch"} /\ UNCHANGED wrote
    BY <1>3 DEF Wake, CheckDelta, TokenInvalid, List, Fetch
  <2>2. wrote' = None
    BY <2>1 DEF AInv, WroteThere
  <2>3. pc' \in {"wait", "check", "list", "fetch", "plan"}
    BY <1>3 DEF Wake, CheckDelta, TokenInvalid, List, Fetch, Goto
  <2> QED BY <1>1, <2>2, <2>3, IdleStays
<1> QED BY <1>2, <1>3

\* Starting an operation, and keeping a conflict's versions.
LEMMA StartStays ==
    ASSUME NEW own, AInv(own), StartOp \/ Archive
    PROVE  Stays(own)'
<1>1. UNCHANGED <<card, ver, rows, failures, listing, snap, failed, wrote>>
  BY DEF StartOp, Archive, RecordConflict, books, store
<1>2. /\ Running /\ pc # "save" /\ wrote = None
      /\ pc' \in OpSteps /\ pc' # "readback"
      /\ pc' = "save" => cur'.kind \notin PushKinds \cup {"Delete"}
      /\ Pending' \subseteq Pending
  <2>1. CASE StartOp
    <3>1. PICK op \in todo : todo' = todo \ {op} /\ cur' = op /\ pc' = FirstStep(op) /\ pc = "apply"
      BY <2>1 DEF StartOp, Goto
    <3>2. pc' \in OpSteps /\ pc' # "readback" /\ (pc' = "save" => op.kind \notin PushKinds \cup {"Delete"})
      BY <3>1 DEF FirstStep, OpSteps, PushKinds
    <3>3. Pending' \subseteq Pending /\ wrote = None
      BY <3>1 DEF Pending, OpSteps, AInv, WroteThere
    <3> QED BY <3>1, <3>2, <3>3 DEF Running
  <2>2. CASE Archive
    BY <2>2 DEF Archive, Goto, Running, OpSteps, Pending, AInv, WroteThere
  <2> QED BY <2>1, <2>2
<1>3. \A op \in Pending' : /\ op \in Pending /\ Ahead(op)
                           /\ op.kind = "Delete" => Ahead(op)' = Ahead(op)
  BY <1>2 DEF Ahead, Pending
<1>4. FailuresPlaced(own)' /\ \A u \in Uid : Cared(own, u)'
  BY <1>1, <1>2, <1>3, StillCared
<1>5. WroteThere(own)'
  BY <1>1, <1>2 DEF WroteThere
<1> QED BY <1>4, <1>5 DEF Stays

\* Planning.
LEMMA PlanStays ==
    ASSUME NEW own, AInv(own), IInv', Plan
    PROVE  Stays(own)'
<1>1. pc = "plan" /\ UNCHANGED <<card, ver, rows>> /\ wrote = None /\ IInv
  BY DEF Plan, RecordFailures, books, store, AInv, WroteThere
<1>2. ReadFailures = {}
  BY <1>1, NothingToReport
<1>3. UNCHANGED failures
  <2>1. CASE MassDeletion(CycleOps)
    BY <2>1 DEF Plan, store
  <2>2. CASE ~ MassDeletion(CycleOps)
    <3>1. failures' = Recorded({})
      BY <1>2, <2>2 DEF Plan, RecordFailures
    <3>2. \A s \in Side, h \in Href : Recorded({})[s][h] = failures[s][h]
      BY DEF Recorded
    <3>3. failures \in [Side -> [Href -> Failure \cup {None}]]
      BY <1>1 DEF IInv, TypeOK, StoreTypeOK
    <3>4. Recorded({}) = [s \in Side |-> [h \in Href |-> failures[s][h]]]
      BY DEF Recorded
    <3>5. [s \in Side |-> [h \in Href |-> failures[s][h]]] = failures
      BY <3>3
    <3> QED BY <3>1, <3>4, <3>5
  <2> QED BY <2>1, <2>2
<1>4. CASE MassDeletion(CycleOps)
  <2>1. EndCycle
    BY <1>4 DEF Plan
  <2> QED BY <1>1, <1>3, <2>1, IdleStays DEF EndCycle
<1>5. CASE ~ MassDeletion(CycleOps)
  <2>1. pc' = "apply" /\ todo' = CycleOps /\ failed' = {} /\ UNCHANGED <<listing, snap, cur, wrote>>
    BY <1>2, <1>5 DEF Plan, Goto
  <2>2. WroteThere(own)'
    BY <1>1, <2>1 DEF WroteThere
  <2>3. FailuresPlaced(own)'
    BY <1>1, <1>3 DEF AInv, FailuresPlaced, Place
  <2>4. ASSUME NEW u \in Uid
        PROVE  Cared(own, u)'
    <3>1. Cared(own, u)
      BY DEF AInv
    <3>2. \A s \in Side : CardsOf(s, u)' = CardsOf(s, u)
      BY <1>1 DEF CardsOf
    <3>3. CardsPlaced(own, u)' /\ RowPlaced(own, u)' /\ Alone(u)'
      BY <1>1, <3>1, <3>2 DEF Cared, CardsPlaced, RowPlaced, Alone, Place, Side
    <3>4. Stuck(u)' = Stuck(u) /\ Unrecorded(u)' = Unrecorded(u)
      BY <1>1, <1>3, <3>2 DEF Stuck, Unrecorded, Side
    <3>5. HeldTogether(u)'
      BY <1>3, <3>1, <3>4 DEF Cared, HeldTogether
    <3>6. KeptTogether(u)'
      <4> DEFINE m == Mint[u]
      <4> SUFFICES ASSUME Unrecorded(u), NEW h \in Stuck(u), <<"icloud", h>> \notin Outdated'
                   PROVE  <<"fastmail", m>> \notin Outdated'
        BY <3>4 DEF KeptTogether
      <4>1. /\ "icloud" \in Side /\ "fastmail" \in Side /\ m \in Href /\ Place(own, "fastmail", m, u)
            /\ card["fastmail"][m] # None
        BY MintAssumption DEF Side, Place, Unrecorded
      <4>2. h \in CardsOf("icloud", u) /\ h \in Href /\ failures["icloud"][h] # None
        BY DEF Stuck, CardsOf
      <4>3. snap["icloud"][h].kind = "held"
        BY <1>3, <2>1, <4>1, <4>2 DEF Outdated
      <4>4. \E k \in FailuresOf(u) : ~ Due(k[1], k[2])
        BY <1>1, <4>1, <4>2, <4>3, HeldCard
      <4>5. failures["fastmail"][m] # None
        BY <3>1 DEF Cared, HeldTogether
      <4>6. m \in HeldHrefs("fastmail")
        BY <4>1, <4>4, <4>5, HeldSays
      <4>7. snap["fastmail"][m].kind = "held" /\ m \in Listed("fastmail")
        BY <1>1, <4>1, <4>6, PlanReads
      <4> QED BY <2>1, <4>7 DEF Outdated, Listed
    <3>7. ASSUME NEW op \in Pending', op.uid = u
          PROVE  Tame(own, op)'
      <4>1. op \in CycleOps
        BY <2>1, <3>7 DEF Pending, OpSteps
      <4>2. Tame(own, op)
        <5>1. CASE op \in PairOps
          BY <1>1, <5>1, PairOpTame
        <5>2. CASE op \notin PairOps
          BY <1>1, <4>1, <5>2, RowOpTame DEF CycleOps
        <5> QED BY <5>1, <5>2
      <4>3. Ahead(op) /\ Ahead(op)'
        BY <1>1, <2>1, <4>1 DEF Ahead
      <4>4. OpPlaced(own, op)' /\ OpFits(op)'
        BY <1>1, <4>2 DEF Tame, OpPlaced, OpFits, Place, Dated, Minted
      <4>5. OpAlone(op)'
        BY <1>1, <1>3, <2>1, <3>2, <3>4, <3>7, <4>2, <4>3 DEF Tame, OpAlone, Side
      <4> QED BY <4>4, <4>5 DEF Tame
    <3> QED BY <3>3, <3>5, <3>6, <3>7 DEF Cared
  <2> QED BY <2>2, <2>3, <2>4 DEF Stays
<1> QED BY <1>4, <1>5

\* What happens between cycles: nothing is recorded, and no more is held.
LEMMA BetweenStays ==
    ASSUME NEW own, AInv(own), IInv', pc' = "wait", wrote' = None, BooksStep, UNCHANGED rows,
           card'["fastmail"] = card["fastmail"],
           \A s \in Side, h \in Href : failures'[s][h] # None =>
              /\ failures[s][h] # None
              /\ failures'[s][h].uid = failures[s][h].uid /\ failures'[s][h].etag = failures[s][h].etag,
           \A u \in Uid : \A h \in CardsOf("icloud", u)' :
              Place(own, "icloud", h, u) /\ card'["icloud"][h].body # Unreadable,
           \A u \in Uid : Alone(u)' /\ Stuck(u)' \subseteq Stuck(u),
           \A u \in Uid : (Unrecorded(u) /\ Stuck(u)' # {}) => failures'["fastmail"][Mint[u]] # None
    PROVE  Stays(own)'
<1>1. ~ Running' /\ Pending' = {}
  BY DEF Running, OpSteps, Pending, IInv, Control
<1>2. WroteThere(own)'
  BY DEF WroteThere
<1>3. FailuresPlaced(own)'
  <2> SUFFICES ASSUME NEW s \in Side, NEW h \in Href, failures'[s][h] # None
               PROVE  /\ failures'[s][h].uid \in Uid /\ Place(own, s, h, failures'[s][h].uid)
                      /\ 0 < failures'[s][h].etag /\ failures'[s][h].etag <= ver'[s][h]
    BY DEF FailuresPlaced, Place
  <2>1. /\ failures[s][h] # None
        /\ failures'[s][h].uid = failures[s][h].uid /\ failures'[s][h].etag = failures[s][h].etag
    OBVIOUS
  <2>2. /\ failures[s][h].uid \in Uid /\ Place(own, s, h, failures[s][h].uid)
        /\ 0 < failures[s][h].etag /\ failures[s][h].etag <= ver[s][h]
    BY <2>1 DEF AInv, FailuresPlaced
  <2>3. failures[s][h] \in Failure /\ ver[s][h] \in Nat /\ ver'[s][h] \in Nat /\ ver[s][h] <= ver'[s][h]
    BY <2>1 DEF AInv, IInv, TypeOK, StoreTypeOK, BooksTypeOK, BooksStep
  <2>4. failures[s][h].etag \in Nat
    BY <2>3 DEF Failure
  <2> QED BY <2>1, <2>2, <2>3, <2>4
<1>4. ASSUME NEW u \in Uid
      PROVE  Cared(own, u)'
  <2>1. Cared(own, u)
    BY DEF AInv
  <2>2. CardsPlaced(own, u)'
    <3> SUFFICES ASSUME NEW s \in Side, NEW h \in CardsOf(s, u)'
                 PROVE  Place(own, s, h, u) /\ card'[s][h].body # Unreadable
      BY DEF CardsPlaced, Place
    <3>1. CASE s = "icloud"
      BY <3>1
    <3>2. CASE s = "fastmail"
      <4>1. h \in CardsOf("fastmail", u) /\ card'["fastmail"][h] = card["fastmail"][h]
        BY <3>2 DEF CardsOf
      <4> QED BY <2>1, <3>2, <4>1 DEF Cared, CardsPlaced
    <3> QED BY <3>1, <3>2 DEF Side
  <2>3. RowPlaced(own, u)'
    BY <2>1 DEF Cared, RowPlaced, Place
  <2>4. HeldTogether(u)'
    <3>1. Unrecorded(u)' => Unrecorded(u)
      BY DEF Unrecorded
    <3> QED BY <3>1 DEF HeldTogether
  <2> QED BY <1>1, <2>2, <2>3, <2>4 DEF Cared
<1> QED BY <1>2, <1>3, <1>4 DEF Stays

\* People edit iCloud: a card at its contact's href, and no longer the version
\* that failed.
LEMMA UserStays ==
    ASSUME NEW own, AInv(own), IInv', AtHome(own)', UserEdit \/ UserDelete
    PROVE  Stays(own)'
<1>1. PICK h \in Href :
          /\ pc = "wait" /\ UNCHANGED <<store, cycle>>
          /\ \/ \E u \in Uid, b \in EditBodies :
                   /\ CardsOf("icloud", u) \subseteq {h}
                   /\ Write("icloud", h, [uid |-> u, body |-> b])
             \/ Remove("icloud", h)
  <2>1. CASE UserEdit
    <3>1. PICK s \in Side, h \in Href, u \in Uid, b \in EditBodies :
              MayEdit(s) /\ UserWrites(s, h, [uid |-> u, body |-> b])
      BY <2>1 DEF UserEdit
    <3>2. s = "icloud" /\ pc = "wait" /\ UNCHANGED <<store, cycle>>
      BY <3>1 DEF MayEdit, AInv, Calm
    <3>3. CardsOf("icloud", u) \subseteq {h} /\ Write("icloud", h, [uid |-> u, body |-> b])
      BY <3>1, <3>2 DEF UserWrites, AInv, Calm
    <3> QED BY <3>2, <3>3
  <2>2. CASE UserDelete
    BY <2>2 DEF UserDelete, UserDeletes, MayEdit, AInv, Calm
  <2> QED BY <2>1, <2>2
<1>2. UNCHANGED <<rows, failures>> /\ pc' = "wait" /\ wrote' = None
  BY <1>1 DEF store, cycle, AInv, WroteThere
<1>3. BooksTypeOK /\ "icloud" \in Side /\ "fastmail" \in Side
  BY DEF AInv, IInv, TypeOK, Side
<1>4. BooksStep
  <2>1. ASSUME NEW u \in Uid, NEW b \in EditBodies PROVE [uid |-> u, body |-> b] \in Card
    BY BoundsAssumption DEF Card
  <2> QED BY <1>1, <1>3, <2>1, WriteStep, RemoveStep
<1>5. /\ card'["fastmail"] = card["fastmail"]
      /\ \A g \in Href : g # h => card'["icloud"][g] = card["icloud"][g] /\ ver'["icloud"][g] = ver["icloud"][g]
  BY <1>1, <1>3 DEF Write, Remove, BooksTypeOK
<1>6. \/ card'["icloud"][h] = None
      \/ /\ ver'["icloud"][h] = ver["icloud"][h] + 1
         /\ card'["icloud"][h].body \in EditBodies
         /\ CardsOf("icloud", card'["icloud"][h].uid) \subseteq {h}
  <2>1. CASE Remove("icloud", h)
    BY <1>3, <2>1 DEF Remove, BooksTypeOK
  <2>2. ASSUME NEW u \in Uid, NEW b \in EditBodies, CardsOf("icloud", u) \subseteq {h},
               Write("icloud", h, [uid |-> u, body |-> b])
        PROVE  /\ ver'["icloud"][h] = ver["icloud"][h] + 1
               /\ card'["icloud"][h].body \in EditBodies
               /\ CardsOf("icloud", card'["icloud"][h].uid) \subseteq {h}
    <3>1. card'["icloud"][h] = [uid |-> u, body |-> b] /\ ver'["icloud"][h] = ver["icloud"][h] + 1
      BY <1>3, <2>2 DEF Write, BooksTypeOK
    <3>2. card'["icloud"][h].uid = u /\ card'["icloud"][h].body = b
      BY <3>1
    <3> QED BY <2>2, <3>1, <3>2
  <2> QED BY <1>1, <2>1, <2>2
<1>7. ASSUME NEW u \in Uid
      PROVE  /\ \A g \in CardsOf("icloud", u)' :
                   Place(own, "icloud", g, u) /\ card'["icloud"][g].body # Unreadable
             /\ Alone(u)' /\ Stuck(u)' \subseteq Stuck(u)
  <2>1. Cared(own, u)
    BY DEF AInv
  <2>2. \A g \in CardsOf("icloud", u)' : g # h => g \in CardsOf("icloud", u)
    BY <1>5 DEF CardsOf
  <2>3. ASSUME NEW g \in CardsOf("icloud", u)'
        PROVE  Place(own, "icloud", g, u) /\ card'["icloud"][g].body # Unreadable
    <3>1. g \in Href /\ card'["icloud"][g] # None /\ card'["icloud"][g].uid = u
      BY DEF CardsOf
    <3>2. own[g] = u
      BY <3>1 DEF AtHome
    <3>3. card'["icloud"][g].body # Unreadable
      <4>1. CASE g = h
        BY <1>6, <3>1, <4>1 DEF AInv, Calm
      <4>2. CASE g # h
        BY <1>3, <1>5, <2>1, <2>2, <3>1, <4>2 DEF Cared, CardsPlaced
      <4> QED BY <4>1, <4>2
    <3> QED BY <3>2, <3>3 DEF Place
  <2>4. Alone(u)'
    <3> SUFFICES ASSUME NEW f \in CardsOf("icloud", u)', NEW g \in CardsOf("icloud", u)', g # h
                 PROVE  f = g
      BY DEF Alone
    <3>1. g \in CardsOf("icloud", u)
      BY <2>2
    <3>2. CASE f # h
      BY <2>1, <2>2, <3>1, <3>2 DEF Cared, Alone
    <3>3. CASE f = h
      <4>1. card'["icloud"][h] # None /\ card'["icloud"][h].uid = u
        BY <3>3 DEF CardsOf
      <4>2. CardsOf("icloud", u) \subseteq {h}
        BY <1>6, <4>1
      <4> QED BY <3>1, <4>2
    <3> QED BY <3>2, <3>3
  <2>5. ASSUME NEW g \in Stuck(u)'
        PROVE  g \in Stuck(u)
    <3>1. /\ g \in CardsOf("icloud", u)' /\ g \in Href /\ card'["icloud"][g] # None
          /\ failures["icloud"][g] # None /\ ~ failures["icloud"][g].due
          /\ failures["icloud"][g].etag = ver'["icloud"][g]
      BY <1>2 DEF Stuck, CardsOf
    <3>2. failures["icloud"][g].etag <= ver["icloud"][g] /\ ver["icloud"][g] \in Nat
      BY <1>3, <3>1 DEF AInv, FailuresPlaced, BooksTypeOK
    <3>3. g # h
      BY <1>6, <3>1, <3>2
    <3> QED BY <1>5, <2>2, <3>1, <3>3 DEF Stuck
  <2> QED BY <2>3, <2>4, <2>5
<1>8. \A u \in Uid : (Unrecorded(u) /\ Stuck(u)' # {}) => failures'["fastmail"][Mint[u]] # None
  BY <1>2, <1>7 DEF AInv, Cared, HeldTogether
<1> QED BY <1>2, <1>4, <1>5, <1>7, <1>8, BetweenStays

\* A backoff passes, or a cycle ends.
LEMMA RestStays ==
    ASSUME NEW own, AInv(own), IInv', Finish \/ \E s \in Side, h \in Href : BackoffPasses(s, h)
    PROVE  Stays(own)'
<1>1. UNCHANGED <<card, ver, rows>> /\ pc' = "wait" /\ wrote' = None
  BY DEF Finish, EndCycle, BackoffPasses, books, cycle, AInv, WroteThere
<1>2. BooksStep /\ failures \in [Side -> [Href -> Failure \cup {None}]]
  BY <1>1, BooksStutter DEF AInv, IInv, TypeOK, StoreTypeOK
<1>3. ASSUME NEW s \in Side, NEW h \in Href, failures'[s][h] # None
      PROVE  /\ failures[s][h] # None
             /\ failures'[s][h].uid = failures[s][h].uid /\ failures'[s][h].etag = failures[s][h].etag
             /\ ~ failures'[s][h].due => ~ failures[s][h].due
             /\ Finish => <<s, h>> \notin Outdated
  <2>1. CASE Finish
    BY <1>3, <2>1 DEF Finish, Cleared
  <2>2. CASE \E t \in Side, g \in Href : BackoffPasses(t, g)
    <3>1. PICK t \in Side, g \in Href : BackoffPasses(t, g)
      BY <2>2
    <3>2. failures[t][g] \in Failure /\ ~ Finish
      BY <1>2, <3>1 DEF BackoffPasses, Finish
    <3> QED BY <1>2, <1>3, <3>1, <3>2 DEF BackoffPasses, Failure
  <2> QED BY <2>1, <2>2
<1>4. "icloud" \in Side /\ "fastmail" \in Side
  BY DEF Side
<1>5. ASSUME NEW u \in Uid
      PROVE  /\ \A h \in CardsOf("icloud", u)' :
                   Place(own, "icloud", h, u) /\ card'["icloud"][h].body # Unreadable
             /\ Alone(u)' /\ Stuck(u)' \subseteq Stuck(u)
             /\ (Unrecorded(u) /\ Stuck(u)' # {}) => failures'["fastmail"][Mint[u]] # None
  <2>1. Cared(own, u) /\ CardsOf("icloud", u)' = CardsOf("icloud", u)
    BY <1>1 DEF AInv, CardsOf
  <2>2. Stuck(u)' \subseteq Stuck(u)
    BY <1>1, <1>3, <1>4, <2>1 DEF Stuck, CardsOf
  <2>3. ASSUME Unrecorded(u), Stuck(u)' # {}
        PROVE  failures'["fastmail"][Mint[u]] # None
    <3>1. failures["fastmail"][Mint[u]] # None
      BY <2>1, <2>2, <2>3 DEF Cared, HeldTogether
    <3>2. CASE Finish
      <4>1. PICK h \in Stuck(u)' : TRUE
        BY <2>3
      <4>2. h \in Href /\ failures'["icloud"][h] # None /\ h \in Stuck(u)
        BY <2>2, <4>1 DEF Stuck, CardsOf
      <4>3. <<"icloud", h>> \notin Outdated
        BY <1>3, <1>4, <3>2, <4>2
      <4>4. Running
        BY <3>2 DEF Finish, Running
      <4>5. <<"fastmail", Mint[u]>> \notin Outdated
        BY <2>1, <2>3, <4>2, <4>3, <4>4 DEF Cared, KeptTogether
      <4> QED BY <1>4, <3>1, <3>2, <4>5, MintIsHref DEF Finish, Cleared
    <3>3. CASE ~ Finish
      <4>1. PICK t \in Side, g \in Href : BackoffPasses(t, g)
        BY <3>3
      <4>2. failures[t][g] \in Failure /\ Mint[u] \in Href
        BY <1>2, <4>1, MintIsHref DEF BackoffPasses
      <4>3. [failures[t][g] EXCEPT !.due = TRUE] \in Failure
        BY <4>2 DEF Failure
      <4> QED BY <1>2, <1>4, <3>1, <4>1, <4>2, <4>3, NoRowAssumption DEF BackoffPasses
    <3> QED BY <3>2, <3>3
  <2> QED BY <1>1, <1>4, <2>1, <2>2, <2>3 DEF Cared, CardsPlaced, Alone
<1> QED BY <1>1, <1>2, <1>3, <1>5, BetweenStays

\* A reset: nothing is synced, and nothing is held.
LEMMA ResetStays ==
    ASSUME NEW own, AInv(own), IInv', Reset
    PROVE  Stays(own)'
<1>1. /\ UNCHANGED <<card, ver>> /\ pc' = "wait" /\ wrote' = None
      /\ \A u \in Uid : rows'[u] = None
      /\ \A s \in Side, h \in Href : failures'[s][h] = None
  BY DEF Reset, cycle, AInv, WroteThere
<1>2. ~ Running' /\ Pending' = {}
  BY <1>1 DEF Running, OpSteps, Pending, IInv, Control
<1>3. WroteThere(own)' /\ FailuresPlaced(own)'
  BY <1>1 DEF WroteThere, FailuresPlaced
<1>4. ASSUME NEW u \in Uid
      PROVE  Cared(own, u)'
  <2>1. Cared(own, u) /\ \A s \in Side : CardsOf(s, u)' = CardsOf(s, u)
    BY <1>1 DEF AInv, CardsOf
  <2>2. CardsPlaced(own, u)' /\ RowPlaced(own, u)' /\ Alone(u)'
    BY <1>1, <2>1 DEF Cared, CardsPlaced, RowPlaced, Alone, Place, Side
  <2>3. Stuck(u)' = {}
    BY <1>1 DEF Stuck, CardsOf, Side
  <2> QED BY <1>2, <2>2, <2>3 DEF Cared, HeldTogether
<1> QED BY <1>3, <1>4 DEF Stays

\* Nothing happens.
LEMMA StutterStays ==
    ASSUME NEW own, AInv(own), UNCHANGED vars
    PROVE  Stays(own)'
<1>1. UNCHANGED <<card, ver, rows, failures, listing, snap, failed, pc, todo, cur, wrote>>
  BY DEF vars, books, store, cycle
<1>2. Running' = Running /\ Pending' = Pending /\ \A op : Ahead(op)' = Ahead(op)
  BY <1>1 DEF Running, Pending, Ahead
<1> QED BY <1>1, <1>2, StillCared DEF Stays, WroteThere, AInv, Place, Dated

\* What is known of the operation being run.
LEMMA OpKnown ==
    ASSUME NEW own, AInv(own), pc \in OpSteps
    PROVE  /\ cur \in Op /\ cur.uid \in Uid /\ cur \in Pending
           /\ Cared(own, cur.uid) /\ Tame(own, cur) /\ Grounded(cur)
           /\ cur \notin todo /\ \A op \in todo : op.uid # cur.uid
           /\ Running
<1>1. cur \in Op /\ cur \in Pending /\ Grounded(cur)
  BY DEF AInv, IInv, Control, Pending, OpsGrounded
<1>2. cur.uid \in Uid
  BY <1>1 DEF Op, PushOp, DeleteOp, RecordOp, ForgetOp
<1>3. cur \notin todo /\ \A op \in todo : op.uid # cur.uid
  BY <1>1 DEF AInv, IInv, OpsApart, Pending
<1> QED BY <1>1, <1>2, <1>3 DEF AInv, Cared, Running

\* The sides and hrefs it works on.
LEMMA OpParts ==
    ASSUME NEW own, AInv(own), pc \in OpSteps
    PROVE  /\ cur.kind \in PushKinds => /\ cur \in PushOp /\ cur.to \in Side /\ Other(cur.to) \in Side
                                        /\ cur.source \in Resource /\ cur.target \in Resource
                                        /\ cur.source.href \in Href /\ cur.target.href \in Href
           /\ cur.kind = "Delete" => /\ cur \in DeleteOp /\ cur.to \in Side
                                     /\ cur.target \in Resource /\ cur.target.href \in Href
<1>1. cur \in Op /\ Tame(own, cur)
  BY OpKnown
<1>2. cur.kind = "Delete" => /\ cur \in DeleteOp /\ cur.to \in Side
                             /\ cur.target \in Resource /\ cur.target.href \in Href
  BY <1>1 DEF Op, PushOp, DeleteOp, RecordOp, ForgetOp, PushKinds, Resource
<1>3. cur.kind \in PushKinds => /\ cur \in PushOp /\ cur.to \in Side /\ Other(cur.to) \in Side
                                /\ cur.source \in Resource /\ cur.target \in Resource
                                /\ cur.source.href \in Href /\ cur.target.href \in Href
  BY <1>1, Sides DEF Op, PushOp, DeleteOp, RecordOp, ForgetOp, PushKinds, Resource
<1> QED BY <1>2, <1>3

\* An operation's step keeps what is known, if it does so for its contact and
\* touches no other.
LEMMA OpStays ==
    ASSUME NEW own, AInv(own), IInv', pc \in OpSteps, NEW u \in Uid, u = cur.uid,
           BooksStep, Touches(own, u),
           \/ pc' = "wait"
           \/ pc' = "apply" /\ UNCHANGED <<listing, snap, todo>>
           \/ pc' = "save" /\ UNCHANGED <<listing, snap, todo, cur>>,
           Cared(own, u)', FailuresPlaced(own)', WroteThere(own)'
    PROVE  Stays(own)'
<1>1. Running
  BY OpKnown
<1>2. ASSUME NEW v \in Uid, v # u
      PROVE  Cared(own, v)'
  <2>1. Running' => Running /\ UNCHANGED <<listing, snap>>
    BY <1>1 DEF Running, OpSteps
  <2>2. ASSUME NEW op \in Pending', op.uid = v
        PROVE  Running' /\ op \in todo /\ op \in todo'
    BY <1>2, <2>2 DEF Pending, OpSteps, Running, IInv, Control
  <2> QED BY <1>1, <1>2, <2>1, <2>2, OthersCared
<1> QED BY <1>2 DEF Stays

\* The cards it holds if it fails are its contact's, at ETags they have had.
LEMMA FailedPlaced ==
    ASSUME NEW own, AInv(own), pc \in OpSteps, NEW c \in FailedCards(cur, wrote)
    PROVE  /\ c.side \in Side /\ c.href \in Href /\ c.uid = cur.uid /\ c.uid \in Uid
           /\ Place(own, c.side, c.href, cur.uid)
           /\ 0 < c.etag /\ c.etag <= ver[c.side][c.href]
           /\ cur.kind \in PushKinds \cup {"Delete"}
<1>1. PICK k \in WrittenBy(cur, wrote) \cup HeldBy(cur) : c = Failing(k[1], k[2].href, cur.uid, k[2].etag)
  BY DEF FailedCards
<1>2. c.side = k[1] /\ c.href = k[2].href /\ c.uid = cur.uid /\ c.etag = k[2].etag
  BY <1>1 DEF Failing
<1>3. cur.uid \in Uid /\ Tame(own, cur)
  BY OpKnown
<1>4. /\ k[1] \in Side /\ k[2].href \in Href /\ Place(own, k[1], k[2].href, cur.uid) /\ Dated(k[1], k[2])
      /\ cur.kind \in PushKinds \cup {"Delete"}
  <2>1. CASE k \in WrittenBy(cur, wrote)
    <3>1. k = <<cur.to, wrote>> /\ cur.kind \in PushKinds /\ wrote # None
      BY <2>1 DEF WrittenBy
    <3>2. pc = "save"
      BY <3>1 DEF AInv, WroteThere
    <3>3. wrote \in Resource /\ Place(own, cur.to, wrote.href, cur.uid) /\ Dated(cur.to, wrote)
      BY <3>1, <3>2 DEF AInv, WroteThere, IInv, Control
    <3> QED BY <3>1, <3>3, OpParts DEF Resource
  <2>2. CASE k \in HeldBy(cur)
    <3>1. CASE k = <<Other(cur.to), cur.source>> /\ cur.kind \in PushKinds
      <4>1. Place(own, Other(cur.to), cur.source.href, cur.uid) /\ Dated(Other(cur.to), cur.source)
        BY <1>3, <3>1 DEF Tame, OpPlaced
      <4> QED BY <3>1, <4>1, OpParts
    <3>2. CASE k = <<cur.to, cur.target>> /\ cur.kind \in {"Conflict", "Delete"}
      <4>1. Place(own, cur.to, cur.target.href, cur.uid) /\ Dated(cur.to, cur.target)
        BY <1>3, <3>2 DEF Tame, OpPlaced
      <4>2. cur.to \in Side /\ cur.target.href \in Href
        BY <3>2, OpParts DEF PushKinds
      <4> QED BY <3>2, <4>1, <4>2 DEF PushKinds
    <3> QED BY <2>2, <3>1, <3>2 DEF HeldBy, PushKinds
  <2> QED BY <2>1, <2>2
<1> QED BY <1>2, <1>3, <1>4 DEF Dated

\* So recording them touches no other contact.
LEMMA RecordedStays ==
    ASSUME NEW own, AInv(own), IInv', pc \in OpSteps, BooksStep,
           failures' = failures \/ failures' = Recorded(FailedCards(cur, wrote))
    PROVE  /\ FailuresPlaced(own)'
           /\ \A s \in Side, h \in Href :
                 ~ Place(own, s, h, cur.uid) => failures'[s][h] = failures[s][h]
<1>1. ASSUME NEW s \in Side, NEW h \in Href
      PROVE  \/ failures'[s][h] = failures[s][h]
             \/ /\ Place(own, s, h, cur.uid) /\ cur.uid \in Uid
                /\ failures'[s][h].uid = cur.uid
                /\ 0 < failures'[s][h].etag /\ failures'[s][h].etag <= ver[s][h]
  <2> DEFINE P(c) == c.side = s /\ c.href = h
             c == CHOOSE c \in FailedCards(cur, wrote) : P(c)
  <2>1. CASE failures' = failures
    BY <2>1
  <2>2. CASE failures' = Recorded(FailedCards(cur, wrote)) /\ ~ \E d \in FailedCards(cur, wrote) : P(d)
    BY <2>2 DEF Recorded
  <2>3. CASE failures' = Recorded(FailedCards(cur, wrote)) /\ \E d \in FailedCards(cur, wrote) : P(d)
    <3>1. c \in FailedCards(cur, wrote) /\ P(c)
      BY <2>3
    <3>2. failures'[s][h] = [uid |-> c.uid, etag |-> c.etag, due |-> FALSE]
      BY <2>3 DEF Recorded
    <3> HIDE DEF c
    <3>3. /\ c.uid = cur.uid /\ c.uid \in Uid /\ Place(own, s, h, cur.uid)
          /\ 0 < c.etag /\ c.etag <= ver[s][h]
      BY <3>1, FailedPlaced
    <3> QED BY <3>2, <3>3
  <2> QED BY <2>1, <2>2, <2>3
<1>2. FailuresPlaced(own)'
  <2> SUFFICES ASSUME NEW s \in Side, NEW h \in Href, failures'[s][h] # None
               PROVE  /\ failures'[s][h].uid \in Uid /\ Place(own, s, h, failures'[s][h].uid)
                      /\ 0 < failures'[s][h].etag /\ failures'[s][h].etag <= ver'[s][h]
    BY DEF FailuresPlaced, Place
  <2>1. /\ failures'[s][h].uid \in Uid /\ Place(own, s, h, failures'[s][h].uid)
        /\ 0 < failures'[s][h].etag /\ failures'[s][h].etag <= ver[s][h]
    BY <1>1 DEF AInv, FailuresPlaced
  <2>2. ver[s][h] \in Nat /\ ver'[s][h] \in Nat /\ ver[s][h] <= ver'[s][h]
    BY DEF AInv, IInv, TypeOK, BooksTypeOK, BooksStep
  <2>3. failures'[s][h] \in Failure
    BY DEF IInv, TypeOK, StoreTypeOK
  <2>4. failures'[s][h].etag \in Nat
    BY <2>3 DEF Failure
  <2> QED BY <2>1, <2>2, <2>4
<1> QED BY <1>1, <1>2

\* An operation that ends the cycle before it did anything to a card.
LEMMA UnsentStays ==
    ASSUME NEW own, AInv(own), IInv', Unsent
    PROVE  Stays(own)'
<1>0. pc \in OpSteps
  BY DEF Unsent, OpSteps
<1> PICK u \in Uid : u = cur.uid
  BY <1>0, OpKnown
<1>1. /\ pc \in OpSteps /\ UNCHANGED <<card, ver, rows>> /\ EndCycle
      /\ failures' = failures \/ (HoldsOnAbort(cur) /\ failures' = Recorded(FailedCards(cur, wrote)))
  BY DEF Unsent, OpSteps, AbortCycle, RecordFailures, books, store
<1>2. BooksStep
  BY <1>1, BooksStutter DEF AInv, IInv, TypeOK
<1>3. /\ FailuresPlaced(own)'
      /\ \A s \in Side, h \in Href : ~ Place(own, s, h, u) => failures'[s][h] = failures[s][h]
  BY <1>1, <1>2, RecordedStays
<1>4. Cared(own, u) /\ Tame(own, cur)
  BY <1>1, OpKnown
<1>5. ~ Running' /\ Pending' = {} /\ WroteThere(own)'
  BY <1>1 DEF EndCycle, Running, OpSteps, Pending, WroteThere
<1>6. Touches(own, u)
  BY <1>1, <1>3, <1>4, <1>5, PlacedCard, OnePlace DEF Touches
<1>7. Cared(own, u)'
  <2>1. \A s \in Side : CardsOf(s, u)' = CardsOf(s, u)
    BY <1>1 DEF CardsOf
  <2>2. CardsPlaced(own, u)' /\ RowPlaced(own, u)' /\ Alone(u)'
    BY <1>1, <1>4, <2>1 DEF Cared, CardsPlaced, RowPlaced, Alone, Place, Side
  <2>3. HeldTogether(u)'
    <3>1. CASE failures' = failures
      BY <1>1, <1>4, <2>1, <3>1 DEF Cared, HeldTogether, Unrecorded, Stuck, Side
    <3>2. CASE failures' # failures
      <4>1. rows[u] # None
        BY <1>1, <1>4, <3>2 DEF HoldsOnAbort, Tame, OpFits, Synced
      <4> QED BY <1>1, <4>1 DEF HeldTogether, Unrecorded
    <3> QED BY <3>1, <3>2
  <2> QED BY <1>5, <2>2, <2>3 DEF Cared
<1>8. pc' = "wait"
  BY <1>1 DEF EndCycle
<1> QED BY <1>0, <1>2, <1>3, <1>5, <1>6, <1>7, <1>8, OpStays

\* An operation that fails holds every card of a contact without a row that
\* another cycle could copy, or what it met is held already.
LEMMA FailedTogether ==
    ASSUME NEW own, AInv(own), pc \in OpSteps, NEW u \in Uid, u = cur.uid, Unrecorded(u),
           cur.kind \in PushKinds \cup {"Delete"}
    PROVE  \/ \E c \in FailedCards(cur, wrote) : c.side = "fastmail" /\ c.href = Mint[u]
           \/ failures["fastmail"][Mint[u]] # None /\ <<"fastmail", Mint[u]>> \notin Outdated
<1> DEFINE m == Mint[u]
           written == WrittenBy(cur, wrote)
<1>1. Tame(own, cur) /\ u \notin Synced
  BY OpKnown DEF Unrecorded, Synced
<1>2. cur.kind \in {"Create", "Conflict"}
  BY <1>1 DEF Tame, OpFits, Unrecorded, PushKinds
<1>3. cur.to \in Side /\ Place(own, Other(cur.to), cur.source.href, u)
  BY <1>1, <1>2, OpParts DEF Tame, OpPlaced, PushKinds
<1>4. ASSUME NEW k \in written \cup HeldBy(cur), k[1] = "fastmail", k[2].href = m
      PROVE  \E c \in FailedCards(cur, wrote) : c.side = "fastmail" /\ c.href = m
  <2>1. PICK l \in written \cup HeldBy(cur) :
            /\ l[1] = "fastmail" /\ l[2].href = m
            /\ l \in written \/ ~ \E w \in written : w[1] = l[1] /\ w[2].href = l[2].href
    BY <1>4
  <2>2. Failing(l[1], l[2].href, cur.uid, l[2].etag) \in FailedCards(cur, wrote)
    BY <2>1 DEF FailedCards
  <2> QED BY <2>1, <2>2 DEF Failing
<1>5. CASE cur.to = "icloud"
  <2>1. <<"fastmail", cur.source>> \in HeldBy(cur) /\ cur.source.href = m
    BY <1>2, <1>3, <1>5 DEF HeldBy, Other, Place
  <2> QED BY <1>4, <2>1
<1>6. CASE cur.to = "fastmail" /\ cur.kind = "Conflict"
  <2>1. <<"fastmail", cur.target>> \in HeldBy(cur)
    BY <1>1, <1>6 DEF HeldBy
  <2>2. cur.target.href = m
    BY <1>1, <1>6 DEF Tame, OpPlaced, Place
  <2> QED BY <1>4, <2>1, <2>2
<1>7. CASE cur.to = "fastmail" /\ cur.kind = "Create" /\ pc = "save"
  <2>1. wrote \in Resource /\ wrote.href = m
    BY <1>7 DEF AInv, WroteThere, IInv, Control, PushKinds, Place
  <2>2. wrote # None
    BY <2>1 DEF AInv, Calm
  <2>3. <<"fastmail", wrote>> \in written
    BY <1>7, <2>2 DEF WrittenBy, PushKinds
  <2> QED BY <1>4, <2>1, <2>3
<1>8. CASE cur.to = "fastmail" /\ cur.kind = "Create" /\ pc # "save"
  <2>1. Ahead(cur) /\ card["fastmail"][m] # None
    BY <1>8 DEF Ahead, Unrecorded
  <2>2. /\ failures["fastmail"][m] # None /\ snap["fastmail"][m].kind = "held"
        /\ listing["fastmail"][m] # 0
    BY <1>1, <1>8, <2>1 DEF Tame, OpAlone
  <2> QED BY <2>2 DEF Outdated
<1> QED BY <1>2, <1>3, <1>5, <1>6, <1>7, <1>8 DEF Side

\* Recording nothing changes nothing.
LEMMA RecordedNone ==
    ASSUME StoreTypeOK
    PROVE  Recorded({}) = failures
<1>1. failures \in [Side -> [Href -> Failure \cup {None}]]
  BY DEF StoreTypeOK
<1>2. Recorded({}) = [s \in Side |-> [h \in Href |-> failures[s][h]]]
  BY DEF Recorded
<1>3. [s \in Side |-> [h \in Href |-> failures[s][h]]] = failures
  BY <1>1
<1> QED BY <1>2, <1>3

\* An operation that fails.
LEMMA FailStays ==
    ASSUME NEW own, AInv(own), IInv', Refused \/ Rejected
    PROVE  Stays(own)'
<1>0. pc \in OpSteps /\ FailOp
  BY DEF Refused, Rejected, OpSteps
<1> PICK u \in Uid : u = cur.uid
  BY <1>0, OpKnown
<1> DEFINE m == Mint[u]
           cards == FailedCards(cur, wrote)
<1>1. /\ UNCHANGED <<card, ver, rows, listing, snap, todo>> /\ pc' = "apply" /\ wrote' = None
      /\ failures' = Recorded(cards)
      /\ failed' = failed \cup {<<c.side, c.href>> : c \in cards}
  BY <1>0 DEF FailOp, EndOp, Goto, RecordFailures, books
<1>2. BooksStep
  BY <1>1, BooksStutter DEF AInv, IInv, TypeOK
<1>3. /\ FailuresPlaced(own)'
      /\ \A s \in Side, h \in Href : ~ Place(own, s, h, u) => failures'[s][h] = failures[s][h]
  BY <1>0, <1>1, <1>2, RecordedStays
<1>4. Cared(own, u) /\ Tame(own, cur) /\ cur \in Op /\ \A op \in todo : op.uid # u
  BY <1>0, OpKnown
<1>5. Pending' = todo /\ WroteThere(own)'
  BY <1>1 DEF OpSteps, Pending, WroteThere
<1>6. Touches(own, u)
  <2>1. ASSUME NEW s \in Side, NEW h \in Href, ~ Place(own, s, h, u)
        PROVE  <<s, h>> \in failed' <=> <<s, h>> \in failed
    BY <1>0, <1>1, <2>1, FailedPlaced
  <2> QED BY <1>1, <1>3, <2>1, PlacedCard, OnePlace DEF Touches
<1>7. Cared(own, u)'
  <2>1. \A s \in Side : CardsOf(s, u)' = CardsOf(s, u)
    BY <1>1 DEF CardsOf
  <2>2. CardsPlaced(own, u)' /\ RowPlaced(own, u)' /\ Alone(u)'
    BY <1>1, <1>4, <2>1 DEF Cared, CardsPlaced, RowPlaced, Alone, Place, Side
  <2>3. Unrecorded(u)' = Unrecorded(u) /\ Running /\ "fastmail" \in Side /\ m \in Href
    BY <1>0, <1>1, MintIsHref DEF Unrecorded, Running, Side
  <2>4. HeldTogether(u)' /\ KeptTogether(u)'
    <3>1. CASE ~ Unrecorded(u)
      BY <2>3, <3>1 DEF HeldTogether, KeptTogether
    <3>2. CASE Unrecorded(u) /\ cur.kind \in PushKinds \cup {"Delete"}
      <4>1. cards \in SUBSET FailedCard
        BY <1>4, FailedCardsType DEF AInv, IInv, TypeOK
      <4>2. CASE \E c \in cards : c.side = "fastmail" /\ c.href = m
        <5>1. failures'["fastmail"][m] # None
          BY <1>1, <2>3, <4>1, <4>2, RecordingGrows
        <5>2. <<"fastmail", m>> \in failed'
          BY <1>1, <4>2
        <5> QED BY <5>1, <5>2 DEF HeldTogether, KeptTogether, Outdated
      <4>3. CASE failures["fastmail"][m] # None /\ <<"fastmail", m>> \notin Outdated
        <5>1. failures'["fastmail"][m] # None
          BY <1>1, <2>3, <4>1, <4>3, RecordingGrows
        <5>2. <<"fastmail", m>> \notin Outdated'
          BY <1>1, <2>3, <4>3 DEF Outdated
        <5> QED BY <5>1, <5>2 DEF HeldTogether, KeptTogether
      <4> QED BY <1>0, <3>2, <4>2, <4>3, FailedTogether
    <3>3. CASE cur.kind \notin PushKinds \cup {"Delete"}
      <4>1. cards = {}
        BY <1>0, <3>3, FailedPlaced
      <4>2. UNCHANGED <<failures, failed>>
        BY <1>1, <4>1, RecordedNone DEF AInv, IInv, TypeOK
      <4>3. Stuck(u)' = Stuck(u) /\ Outdated' = Outdated
        BY <1>1, <2>1, <4>2 DEF Stuck, Outdated, Side
      <4> QED BY <1>4, <2>3, <4>2, <4>3 DEF Cared, HeldTogether, KeptTogether
    <3> QED BY <3>1, <3>2, <3>3
  <2> QED BY <1>4, <1>5, <2>2, <2>4 DEF Cared
<1> QED BY <1>0, <1>1, <1>2, <1>3, <1>5, <1>6, <1>7, OpStays

\* What an operation leaves in the row is at its contact's hrefs, and so are
\* the failures it resolves.
LEMMA SavedPlaced ==
    ASSUME NEW own, AInv(own), pc = "save"
    PROVE  /\ ~ Drops => /\ RowAfter \in [Side -> Resource] /\ cur.body \in Body
                         /\ \A s \in Side : Place(own, s, RowAfter[s].href, cur.uid)
           /\ \A s \in Side, h \in Href : <<s, h>> \in Resolves => Place(own, s, h, cur.uid)
<1>1. pc \in OpSteps
  BY DEF OpSteps
<1>2. cur \in Op /\ Tame(own, cur) /\ (cur.kind \in PushKinds => wrote \in Resource)
  BY <1>1, OpKnown DEF AInv, IInv, Control
<1>3. ASSUME ~ Drops
      PROVE  /\ RowAfter \in [Side -> Resource] /\ cur.body \in Body
             /\ \A s \in Side : Place(own, s, RowAfter[s].href, cur.uid)
  <2>1. RowAfter \in [Side -> Resource] /\ cur.body \in Body
    BY <1>2, <1>3, RowAfterType
  <2>2. CASE cur.kind \in PushKinds
    <3>1. /\ Place(own, cur.to, wrote.href, cur.uid)
          /\ Place(own, Other(cur.to), cur.source.href, cur.uid)
      BY <1>2, <2>2 DEF AInv, WroteThere, Tame, OpPlaced
    <3>2. \A s \in Side : /\ s = cur.to => RowAfter[s] = wrote
                          /\ s # cur.to => RowAfter[s] = cur.source /\ s = Other(cur.to)
      BY <1>1, <2>2, OpParts DEF RowAfter, Other, Side
    <3> QED BY <2>1, <3>1, <3>2
  <2>3. CASE cur.kind \notin PushKinds
    <3>1. cur.kind \in {"Adopt", "Refresh"} /\ RowAfter = cur.res
      BY <1>2, <1>3, <2>3 DEF Op, PushOp, DeleteOp, RecordOp, ForgetOp, Drops, RowAfter
    <3> QED BY <1>2, <2>1, <3>1 DEF Tame, OpPlaced
  <2> QED BY <2>1, <2>2, <2>3
<1>4. ASSUME NEW s \in Side, NEW h \in Href, <<s, h>> \in Resolves
      PROVE  Place(own, s, h, cur.uid)
  <2>1. CASE cur.kind \in PushKinds
    <3>1. Place(own, Other(cur.to), cur.source.href, cur.uid)
      BY <1>2, <2>1 DEF Tame, OpPlaced
    <3>2. cur.kind = "Conflict" => Place(own, cur.to, cur.target.href, cur.uid)
      BY <1>2 DEF Tame, OpPlaced
    <3> QED BY <1>4, <2>1, <3>1, <3>2 DEF Resolves, PushKinds
  <2>2. CASE cur.kind = "Delete"
    BY <1>2, <1>4, <2>2 DEF Resolves, Tame, OpPlaced
  <2>3. CASE cur.kind = "Adopt"
    <3>1. h = cur.res[s].href
      BY <1>4, <2>3 DEF Resolves
    <3> QED BY <1>2, <2>3, <3>1 DEF Tame, OpPlaced
  <2>4. CASE cur.kind \notin PushKinds \cup {"Delete", "Adopt"}
    BY <1>4, <2>4 DEF Resolves, PushKinds
  <2> QED BY <2>1, <2>2, <2>3, <2>4
<1> QED BY <1>3, <1>4

\* An operation is recorded: its contact has a row, or no card on Fastmail.
LEMMA SaveStays ==
    ASSUME NEW own, AInv(own), IInv', Save
    PROVE  Stays(own)'
<1>0. pc = "save" /\ pc \in OpSteps
  BY DEF Save, OpSteps
<1> PICK u \in Uid : u = cur.uid
  BY <1>0, OpKnown
<1>1. /\ UNCHANGED <<card, ver, listing, snap, todo, failed>> /\ pc' = "apply" /\ wrote' = None
      /\ failures' = Cleared(Resolves)
      /\ \/ Drops /\ rows' = [rows EXCEPT ![u] = None]
         \/ ~ Drops /\ rows' = [rows EXCEPT ![u] = [res |-> RowAfter, body |-> cur.body]]
  BY DEF Save, EndOp, Goto, DropState, WriteState, books
<1>2. BooksStep
  BY <1>1, BooksStutter DEF AInv, IInv, TypeOK
<1>3. /\ ~ Drops => /\ RowAfter \in [Side -> Resource] /\ cur.body \in Body
                    /\ \A s \in Side : Place(own, s, RowAfter[s].href, u)
      /\ \A s \in Side, h \in Href : <<s, h>> \in Resolves => Place(own, s, h, u)
  BY <1>0, SavedPlaced
<1>4. Cared(own, u) /\ Tame(own, cur) /\ cur \in Op /\ cur \notin todo /\ \A op \in todo : op.uid # u
  BY <1>0, OpKnown
<1>5. Pending' = todo /\ WroteThere(own)'
  BY <1>1 DEF OpSteps, Pending, WroteThere
<1>6. \A s \in Side, h \in Href : failures'[s][h] \in {None, failures[s][h]}
  BY <1>1 DEF Cleared
<1>7. FailuresPlaced(own)'
  <2> SUFFICES ASSUME NEW s \in Side, NEW h \in Href, failures'[s][h] # None
               PROVE  /\ failures'[s][h].uid \in Uid /\ Place(own, s, h, failures'[s][h].uid)
                      /\ 0 < failures'[s][h].etag /\ failures'[s][h].etag <= ver'[s][h]
    BY DEF FailuresPlaced, Place
  <2>1. failures'[s][h] = failures[s][h]
    BY <1>6
  <2> QED BY <1>1, <2>1 DEF AInv, FailuresPlaced
<1>8. rows \in [Uid -> Row \cup {None}]
  BY DEF AInv, IInv, TypeOK, StoreTypeOK
<1>9. Touches(own, u)
  <2>1. ASSUME NEW s \in Side, NEW h \in Href, ~ Place(own, s, h, u)
        PROVE  failures'[s][h] = failures[s][h]
    BY <1>1, <1>3, <2>1 DEF Cleared
  <2> QED BY <1>1, <1>8, <2>1, PlacedCard, OnePlace DEF Touches
<1>10. Cared(own, u)'
  <2>1. \A s \in Side : CardsOf(s, u)' = CardsOf(s, u)
    BY <1>1 DEF CardsOf
  <2>2. CardsPlaced(own, u)' /\ Alone(u)'
    BY <1>1, <1>4, <2>1 DEF Cared, CardsPlaced, Alone, Place, Side
  <2>3. CASE Drops
    <3>1. rows'[u] = None
      BY <1>1, <1>8, <2>3
    <3>2. card["fastmail"][Mint[u]] = None
      BY <1>0, <1>4, <2>3 DEF Drops, Tame, OpAlone, Ahead
    <3>3. ~ Unrecorded(u)' /\ RowPlaced(own, u)'
      BY <1>1, <3>1, <3>2 DEF Unrecorded, RowPlaced
    <3> QED BY <1>4, <1>5, <2>2, <3>3 DEF Cared, HeldTogether, KeptTogether
  <2>4. CASE ~ Drops
    <3>1. rows'[u] = [res |-> RowAfter, body |-> cur.body]
      BY <1>1, <1>8, <2>4
    <3>2. rows'[u] # None
      BY <1>3, <2>4, <3>1, NoRowAssumption DEF Row
    <3>3. ~ Unrecorded(u)' /\ RowPlaced(own, u)'
      BY <1>3, <2>4, <3>1, <3>2 DEF Unrecorded, RowPlaced, Place
    <3> QED BY <1>4, <1>5, <2>2, <3>3 DEF Cared, HeldTogether, KeptTogether
  <2> QED BY <2>3, <2>4
<1> QED BY <1>0, <1>1, <1>2, <1>5, <1>7, <1>9, <1>10, OpStays

\* A DELETE, answered or not: the contact has a row until it is saved.
LEMMA DeleteStays ==
    ASSUME NEW own, AInv(own), IInv', Delete \/ (AnswerLost /\ pc = "delete")
    PROVE  Stays(own)'
<1>0. pc = "delete" /\ pc \in OpSteps
  BY DEF Delete, OpSteps
<1> PICK u \in Uid : u = cur.uid
  BY <1>0, OpKnown
<1>1. cur \in DeleteOp /\ cur.kind = "Delete" /\ cur.to \in Side /\ cur.target.href \in Href
  BY <1>0 DEF AInv, IInv, Control, DeleteOp, Resource
<1> PICK s \in Side, t \in Href : s = cur.to /\ t = cur.target.href
  BY <1>1
<1>2. Cared(own, u) /\ Tame(own, cur) /\ rows[u] # None /\ Place(own, s, t, u)
  BY <1>0, <1>1, OpKnown DEF Tame, OpFits, OpPlaced
<1>3. UNCHANGED rows /\ (Remove(s, t) \/ (card[s][t] = None /\ UNCHANGED books))
  BY <1>0 DEF Delete, AnswerLost, AbortCycle, RecordFailures, store
<1>4. /\ UNCHANGED ver /\ card'[s][t] = None
      /\ \A r \in Side, h \in Href : <<r, h>> # <<s, t>> => card'[r][h] = card[r][h]
  BY <1>3 DEF Remove, books, AInv, IInv, TypeOK, BooksTypeOK
<1>5. BooksStep
  BY <1>3, RemoveStep, BooksStutter DEF books, AInv, IInv, TypeOK
<1>6. failures' = failures \/ failures' = Recorded(FailedCards(cur, wrote))
  <2>1. wrote = None
    BY <1>0 DEF AInv, WroteThere
  <2> QED BY <1>0, <2>1 DEF Delete, AnswerLost, AbortCycle, RecordFailures, store
<1>7. /\ FailuresPlaced(own)'
      /\ \A r \in Side, h \in Href : ~ Place(own, r, h, u) => failures'[r][h] = failures[r][h]
  BY <1>0, <1>5, <1>6, RecordedStays
<1>8. \/ pc' = "wait" /\ Pending' = {} /\ ~ Running' /\ wrote' = None
      \/ pc' = "save" /\ Pending' = Pending /\ UNCHANGED <<listing, snap, todo, cur, wrote, failed>>
  <2>1. CASE Delete
    BY <1>0, <2>1 DEF Delete, Goto, Pending, OpSteps
  <2>2. CASE AnswerLost
    BY <2>2 DEF AnswerLost, AbortCycle, EndCycle, Pending, OpSteps, Running
  <2> QED BY <2>1, <2>2
<1>9. WroteThere(own)'
  BY <1>0, <1>1, <1>8 DEF WroteThere, AInv, PushKinds
<1>10. Touches(own, u)
  <2>1. ASSUME NEW r \in Side, NEW h \in Href, ~ Place(own, r, h, u)
        PROVE  card'[r][h] = card[r][h] /\ ver'[r][h] = ver[r][h]
    BY <1>2, <1>4, <2>1
  <2>2. ASSUME NEW r \in Side, NEW h \in Href, Place(own, r, h, u), card'[r][h] # None
        PROVE  card'[r][h].uid = u
    <3>1. card'[r][h] = card[r][h]
      BY <1>4, <2>2
    <3> QED BY <2>2, <3>1, PlacedCard, OnePlace
  <2>3. Running' => UNCHANGED failed
    BY <1>8 DEF Running, OpSteps
  <2> QED BY <1>3, <1>7, <2>1, <2>2, <2>3 DEF Touches
<1>11. Cared(own, u)'
  <2>1. \A r \in Side : CardsOf(r, u)' \subseteq CardsOf(r, u)
    BY <1>4 DEF CardsOf
  <2>2. \A r \in Side : \A h \in CardsOf(r, u)' : card'[r][h] = card[r][h]
    BY <1>4 DEF CardsOf
  <2>3. CardsPlaced(own, u)' /\ RowPlaced(own, u)' /\ Alone(u)'
    <3>1. CardsPlaced(own, u)'
      BY <1>2, <2>1, <2>2 DEF Cared, CardsPlaced, Place
    <3>2. RowPlaced(own, u)'
      BY <1>2, <1>3 DEF Cared, RowPlaced, Place
    <3>3. Alone(u)'
      BY <1>2, <2>1 DEF Cared, Alone, Side
    <3> QED BY <3>1, <3>2, <3>3
  <2>4. HeldTogether(u)' /\ KeptTogether(u)'
    BY <1>2, <1>3 DEF HeldTogether, KeptTogether, Unrecorded
  <2>5. ASSUME NEW op \in Pending', op.uid = u
        PROVE  Tame(own, op)'
    <3>1. op = cur /\ pc' = "save" /\ cur \notin todo' /\ UNCHANGED cur
      BY <1>0, <1>8, <2>5, OpKnown DEF Pending
    <3>2. OpPlaced(own, op)' /\ OpFits(op)'
      <4>1. OpPlaced(own, op)'
        BY <1>1, <1>2, <1>4, <3>1 DEF Tame, OpPlaced, Place, Dated, PushKinds
      <4>2. OpFits(op)'
        BY <1>2, <1>3, <3>1 DEF Tame, OpFits
      <4> QED BY <4>1, <4>2
    <3>3. card'["fastmail"][Mint[u]] = None
      <4>1. "fastmail" \in Side /\ Mint[u] \in Href
        BY MintIsHref DEF Side
      <4>2. CASE s = "icloud"
        BY <1>1, <1>2, <1>4, <4>1, <4>2 DEF Tame, OpAlone
      <4>3. CASE s = "fastmail"
        BY <1>2, <1>4, <4>3 DEF Place
      <4> QED BY <4>2, <4>3 DEF Side
    <3>4. OpAlone(op)'
      BY <1>1, <3>1, <3>3 DEF OpAlone
    <3> QED BY <3>2, <3>4 DEF Tame
  <2> QED BY <2>3, <2>4, <2>5 DEF Cared
<1> QED BY <1>0, <1>5, <1>7, <1>8, <1>9, <1>10, <1>11, OpStays

\* Where an accepted PUT writes: at its contact's place, and on iCloud over its
\* only card.
LEMMA PushPlaced ==
    ASSUME NEW own, AInv(own), AtHome(own)', pc = "put", Accepts,
           Write(cur.to, cur.target.href, Pushed)
    PROVE  /\ Place(own, cur.to, cur.target.href, cur.uid)
           /\ cur.to = "icloud" => CardsOf("icloud", cur.uid) \subseteq {cur.target.href}
           /\ cur.kind = "Conflict" => card[cur.to][cur.target.href] # None
<1>1. pc \in OpSteps
  BY DEF OpSteps
<1>2. cur \in PushOp /\ cur.to \in Side /\ cur.target.href \in Href /\ cur.kind \in PushKinds
  BY PushedIsCard DEF AInv, IInv, Control, PushOp
<1>3. Cared(own, cur.uid) /\ Tame(own, cur) /\ Grounded(cur) /\ cur.uid \in Uid /\ Ahead(cur)
  BY <1>1, OpKnown DEF Ahead
<1>4. CASE cur.kind \in {"Create", "Resurrect"}
  <2>1. cur.target.href = Mint[cur.uid]
    BY <1>3, <1>4 DEF Tame, OpPlaced, Minted
  <2>2. card'[cur.to][cur.target.href] = Pushed
    BY <1>2 DEF Write, AInv, IInv, TypeOK, BooksTypeOK
  <2>3. Pushed # None /\ Pushed.uid = cur.uid
    BY <1>2, PushedIsCard, NoneAssumption DEF Pushed
  <2>4. cur.to = "icloud" => own[cur.target.href] = cur.uid
    BY <1>2, <2>2, <2>3 DEF AtHome
  <2>5. cur.to = "icloud" => CardsOf("icloud", cur.uid) = {}
    BY <1>3, <1>4 DEF Tame, OpAlone
  <2> QED BY <1>2, <1>4, <2>1, <2>4, <2>5 DEF Place, Side
<1>5. CASE cur.kind \in {"Update", "Conflict"}
  <2>1. Place(own, cur.to, cur.target.href, cur.uid) /\ Dated(cur.to, cur.target)
    BY <1>3, <1>5 DEF Tame, OpPlaced
  <2>2. cur.target.etag # 0
    BY <1>2, <2>1 DEF Dated, PushOp, Resource
  <2>3. card[cur.to][cur.target.href] # None /\ ver[cur.to][cur.target.href] = cur.target.etag
    BY <2>2 DEF Accepts, Matches
  <2>4. card[cur.to][cur.target.href].uid = cur.uid
    <3>1. card[cur.to][cur.target.href] = Replaced(cur)
      BY <1>3, <1>5, <2>3 DEF Grounded, Holds
    <3> QED BY <3>1 DEF Replaced
  <2>5. cur.target.href \in CardsOf(cur.to, cur.uid)
    BY <1>2, <2>3, <2>4 DEF CardsOf
  <2>6. cur.to = "icloud" => CardsOf("icloud", cur.uid) \subseteq {cur.target.href}
    BY <1>3, <2>5 DEF Cared, Alone
  <2> QED BY <2>1, <2>3, <2>6
<1> QED BY <1>2, <1>4, <1>5 DEF PushKinds

\* A PUT, answered or not.
LEMMA PutStays ==
    ASSUME NEW own, AInv(own), IInv', AtHome(own)', Put \/ (AnswerLost /\ pc = "put")
    PROVE  Stays(own)'
<1>0. pc = "put" /\ pc \in OpSteps
  BY DEF Put, OpSteps
<1> PICK u \in Uid : u = cur.uid
  BY <1>0, OpKnown
<1>1. cur \in PushOp /\ cur.kind \in PushKinds /\ Pushed \in Card
  BY <1>0, PushedIsCard DEF AInv, IInv, Control, PushOp
<1> PICK s \in Side, t \in Href : s = cur.to /\ t = cur.target.href
  BY <1>1, PushedIsCard
<1>2. Accepts /\ Write(s, t, Pushed) /\ UNCHANGED rows
  BY <1>0 DEF Put, AnswerLost, AbortCycle, RecordFailures, store
<1>3. /\ Place(own, s, t, u)
      /\ s = "icloud" => CardsOf("icloud", u) \subseteq {t}
      /\ cur.kind = "Conflict" => card[s][t] # None
  BY <1>0, <1>2, PushPlaced
<1>4. Cared(own, u) /\ Tame(own, cur) /\ Ahead(cur)
  BY <1>0, OpKnown DEF Ahead
<1>5. /\ card'[s][t] = Pushed /\ ver'[s][t] = ver[s][t] + 1 /\ ver[s][t] \in Nat
      /\ \A r \in Side, h \in Href : <<r, h>> # <<s, t>> =>
            card'[r][h] = card[r][h] /\ ver'[r][h] = ver[r][h]
  BY <1>2 DEF Write, AInv, IInv, TypeOK, BooksTypeOK
<1>6. Pushed.uid = u /\ Pushed.body # Unreadable /\ Pushed # None
  BY <1>1, <1>4, NoneAssumption DEF Pushed, Tame, OpPlaced
<1>7. BooksStep
  BY <1>1, <1>2, WriteStep DEF AInv, IInv, TypeOK
<1>8. wrote = None
  BY <1>0 DEF AInv, WroteThere
<1>9. failures' = failures \/ (HoldsOnAbort(cur) /\ failures' = Recorded(FailedCards(cur, wrote)))
  BY <1>0, <1>8 DEF Put, AnswerLost, AbortCycle, RecordFailures, store
<1>10. /\ FailuresPlaced(own)'
       /\ \A r \in Side, h \in Href : ~ Place(own, r, h, u) => failures'[r][h] = failures[r][h]
  BY <1>0, <1>7, <1>9, RecordedStays
<1>11. \/ pc' = "wait" /\ Pending' = {} /\ ~ Running' /\ wrote' = None
       \/ /\ pc' = "save" /\ Pending' = Pending /\ UNCHANGED <<listing, snap, todo, cur, failed, failures>>
          /\ wrote' = [href |-> t, etag |-> ver[s][t] + 1]
  <2>1. CASE Put
    <3>1. /\ pc' = "save" /\ wrote' = [href |-> t, etag |-> ver[s][t] + 1]
          /\ UNCHANGED <<listing, snap, todo, cur, failed, failures>>
      BY <2>1 DEF Put, Goto, store, AInv, Calm
    <3> QED BY <1>0, <3>1 DEF Pending, OpSteps
  <2>2. CASE AnswerLost
    BY <2>2 DEF AnswerLost, AbortCycle, EndCycle, Pending, OpSteps, Running
  <2> QED BY <2>1, <2>2
<1>12. WroteThere(own)'
  <2>1. CASE pc' = "wait"
    BY <1>11, <2>1 DEF WroteThere
  <2>2. CASE pc' = "save"
    <3>1. /\ UNCHANGED cur /\ wrote'.href = t /\ wrote'.etag = ver[s][t] + 1
          /\ wrote'.etag = ver'[s][t]
      BY <1>5, <1>11, <2>2
    <3>2. Dated(s, wrote)'
      BY <1>5, <3>1 DEF Dated
    <3> QED BY <1>3, <2>2, <3>1, <3>2 DEF WroteThere, Place
  <2> QED BY <1>11, <2>1, <2>2
<1>13. Touches(own, u)
  <2>1. ASSUME NEW r \in Side, NEW h \in Href, ~ Place(own, r, h, u)
        PROVE  card'[r][h] = card[r][h] /\ ver'[r][h] = ver[r][h]
    BY <1>3, <1>5, <2>1
  <2>2. ASSUME NEW r \in Side, NEW h \in Href, Place(own, r, h, u), card'[r][h] # None
        PROVE  card'[r][h].uid = u
    <3>1. CASE <<r, h>> = <<s, t>>
      BY <1>5, <1>6, <3>1
    <3>2. CASE <<r, h>> # <<s, t>>
      <4>1. card'[r][h] = card[r][h]
        BY <1>5, <3>2
      <4> QED BY <2>2, <4>1, PlacedCard, OnePlace
    <3> QED BY <3>1, <3>2
  <2>3. Running' => UNCHANGED failed
    BY <1>11 DEF Running, OpSteps
  <2> QED BY <1>2, <1>10, <2>1, <2>2, <2>3 DEF Touches
<1>14. \A r \in Side : \A h \in CardsOf(r, u)' :
          \/ r = s /\ h = t
          \/ h \in CardsOf(r, u) /\ card'[r][h] = card[r][h] /\ ver'[r][h] = ver[r][h]
  BY <1>5 DEF CardsOf
<1>15. CardsPlaced(own, u)' /\ RowPlaced(own, u)' /\ Alone(u)'
  <2>1. CardsPlaced(own, u)'
    <3> SUFFICES ASSUME NEW r \in Side, NEW h \in CardsOf(r, u)'
                 PROVE  Place(own, r, h, u) /\ card'[r][h].body # Unreadable
      BY DEF CardsPlaced, Place
    <3> QED BY <1>3, <1>4, <1>5, <1>6, <1>14 DEF Cared, CardsPlaced
  <2>2. RowPlaced(own, u)'
    BY <1>2, <1>4 DEF Cared, RowPlaced, Place
  <2>3. Alone(u)'
    <3> SUFFICES ASSUME NEW g \in CardsOf("icloud", u)', NEW h \in CardsOf("icloud", u)'
                 PROVE  g = h
      BY DEF Alone
    <3> QED BY <1>3, <1>4, <1>14 DEF Cared, Alone, Side
  <2> QED BY <2>1, <2>2, <2>3
<1>16. ASSUME Unrecorded(u)', failures' = failures
       PROVE  Stuck(u)' = {} \/ (Unrecorded(u) /\ Stuck(u)' = Stuck(u))
  <2>1. CASE s = "icloud"
    <3>1. ASSUME NEW h \in Stuck(u)'
          PROVE  FALSE
      <4>1. h \in CardsOf("icloud", u)' /\ "icloud" \in Side
        BY DEF Stuck, Side
      <4>2. h = t
        BY <1>3, <1>14, <2>1, <4>1
      <4>3. failures["icloud"][t] # None /\ failures["icloud"][t].etag = ver'["icloud"][t]
        BY <1>16, <4>2 DEF Stuck
      <4>4. failures["icloud"][t].etag <= ver["icloud"][t]
        BY <4>1, <4>3 DEF AInv, FailuresPlaced
      <4> QED BY <1>5, <2>1, <4>3, <4>4
    <3> QED BY <3>1
  <2>2. CASE s = "fastmail"
    <3>1. /\ CardsOf("icloud", u)' = CardsOf("icloud", u)
          /\ \A h \in Href : ver'["icloud"][h] = ver["icloud"][h]
      BY <1>5, <2>2 DEF CardsOf, Side
    <3>2. Stuck(u)' = Stuck(u)
      BY <1>16, <3>1 DEF Stuck, CardsOf
    <3>3. rows[u] = None
      BY <1>2, <1>16 DEF Unrecorded
    <3>4. cur.kind \in {"Create", "Conflict"}
      BY <1>1, <1>4, <3>3 DEF Tame, OpFits, PushKinds
    <3>5. CASE cur.kind = "Create"
      BY <1>4, <2>2, <3>2, <3>5 DEF Tame, OpAlone
    <3>6. CASE cur.kind = "Conflict"
      BY <1>3, <2>2, <3>2, <3>3, <3>6 DEF Unrecorded, Place
    <3> QED BY <3>4, <3>5, <3>6
  <2> QED BY <2>1, <2>2 DEF Side
<1>17. HeldTogether(u)' /\ (Running' => KeptTogether(u)')
  <2>1. CASE ~ Unrecorded(u)'
    BY <2>1 DEF HeldTogether, KeptTogether
  <2>2. CASE Unrecorded(u)'
    <3>1. rows[u] = None
      BY <1>2, <2>2 DEF Unrecorded
    <3>2. failures' = failures
      BY <1>4, <1>9, <3>1 DEF HoldsOnAbort, Tame, OpFits, Synced
    <3>3. Stuck(u)' = {} \/ (Unrecorded(u) /\ Stuck(u)' = Stuck(u))
      BY <1>16, <2>2, <3>2
    <3>4. HeldTogether(u)'
      BY <1>4, <3>2, <3>3 DEF Cared, HeldTogether
    <3>5. ASSUME Running'
          PROVE  KeptTogether(u)'
      <4>1. Outdated' = Outdated /\ Running
        BY <1>0, <1>11, <3>2, <3>5 DEF Outdated, Running
      <4> QED BY <1>4, <3>3, <4>1 DEF Cared, KeptTogether
    <3> QED BY <3>4, <3>5
  <2> QED BY <2>1, <2>2
<1>18. ASSUME NEW op \in Pending', op.uid = u
       PROVE  Tame(own, op)'
  <2>1. op = cur /\ pc' = "save" /\ cur \notin todo' /\ UNCHANGED cur
    BY <1>0, <1>11, <1>18, OpKnown DEF Pending
  <2>2. \A r \in Side, x \in Resource : Dated(r, x) => Dated(r, x)'
    <3> SUFFICES ASSUME NEW r \in Side, NEW x \in Resource, Dated(r, x) PROVE Dated(r, x)'
      OBVIOUS
    <3>1. x.href \in Href /\ x.etag \in Nat
      BY DEF Resource
    <3>2. ver[r][x.href] \in Nat /\ ver'[r][x.href] \in Nat /\ ver[r][x.href] <= ver'[r][x.href]
      BY <1>7, <3>1 DEF BooksStep, AInv, IInv, TypeOK, BooksTypeOK
    <3> QED BY <3>1, <3>2 DEF Dated
  <2>3. OpPlaced(own, op)'
    <3>1. cur.to \in Side /\ Other(cur.to) \in Side /\ cur.source \in Resource /\ cur.target \in Resource
      BY <1>0, <1>1, OpParts
    <3> QED BY <1>1, <1>4, <2>1, <2>2, <3>1 DEF Tame, OpPlaced, Place, PushKinds, Minted
  <2>4. OpFits(op)'
    BY <1>2, <1>4, <2>1 DEF Tame, OpFits
  <2>5. OpAlone(op)'
    BY <1>1, <2>1 DEF OpAlone, Ahead, PushKinds
  <2> QED BY <2>3, <2>4, <2>5 DEF Tame
<1>19. Cared(own, u)'
  BY <1>15, <1>17, <1>18 DEF Cared
<1>20. \/ pc' = "wait"
       \/ pc' = "save" /\ UNCHANGED <<listing, snap, todo, cur>>
  BY <1>11
<1> QED BY <1>0, <1>7, <1>10, <1>12, <1>13, <1>19, <1>20, OpStays

\* Every step keeps it, as long as iCloud keeps its hrefs.
LEMMA NextAInv ==
    ASSUME NEW own
    PROVE  AInv(own) /\ AtHome(own)' /\ [Next]_vars => AInv(own)'
<1> SUFFICES ASSUME AInv(own), AtHome(own)', [Next]_vars PROVE AInv(own)'
  OBVIOUS
<1>1. Calm /\ ~ EditsInCycle /\ IInv /\ TrueInv /\ Reading
  BY DEF AInv, Calm
<1>2. IInv' /\ TrueInv' /\ Reading'
  BY <1>1, NextIInv, NextTrueInv, NextReading
<1>3. Stays(own)'
  <2>1. CASE UserEdit \/ UserDelete
    BY <1>2, <2>1, UserStays
  <2>2. CASE Finish \/ \E s \in Side, h \in Href : BackoffPasses(s, h)
    BY <1>2, <2>2, RestStays
  <2>3. CASE Reset
    BY <1>2, <2>3, ResetStays
  <2>4. CASE UNCHANGED vars
    BY <2>4, StutterStays
  <2>5. CASE Wake \/ CheckDelta \/ TokenInvalid \/ List \/ Fetch \/ Crash
    BY <1>2, <2>5, ReadStays
  <2>6. CASE Plan
    BY <1>2, <2>6, PlanStays
  <2>7. CASE StartOp \/ Archive
    BY <2>7, StartStays
  <2>8. CASE Put \/ (AnswerLost /\ pc = "put")
    BY <1>2, <2>8, PutStays
  <2>9. CASE Delete \/ (AnswerLost /\ pc = "delete")
    BY <1>2, <2>9, DeleteStays
  <2>10. CASE Save
    BY <1>2, <2>10, SaveStays
  <2>11. CASE Refused \/ Rejected
    BY <1>2, <2>11, FailStays
  <2>12. CASE Unsent
    BY <1>2, <2>12, UnsentStays
  <2>13. ~ ReadBack
    BY DEF ReadBack, AInv, WroteThere
  <2>14. AnswerLost => pc \in {"put", "delete"}
    BY DEF AnswerLost
  <2> QED BY <2>1, <2>2, <2>3, <2>4, <2>5, <2>6, <2>7, <2>8, <2>9, <2>10, <2>11, <2>12, <2>13, <2>14
          DEF Next, Daemon, Faulty
<1>4. Calm'
  BY <1>1 DEF Calm
<1> QED BY <1>2, <1>3, <1>4 DEF AInv, Stays

\* Nothing is synced yet.
LEMMA InitAInv ==
    ASSUME NEW own, Calm
    PROVE  Init => AInv(own)
<1> SUFFICES ASSUME Init PROVE AInv(own)
  OBVIOUS
<1>1. /\ \A s \in Side, h \in Href : card[s][h] = None /\ failures[s][h] = None
      /\ \A u \in Uid : rows[u] = None
      /\ pc = "wait" /\ wrote = None /\ Pending = {} /\ ~ Running
  BY DEF Init, Calm, Pending, OpSteps, Running
<1>2. IInv /\ TrueInv
  BY InitIInv, InitTrueInv
<1>3. Reading
  <2>1. \A s \in Side : ~ HasListed(s) /\ ~ HasFetched(s) /\ sinceStored[s]
    BY DEF Init, HasListed, HasFetched
  <2> QED BY <1>1, <2>1 DEF Reading, BooksSane, ListedNow, SnapExact, ReadStill, SnapHeld
<1>4. FailuresPlaced(own) /\ WroteThere(own)
  BY <1>1 DEF FailuresPlaced, WroteThere
<1>5. ASSUME NEW u \in Uid
      PROVE  Cared(own, u)
  <2>1. \A s \in Side : CardsOf(s, u) = {}
    BY <1>1 DEF CardsOf
  <2>2. Stuck(u) = {}
    BY <2>1 DEF Stuck, Side
  <2> QED BY <1>1, <2>1, <2>2 DEF Cared, CardsPlaced, RowPlaced, Alone, HeldTogether, Side
<1> QED BY <1>2, <1>3, <1>4, <1>5 DEF AInv

\* A contact's cards are one or none.
LEMMA OneOrNone ==
    ASSUME NEW own, AInv(own)
    PROVE  NoDuplicates
<1> SUFFICES ASSUME NEW s \in Side, NEW u \in Uid PROVE Cardinality(CardsOf(s, u)) <= 1
  BY DEF NoDuplicates
<1>1. CASE CardsOf(s, u) = {}
  <2>1. Cardinality(CardsOf(s, u)) = 0
    BY <1>1, FS_EmptySet
  <2> QED BY <2>1
<1>2. CASE CardsOf(s, u) # {}
  <2>1. PICK h \in CardsOf(s, u) : TRUE
    BY <1>2
  <2>2. CardsOf(s, u) = {h}
    BY <2>1, OneCard
  <2>3. Cardinality(CardsOf(s, u)) = 1
    BY <2>2, FS_Singleton, Zenon
  <2> QED BY <2>3
<1> QED BY <1>1, <1>2

\* Crashes, lost answers and failed operations never make the daemon copy a
\* contact beside its own copy, however many contacts there are, provided
\* people edit iCloud only, between cycles, no href of iCloud changes contact,
\* and answers to writes carry ETags (href::mint_href, and held groups
\* released together).
THEOREM CopiedOnce ==
    ASSUME NEW own, Calm
    PROVE  Spec /\ []AtHome(own) => []NoDuplicates
<1>1. Init => AInv(own)
  BY InitAInv
<1>2. AInv(own) /\ AtHome(own)' /\ [Next]_vars => AInv(own)'
  BY NextAInv
<1>3. AInv(own) => NoDuplicates
  BY OneOrNone
<1> QED BY <1>1, <1>2, <1>3, PTL DEF Spec

\* With one contact no href changes hands, and nothing is asked of iCloud's
\* hrefs (href::mint_href).
THEOREM OneContactCopiedOnce ==
    ASSUME Calm, \A u, v \in Uid : u = v
    PROVE  Spec => []NoDuplicates
<1> DEFINE own == [h \in Href |-> CHOOSE u \in Uid : TRUE]
<1>1. TypeOK => AtHome(own)
  <2> SUFFICES ASSUME TypeOK, NEW h \in Href, card["icloud"][h] # None
               PROVE  card["icloud"][h].uid = own[h]
    BY DEF AtHome
  <2>1. card["icloud"][h].uid \in Uid
    BY DEF TypeOK, BooksTypeOK, Side, Card
  <2>2. own[h] \in Uid
    BY <2>1
  <2> QED BY <2>1, <2>2
<1> HIDE DEF own
<1>2. Init => AInv(own)
  BY InitAInv
<1>3. AInv(own) /\ AtHome(own)' /\ [Next]_vars => AInv(own)'
  BY NextAInv
<1>4. AInv(own) => NoDuplicates
  BY OneOrNone
<1> QED BY <1>1, <1>2, <1>3, <1>4, TypeCorrect, PTL DEF Spec
=============================================================================
