------------------------------- MODULE Baseline -------------------------------
(***************************************************************************)
(* Pairing two address books that were never synced, one operation at a    *)
(* time: core/src/service/{executor,replay,apply}.rs running what Pairing  *)
(* and core/src/sync/{cycle,relink}.rs plan.  A pair under two UIDs        *)
(* deletes its Fastmail card and creates it again under the iCloud UID;    *)
(* the journal remembers the card in between.                              *)
(*                                                                         *)
(* A contact leaves this model when its row is written: people edit the    *)
(* cards of unsynced contacts only.  Cycles never find themselves idle.    *)
(* An ETag stands for the card it was given to.                            *)
(***************************************************************************)
EXTENDS Reports

CONSTANTS
    Uid,        \* the UIDs of all cards
    Content,    \* the contents people write
    Books,      \* the address books a run may begin with
    None,
    MaxEdits,   \* bound: what people do to the address books
    Faults      \* bound: Faults[n] is what may go wrong, and where, as the
                \* n-th fault, a set of <<kind, step>>

ASSUME BaselineBounds == MaxEdits \in Nat /\ Len(Faults) \in Nat

VARIABLES
    book,      \* book[s]: the cards on side s
    rows,      \* rows[u]: the content last synced of contact u, or None
    conflicts, \* the conflict history
    failures,  \* the card failures
    journal,   \* the Recreates that have deleted, or are about to delete
    pc,        \* what the daemon does next
    seen,      \* seen[s]: the cards of s as listed and fetched
    pending,   \* journal entries still to replay
    renamed,   \* <<old, new>>: UIDs that replaying found replaced
    held,      \* the cards this cycle leaves alone because they failed
    todo,      \* operations planned and not yet run
    cur,       \* the operation being run, or None
    wrote,     \* the cards cur wrote
    failed,    \* the cards a failure was recorded for this cycle
    report,    \* what pairing decided in this cycle, or None
    summary,   \* the counts of this cycle
    told,      \* what reports said, and what was forgotten, up to now
    began,     \* the address books the run began with
    owed,      \* versions people wrote and did not take back
    edits, faults

store == <<rows, conflicts, failures, journal>>
said == <<report, summary, told>>
cycle == <<pc, seen, pending, renamed, held, todo, cur, wrote, failed, said>>
vars == <<book, store, cycle, began, owed, edits, faults>>

(***************************************************************************)
(* Cards.  A card's href is the one its owner gave it, or the one the      *)
(* daemon mints for its UID.                                               *)
(***************************************************************************)
At(s, card) == {c \in book[s] : c.uid = card.uid /\ c.at = card.at}

SameHref(c, d) == c.uid = d.uid /\ c.at = d.at

\* What a card says is a record, with a name.
IsContent(x) == "name" \in DOMAIN x /\ x = [f \in DOMAIN x |-> x[f]]

ASSUME ContentAssumption == \A content \in Content : IsContent(content)

\* A run begins with so many cards, one at an href.
ASSUME BooksAssumption ==
    \A start \in Books :
        /\ start = [s \in Side |-> start[s]]
        /\ \A s \in Side : IsFiniteSet(start[s])
        /\ \A s \in Side : \A c \in start[s] : c.uid \in Uid /\ IsContent(c.content)
        /\ \A s \in Side : \A c, d \in start[s] :
              /\ c = [uid |-> c.uid, at |-> c.at, content |-> c.content, photo |-> c.photo]
              /\ SameHref(c, d) => c = d

Listed(s, card) == \E c \in seen[s] : SameHref(c, card)

Minted(u, content, photo) ==
    [uid |-> u, at |-> "minted", content |-> content, photo |-> photo]

\* A version of a card: its content and its photo.
Version(c) == <<c.content, c.photo>>

Init ==
    /\ book \in Books /\ began = book
    /\ owed = UNION {{Version(c) : c \in book[s]} : s \in Side}
    /\ rows = [u \in Uid |-> None]
    /\ conflicts = {} /\ failures = {} /\ journal = {}
    /\ pc = "wait" /\ seen = [s \in Side |-> {}]
    /\ pending = {} /\ renamed = {} /\ held = {}
    /\ todo = {} /\ cur = None /\ wrote = {} /\ failed = {}
    /\ report = None /\ summary = CycleSummary
    /\ told = [warned |-> {}, unsaid |-> {}, aliases |-> {}, forgotten |-> {}]
    /\ edits = 0 /\ faults = 0

(***************************************************************************)
(* Planning (planner::plan for cards without a row, pairing, relinking).   *)
(***************************************************************************)

\* Failures of one operation are released together, once each is due: its
\* backoff has passed, or its card is not the one that failed.
Due(f, view) == f.due \/ f.card \notin view[f.side]

HeldCards(view) ==
    {<<f.side, f.card>> : f \in
        {f \in failures : \E g \in failures : g.group = f.group /\ ~ Due(g, view)}}

\* The cards of side s the planner may use.
Free(view, s) == {c \in view[s] : ~ \E h \in HeldCards(view) : h[1] = s /\ SameHref(h[2], c)}

\* UIDs at two hrefs of one side.
Duplicated(view) ==
    UNION {{c.uid : c \in {c \in Free(view, s) : \E d \in Free(view, s) : d # c /\ d.uid = c.uid}} :
              s \in Side}

Unsynced(view) ==
    [s \in Side |->
        {c \in Free(view, s) : rows[c.uid] = None /\ c.uid \notin Duplicated(view)}]

\* KnownCards: the cards read, and every synced contact as last synced.
Known(view) ==
    [s \in Side |-> Free(view, s) \cup
        {Minted(u, rows[u], FALSE) : u \in
            {u \in Uid : rows[u] # None /\ \A c \in Free(view, s) : c.uid # u}}]

(***************************************************************************)
(* Operations.  Each runs its steps in this order, those it has:           *)
(*   archive  the two versions of a conflict go to the history             *)
(*   first    a PUT                                                        *)
(*   journal  the card that a DELETE will leave only here                  *)
(*   delete   a DELETE on Fastmail                                         *)
(*   then     a PUT                                                        *)
(*   save     the row, in one transaction with clearing failures and the   *)
(*            journal entry                                                *)
(* A PUT replaces exactly the card in `over` (If-Match), and with none     *)
(* creates one (If-None-Match).                                            *)
(***************************************************************************)
StateOnly(kind, u, content, cards) ==
    [kind |-> kind, uid |-> u, content |-> content, cards |-> cards, archive |-> {},
     first |-> {}, journal |-> {}, delete |-> {}, then |-> {}]

Put(s, over, card) == [side |-> s, over |-> over, card |-> card]

Both(m) == {<<"icloud", m[1]>>, <<"fastmail", m[2]>>}

AdoptOf(m) == StateOnly("Adopt", m[1].uid, m[1].content, Both(m))

Winning(m) == IF Winner = "icloud" THEN m[1] ELSE m[2]
Losing(m) == IF Winner = "icloud" THEN m[2] ELSE m[1]

VersionsOf(m) == [uid |-> m[1].uid, icloud |-> m[1], fastmail |-> m[2]]

\* The winner's content; the overwritten card keeps its own photo.
ConflictOf(m) ==
    [StateOnly("Conflict", m[1].uid, Winning(m).content, Both(m)) EXCEPT
        !.archive = {VersionsOf(m)},
        !.then = {Put(Other(Winner), {Losing(m)},
                      [Losing(m) EXCEPT !.content = Winning(m).content])}]

\* What the journal keeps of a card that is about to be replaced.
Journaled(m, new) == [uid |-> m[1].uid, icloud |-> m[1], old |-> m[2], new |-> new]

\* Faulty: nothing is journaled.
RecreateAtOnce(m, content, archive, first) ==
    [StateOnly("Recreate", m[1].uid, content, Both(m)) EXCEPT
        !.archive = archive, !.first = first,
        !.delete = {m[2]},
        !.then = {Put("fastmail", {}, Minted(m[1].uid, content, m[2].photo))}]

\* The Fastmail card takes the iCloud card's UID and keeps its own photo.
Recreate(m, content, archive, first) ==
    LET new == Minted(m[1].uid, content, m[2].photo) IN
    [StateOnly("Recreate", m[1].uid, content, Both(m)) EXCEPT
        !.archive = archive, !.first = first,
        !.journal = {Journaled(m, new)},
        !.delete = {m[2]},
        !.then = {Put("fastmail", {}, new)}]

ContentPair(m) == Recreate(m, m[1].content, {}, {})

IdentityPair(m) ==
    Recreate(m, Winning(m).content, {VersionsOf(m)},
             IF Winner = "icloud" THEN {}
             ELSE {Put("icloud", {m[1]}, [m[1] EXCEPT !.content = m[2].content])})

CreateOf(s, c) ==
    [StateOnly("Create", c.uid, c.content, {<<s, c>>}) EXCEPT
        !.then = {Put(Other(s), {}, Minted(c.uid, c.content, c.photo))}]

\* A Fastmail group that lists a replaced UID: rewritten there first.
CopyGroup(c, aliases) ==
    LET New(u) == IF \E a \in aliases : a[1] = u
                  THEN (CHOOSE a \in aliases : a[1] = u)[2] ELSE u
        content == [c.content EXCEPT !.members = {New(u) : u \in @}]
    IN  [StateOnly("CopyGroup", c.uid, content, {<<"fastmail", c>>}) EXCEPT
            !.first = {Put("fastmail", {c}, [c EXCEPT !.content = content])},
            !.then = {Put("icloud", {}, Minted(c.uid, content, c.photo))}]

CopyOf(s, c, aliases) ==
    IF s = "fastmail" /\ \E a \in aliases : a[1] \in c.content.members
    THEN CopyGroup(c, aliases) ELSE CreateOf(s, c)

PairedIn(view) == Paired(Unsynced(view), Known(view))

CycleOps(view) ==
    LET P == PairedIn(view)
        recreated == P.byContent \cup P.byIdentity
        aliases == renamed \cup {<<m[2].uid, m[1].uid>> : m \in recreated}
    IN  {AdoptOf(m) : m \in {m \in P.byUid : SameContent(m[1], m[2])}}
        \cup {ConflictOf(m) : m \in {m \in P.byUid : ~ SameContent(m[1], m[2])}}
        \cup {ContentPair(m) : m \in P.byContent}
        \cup {IdentityPair(m) : m \in P.byIdentity}
        \cup UNION {{CopyOf(s, c, aliases) : c \in P.copied[s]} : s \in Side}

\* Pairs first, in the order of the passes, then copies.
Rank(op) ==
    CASE op.kind \in {"Adopt", "Conflict"} -> 1
      [] op.kind = "Recreate" /\ op.archive = {} -> 2
      [] op.kind = "Recreate" /\ op.archive # {} -> 3
      [] op.kind \in {"Create", "CopyGroup"} -> 4

(***************************************************************************)
(* People and time.                                                        *)
(***************************************************************************)
MayEdit(s, c) ==
    /\ edits < MaxEdits /\ edits' = edits + 1
    /\ c \in book[s] /\ rows[c.uid] = None
    /\ UNCHANGED <<store, cycle, began, faults>>

UserEdit ==
    \E s \in Side, content \in Content :
        \E c \in book[s] :
            /\ MayEdit(s, c)
            /\ c.content.name = content.name /\ c.content # content
            /\ book' = [book EXCEPT ![s] = (@ \ {c}) \cup {[c EXCEPT !.content = content]}]
            /\ owed' = (owed \ {Version(c)}) \cup {<<content, c.photo>>}

UserDelete ==
    \E s \in Side : \E c \in book[s] :
        /\ MayEdit(s, c)
        /\ book' = [book EXCEPT ![s] = @ \ {c}]
        /\ owed' = owed \ {Version(c)}

BackoffPasses ==
    /\ pc = "wait"
    /\ \E f \in failures :
        /\ ~ f.due
        /\ failures' = (failures \ {f}) \cup {[f EXCEPT !.due = TRUE]}
    /\ UNCHANGED <<book, rows, conflicts, journal, cycle, began, owed, edits, faults>>
(***************************************************************************)
(* How a cycle begins and ends.                                            *)
(***************************************************************************)
EndCycle ==
    /\ pc' = "wait" /\ seen' = [s \in Side |-> {}]
    /\ pending' = {} /\ renamed' = {} /\ held' = {}
    /\ todo' = {} /\ cur' = None /\ wrote' = {} /\ failed' = {}
    /\ report' = None /\ summary' = CycleSummary

\* The UIDs to rewrite in groups, and a report that is not written yet, live
\* as long as their cycle.
CutOff ==
    /\ EndCycle
    /\ told' = [told EXCEPT
            !.forgotten = @ \cup told.aliases \cup {a[1] : a \in renamed},
            !.unsaid = @ \cup IF report = None THEN {} ELSE report.groups_with_unmapped_members,
            !.aliases = {}]

\* Interrupted Recreates are finished before anything is planned.
Wake ==
    /\ pc = "wait"
    /\ pc' = IF journal = {} THEN "read icloud" ELSE "list fastmail"
    /\ pending' = journal
    /\ UNCHANGED <<book, store, seen, renamed, held, todo, cur, wrote, failed, said, began, owed, edits, faults>>

\* One side listed, and in a cycle fetched as well.
Look ==
    /\ \E look \in {<<"list fastmail", "fastmail", "list icloud">>,
                    <<"list icloud", "icloud", "replay">>,
                    <<"read icloud", "icloud", "read fastmail">>,
                    <<"read fastmail", "fastmail", "plan">>} :
        /\ pc = look[1] /\ pc' = look[3]
        /\ seen' = [seen EXCEPT ![look[2]] = book[look[2]]]
    /\ UNCHANGED <<book, store, pending, renamed, held, todo, cur, wrote, failed, said, began, owed, edits, faults>>

Fault(kind) ==
    /\ faults < Len(Faults)
    /\ <<kind, pc>> \in Faults[faults + 1]
    /\ faults' = faults + 1

\* The process stops, or a listing fails, or the state store is unreachable.
Crash ==
    /\ pc # "wait"
    /\ Fault("crash") /\ CutOff
    /\ UNCHANGED <<book, store, began, owed, edits>>

(***************************************************************************)
(* Replaying the journal (replay.rs).                                      *)
(***************************************************************************)
\* Faulty: a card that was never deleted does not count.
FinishedIfPut(j) == Listed("fastmail", j.new)

Finished(j) == Listed("fastmail", j.new) \/ Listed("fastmail", j.old)

\* The contact was deleted on iCloud meanwhile, which deletes it here too.
Abandoned(j) == ~ Finished(j) /\ ~ Listed("icloud", j.icloud)

\* Faulty: the replaced UID is forgotten with the entry.
NextUnnamed(j) == pending' = pending \ {j} /\ UNCHANGED renamed

NextEntry(j) ==
    /\ pending' = pending \ {j}
    /\ renamed' = IF Listed("fastmail", j.old) THEN renamed
                  ELSE renamed \cup {<<j.old.uid, j.uid>>}

DropEntry ==
    /\ pc = "replay"
    /\ \E j \in pending :
        /\ Finished(j) \/ Abandoned(j)
        /\ journal' = journal \ {j}
        /\ NextEntry(j)
        /\ owed' = IF Abandoned(j) THEN owed \ {Version(j.new)} ELSE owed
    /\ UNCHANGED <<book, rows, conflicts, failures, pc, seen, held, todo, cur, wrote, failed,
                   said, began, edits, faults>>

\* The journaled card is put back; its entry goes next (it is now listed).
ReplayPut ==
    /\ pc = "replay"
    /\ \E j \in pending :
        /\ ~ Finished(j) /\ ~ Abandoned(j)
        /\ At("fastmail", j.new) = {}
        /\ book' = [book EXCEPT !["fastmail"] = @ \cup {j.new}]
        /\ seen' = [seen EXCEPT !["fastmail"] = @ \cup {j.new}]
    /\ UNCHANGED <<store, pc, pending, renamed, held, todo, cur, wrote, failed, said, began, owed, edits, faults>>

\* The server refuses the card: the entry stays.
ReplayRejected ==
    /\ pc = "replay"
    /\ Fault("reject")
    /\ \E j \in pending : ~ Finished(j) /\ ~ Abandoned(j) /\ NextEntry(j)
    /\ UNCHANGED <<book, store, pc, seen, held, todo, cur, wrote, failed, said, began, owed, edits>>

\* A cycle-fatal error, before or after the server did it.
ReplayAborted ==
    /\ pc = "replay"
    /\ \E j \in pending :
        /\ ~ Finished(j) /\ ~ Abandoned(j)
        /\ \/ Fault("unsent") /\ UNCHANGED book
           \/ /\ Fault("lost") /\ At("fastmail", j.new) = {}
              /\ book' = [book EXCEPT !["fastmail"] = @ \cup {j.new}]
    /\ CutOff
    /\ UNCHANGED <<store, began, owed, edits>>

Replayed ==
    /\ pc = "replay" /\ pending = {}
    /\ pc' = "read icloud"
    /\ UNCHANGED <<book, store, seen, pending, renamed, held, todo, cur, wrote, failed,
                   said, began, owed, edits, faults>>

(***************************************************************************)
(* Running a plan.                                                         *)
(***************************************************************************)
Failure(group, s, c) == [group |-> group, side |-> s, card |-> c, due |-> FALSE]

\* Failures with those of `cards`, a set of <<side, card>>, replaced.
Without(cards) ==
    {f \in failures : ~ \E k \in cards : k[1] = f.side /\ SameHref(k[2], f.card)}

RecordFailures(group, cards) ==
    failures' = Without(cards) \cup {Failure(group, k[1], k[2]) : k \in cards}

\* Plans the cycle and records the UIDs at two hrefs.
Plan ==
    /\ pc = "plan" /\ pc' = "apply"
    /\ todo' = CycleOps(seen)
    /\ held' = HeldCards(seen)
    /\ report' = BaselineReport(CycleOps(seen), PairedIn(seen),
                    {u \in Uid : rows[u] # None} \cup {c.uid : c \in Free(seen, "icloud")},
                    Duplicated(seen))
    /\ LET twins == UNION {{<<s, c>> : c \in {c \in Free(seen, s) : c.uid \in Duplicated(seen)
                                   /\ \E d \in Free(seen, s) : d # c /\ d.uid = c.uid}} : s \in Side}
       IN  /\ failures' = Without(twins) \cup {Failure(k[2].uid, k[1], k[2]) : k \in twins}
           /\ failed' = twins
    /\ UNCHANGED <<book, rows, conflicts, journal, seen, pending, renamed, cur, wrote, summary, told,
                   began, owed, edits, faults>>

Order == <<"archive", "first", "journal", "delete", "then", "save">>

\* The first step at or after the k-th that op has; saving is the last.
StepOf(op, k) ==
    Order[CHOOSE i \in k..6 :
            /\ i = 6 \/ op[Order[i]] # {}
            /\ \A j \in k..(i - 1) : op[Order[j]] = {}]

Continue ==
    pc' = StepOf(cur, 1 + (CHOOSE i \in 1..5 : Order[i] = pc))

StartOp ==
    /\ pc = "apply"
    /\ \E op \in todo :
        /\ \A q \in todo : Rank(op) <= Rank(q)
        /\ todo' = todo \ {op}
        /\ cur' = op
        /\ pc' = StepOf(op, 1)
    /\ UNCHANGED <<book, store, seen, pending, renamed, held, wrote, failed, said, began, owed, edits, faults>>

Archive ==
    /\ pc = "archive"
    /\ conflicts' = conflicts \cup cur.archive
    /\ Continue
    /\ UNCHANGED <<book, rows, failures, journal, seen, pending, renamed, held, todo, cur, wrote,
                   failed, said, began, owed, edits, faults>>

Accepts(w) ==
    IF w.over = {} THEN At(w.side, w.card) = {} ELSE w.over \subseteq book[w.side]

Served(w) ==
    book' = [book EXCEPT ![w.side] = (@ \ w.over) \cup {w.card}]

RunPut ==
    /\ pc \in {"first", "then"}
    /\ \E w \in cur[pc] :
        /\ Accepts(w) /\ Served(w)
        /\ wrote' = wrote \cup {<<w.side, w.card>>}
    /\ Continue
    /\ UNCHANGED <<store, seen, pending, renamed, held, todo, cur, failed, said, began, owed, edits, faults>>

\* One entry for a UID: a later one replaces it.
Journal ==
    /\ pc = "journal"
    /\ journal' = {j \in journal : j.uid # cur.uid} \cup cur.journal
    /\ Continue
    /\ UNCHANGED <<book, rows, conflicts, failures, seen, pending, renamed, held, todo, cur, wrote,
                   failed, said, began, owed, edits, faults>>

\* DELETE with If-Match; a card that is already gone counts as deleted.
RunDelete ==
    /\ pc = "delete"
    /\ \A c \in cur.delete : c \in book["fastmail"] \/ At("fastmail", c) = {}
    /\ book' = [book EXCEPT !["fastmail"] = @ \ cur.delete]
    /\ Continue
    /\ UNCHANGED <<store, seen, pending, renamed, held, todo, cur, wrote, failed, said, began, owed, edits, faults>>

EndOp ==
    /\ pc' = "apply" /\ cur' = None /\ wrote' = {}
    /\ UNCHANGED <<seen, pending, renamed, held, todo>>

Save ==
    /\ pc = "save"
    /\ rows' = [rows EXCEPT ![cur.uid] = cur.content]
    /\ failures' = Without(cur.cards)
    /\ journal' = IF cur.kind = "Recreate" THEN {j \in journal : j.uid # cur.uid} ELSE journal
    /\ summary' = Applied(summary, cur)
    /\ told' = [told EXCEPT !.aliases =
            @ \cup {k[2].uid : k \in {k \in cur.cards : cur.kind = "Recreate" /\ k[1] = "fastmail"}}]
    /\ EndOp
    /\ UNCHANGED <<book, conflicts, failed, report, began, owed, edits, faults>>

\* The cards to hold when cur failed: those it pairs or copies, and those it
\* wrote, as they are now.
FailedCards ==
    IF cur.kind = "Adopt" THEN {}
    ELSE wrote \cup {k \in cur.cards : ~ \E w \in wrote : w[1] = k[1] /\ SameHref(w[2], k[2])}

FailOp ==
    /\ EndOp
    /\ RecordFailures(cur.uid, FailedCards)
    /\ failed' = failed \cup FailedCards
    /\ summary' = FailedOp(summary, cur)
    /\ UNCHANGED <<rows, conflicts, journal, report, told, began, owed, edits>>

\* The server refuses the write: the card is not the one that was read.
Refused ==
    /\ \/ pc \in {"first", "then"} /\ \A w \in cur[pc] : ~ Accepts(w)
       \/ pc = "delete" /\ \E c \in cur.delete : c \notin book["fastmail"] /\ At("fastmail", c) # {}
    /\ FailOp
    /\ UNCHANGED <<book, faults>>

\* A server rejects a request, or the state store fails, for this card only.
Rejected ==
    /\ \/ pc \in {"first", "delete", "then"} /\ Fault("reject")
       \/ pc \in {"archive", "journal", "save"} /\ Fault("store")
    /\ FailOp
    /\ UNCHANGED book

\* A cycle-fatal error: nothing of an unsynced contact is held.
Aborted ==
    /\ pc \in {"archive", "first", "journal", "delete", "then", "save"}
    /\ \/ Fault("unsent") /\ UNCHANGED book
       \/ /\ pc \in {"first", "then"} /\ Fault("lost")
          /\ \E w \in cur[pc] : Accepts(w) /\ Served(w)
       \/ /\ pc = "delete" /\ Fault("lost")
          /\ cur.delete \subseteq book["fastmail"]
          /\ book' = [book EXCEPT !["fastmail"] = @ \ cur.delete]
    /\ CutOff
    /\ UNCHANGED <<store, began, owed, edits>>

\* The report goes to the log once the cycle's tokens are stored.
LogCycle ==
    told' = [told EXCEPT !.warned = @ \cup report.groups_with_unmapped_members, !.aliases = {}]

\* Failures the cycle saw and did not repeat are swept.
Finish ==
    /\ pc = "apply" /\ todo = {}
    /\ failures' = {f \in failures :
          \/ \E k \in failed : k[1] = f.side /\ SameHref(k[2], f.card)
          \/ /\ Listed(f.side, f.card)
             /\ \E k \in held : k[1] = f.side /\ SameHref(k[2], f.card)}
    /\ EndCycle /\ LogCycle
    /\ UNCHANGED <<book, rows, conflicts, journal, began, owed, edits, faults>>

Daemon ==
    \/ Wake \/ Look \/ DropEntry \/ ReplayPut \/ Replayed
    \/ Plan \/ StartOp \/ Archive \/ RunPut \/ Journal \/ RunDelete \/ Save \/ Refused \/ Finish

Faulty == Crash \/ ReplayRejected \/ ReplayAborted \/ Rejected \/ Aborted

Next == UserEdit \/ UserDelete \/ BackoffPasses \/ Daemon \/ Faulty

Spec == Init /\ [][Next]_vars

(***************************************************************************)
(* Properties.                                                             *)
(***************************************************************************)
Versions ==
    (UNION {{Version(c) : c \in book[s]} : s \in Side})
    \cup (UNION {{Version(r.icloud), Version(r.fastmail)} : r \in conflicts})
    \cup {Version(j.new) : j \in journal}

\* No version is lost: whatever people wrote and did not take back is, at any
\* moment the process may stop, on a card, in the conflict history or in the
\* journal (Recreate's order of steps, and replaying before planning).  The
\* members of a group are Cardigan's to rewrite.
NoVersionLost == \A v \in owed : v[1].members = {} => v \in Versions

Called(view, s, name) == {c \in view[s] : c.content.name = name}

\* A name that one UID has on one side only: pairing by UID makes both cards
\* the winner's, whoever else has that name.
Disputed(name) ==
    \E c \in began["icloud"], d \in began["fastmail"] :
        /\ c.uid = d.uid /\ c.content.name # d.content.name
        /\ name \in {c.content.name, d.content.name}

\* Pairing never multiplies: no side comes to hold more cards of a name than
\* the fuller side had, wherever a cycle was interrupted (settle_side copies
\* a name only when the other side has none of it left).
NeverMultiplies ==
    \A s \in Side, c \in Content :
        c.name # Nameless /\ ~ Disputed(c.name) =>
            \E t \in Side :
                Cardinality(Called(book, s, c.name)) <= Cardinality(Called(began, t, c.name))

\* Interrupting a cycle between two operations changes neither how cards are
\* paired nor which named contacts are copied: planning afresh there gives the
\* operations that were left (pairing keeps nothing between cycles).  Whether
\* a card without a name is copied may change: it depends on what the other
\* side holds by then.  For groups see GroupsRelinked.
Lasting(ops) ==
    {op \in ops :
        /\ op.content.members = {}
        /\ op.kind = "Create" => op.content.name # Nameless}

ReplansTheRest ==
    (pc = "apply" /\ failures = {} /\ summary.state_errors = 0) =>
        Lasting(CycleOps(book)) = Lasting(todo)

\* The UID of a card that a Recreate replaced is in no group copied to iCloud,
\* also when the Recreate was cut off and only its replay knows the old UID,
\* unless a cycle that had replaced it ended before it copied the group
\* (replay's result, relink).
Replaced == {c.uid : c \in began["fastmail"]} \ {c.uid : c \in book["fastmail"]}

GroupsRelinked ==
    \A g \in book["icloud"] :
        rows[g.uid] # None => g.content.members \cap Replaced \subseteq told.forgotten

AtRest == pc = "apply" /\ todo = {}

\* A group that iCloud holds with a member missing was named by a report, or
\* by one that was lost with its cycle: whichever of its members pairing
\* skipped, held or gave another UID, and wherever the copying was cut off
\* (groups_with_unmapped_members, built before the cycle writes anything).
GroupsReported ==
    AtRest /\ failures = {} =>
        \A g \in book["icloud"] :
            \/ rows[g.uid] = None \/ g.content.members \subseteq {c.uid : c \in book["icloud"]}
            \/ g.uid \in told.warned \cup told.unsaid \cup report.groups_with_unmapped_members

\* At the end of a cycle every card is synced, or the report or a failure
\* says that it is not, and one with a name is never skipped for a single
\* certain match; and where nothing failed, the summary counts as added what
\* each side has gained (BaselineReport, Skip, CycleSummary).
CycleAccounts ==
    AtRest /\ edits = 0 =>
        /\ \A s \in Side : \A c \in book[s] :
              \/ rows[c.uid] # None \/ c.uid \in report.held
              \/ c.uid \in report.in_sync /\ summary.state_errors # 0
              \/ c \in {skip.card : skip \in report.skipped[s]} \cup report.likely_duplicates[s]
              \/ \E f \in failures : f.side = s /\ SameHref(f.card, c)
        /\ \A s \in Side : \A skip \in report.skipped[s] :
              Named(skip.card) => skip.candidate_count # 1
        /\ failed = {} =>
              \A s \in Side :
                  Cardinality(seen[s]) + summary.toward[s].added = Cardinality(book[s])

\* Whoever deletes the first contact of every line of the duplicates listed
\* still has one of each of them, in whatever order the rows are
\* (synced_duplicates: "otherwise the user could delete both copies").
DuplicatesKeepOne ==
    AtRest =>
        LET synced == {u \in Uid : rows[u] # None}
            Orders == {o \in [1 .. Cardinality(synced) -> synced] :
                          \A i, j \in DOMAIN o : o[i] = o[j] => i = j}
        IN  \A order \in Orders :
                LET state == [i \in DOMAIN order |-> [content |-> rows[order[i]]]]
                    deleted == {m[1] : m \in SyncedDuplicates(state)}
                IN  \A alike \in SUBSET deleted :
                        alike # {} =>
                            \E i \in alike, j \in (DOMAIN state) \ alike : SharePoint(state[i], state[j])
=============================================================================
