-------------------------------- MODULE Reports --------------------------------
(***************************************************************************)
(* What a cycle tells people (core/src/sync/report.rs and                  *)
(* core/src/service/summary.rs): what pairing decided, the groups and the  *)
(* duplicates somebody has to mend by hand, and what was written.  Pure    *)
(* operators over the operations of a plan, which are those of Baseline.   *)
(***************************************************************************)
EXTENDS Pairing, Sequences

(***************************************************************************)
(* The report of a plan, built before anything is written.  `known` is the *)
(* UIDs that are in state or were read on iCloud; `held` is the UIDs that  *)
(* appear at two hrefs.                                                    *)
(***************************************************************************)
Uids(ops, kind) == {op.uid : op \in {op \in ops : op.kind = kind}}

Renewed(ops, conflicting) == {op \in ops : op.kind = "Recreate" /\ (op.archive # {}) = conflicting}

CopiedTo(ops, s) == {op.uid : op \in {op \in ops : \E w \in op.then : op.kind \in {"Create", "CopyGroup"} /\ w.side = s}}

\* The UIDs iCloud holds once the cycle is over, if nothing fails.
OnICloud(ops, known) == known \cup CopiedTo(ops, "icloud")

\* Faulty: a group is looked at only where members were renamed.
WritesRenamed(op) == op.kind \in {"Recreate", "CopyGroup"}

\* Operations whose content goes to iCloud, or comes from there with a
\* Fastmail card's UID.
WritesGroup(op) ==
    \/ op.kind = "Recreate"
    \/ op.kind \in {"Create", "CopyGroup", "Conflict"} /\ \E w \in op.then : w.side = "icloud"

GroupsWithUnmappedMembers(ops, known) ==
    {op.uid : op \in {op \in ops : /\ WritesGroup(op)
                                   /\ ~ op.content.members \subseteq OnICloud(ops, known)}}

BaselineReport(ops, paired, known, held) ==
    [in_sync   |-> Uids(ops, "Adopt"),
     conflicts |-> Uids(ops, "Conflict"),
     reuid     |-> {op.uid : op \in Renewed(ops, FALSE)},
     by_identity |-> {op.uid : op \in Renewed(ops, TRUE)},
     copies    |-> [s \in Side |-> CopiedTo(ops, s)],
     skipped   |-> paired.skips,
     likely_duplicates |-> paired.likely,
     held      |-> held,
     groups_with_unmapped_members |-> GroupsWithUnmappedMembers(ops, known)]

(***************************************************************************)
(* Synced contacts that look like duplicates: a contact without a name,    *)
(* and the first contact in `state`, a sequence of cards, that shares an   *)
(* email or phone with it.                                                 *)
(***************************************************************************)
\* Faulty: a pair of contacts without names is listed twice.
ListedTwice(state) ==
    {m \in (DOMAIN state) \X (DOMAIN state) :
        /\ m[1] # m[2] /\ ~ Named(state[m[1]]) /\ SharePoint(state[m[1]], state[m[2]])
        /\ \A j \in 1 .. m[2] - 1 : j # m[1] => ~ SharePoint(state[m[1]], state[j])}

SyncedDuplicates(state) ==
    LET Like(i) == {j \in DOMAIN state \ {i} : ~ Named(state[i]) /\ SharePoint(state[i], state[j])}
        First(i) == CHOOSE j \in Like(i) : \A k \in Like(i) : j <= k
    IN  {<<i, First(i)>> : i \in
            {i \in DOMAIN state :
                /\ Like(i) # {}
                /\ ~ (First(i) < i /\ Like(First(i)) # {} /\ First(First(i)) = i)}}

(***************************************************************************)
(* The counts of a cycle.                                                  *)
(***************************************************************************)
DirectionCounts == [added |-> 0, updated |-> 0, conflicts |-> 0, errors |-> 0]

CycleSummary == [toward |-> [s \in Side |-> DirectionCounts], adopted |-> 0, state_errors |-> 0]

\* Faulty: counts one, however many there were.
CountedOnce(summary, s, counter) == [summary EXCEPT !.toward[s][counter] = 1]

Counted(summary, s, counter) == [summary EXCEPT !.toward[s][counter] = @ + 1]

\* A Recreate of two different versions counts as an update and a conflict.
Applied(summary, op) ==
    LET Conflict(to, counts) == IF op.archive = {} THEN counts ELSE Counted(counts, to, "conflicts")
        Update(counts) == IF op.first = {} THEN counts ELSE Counted(counts, "icloud", "updated")
    IN  CASE op.kind = "Create" -> Counted(summary, (CHOOSE w \in op.then : TRUE).side, "added")
          [] op.kind = "CopyGroup" -> Counted(Counted(summary, "icloud", "added"), "fastmail", "updated")
          [] op.kind = "Conflict" -> Conflict(Other(Winner), summary)
          [] op.kind = "Recreate" ->
                Conflict(Other(Winner), Update(Counted(summary, "fastmail", "updated")))
          [] op.kind = "Adopt" -> [summary EXCEPT !.adopted = @ + 1]

\* The side an operation writes to, or {}.
TargetSide(op) ==
    CASE op.kind \in {"Create", "Conflict"} -> {w.side : w \in op.then}
      [] op.kind = "CopyGroup" -> {"icloud"}
      [] op.kind = "Recreate" -> {"fastmail"}
      [] op.kind = "Adopt" -> {}

FailedOp(summary, op) ==
    IF TargetSide(op) = {} THEN [summary EXCEPT !.state_errors = @ + 1]
    ELSE Counted(summary, CHOOSE s \in TargetSide(op) : TRUE, "errors")
=============================================================================
