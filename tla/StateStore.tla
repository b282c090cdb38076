----------------------------- MODULE StateStore -----------------------------
(***************************************************************************)
(* The SQLite state a sync cycle reads and writes: one row per synced      *)
(* contact, the conflict history and the card failures.  Each operator     *)
(* below is the effect of one transaction of core/src/service, which       *)
(* commits whole or not at all (core/src/repository.rs).                   *)
(***************************************************************************)
EXTENDS AddressBooks

VARIABLES
    rows,      \* rows[u]: the contact's state row, or None
    conflicts, \* the conflict history: every losing version, and its winner
    failures   \* failures[s][h]: the card failure recorded for h, or None

store == <<rows, conflicts, failures>>

\* Where each side's card was last seen, and the last synced content.
Row == [res : [Side -> Resource], body : Body]

\* Both versions at the time; losing versions are kept here only.
ConflictRow == [uid : Uid, bodies : [Side -> Body]]

\* uid is None when the card could not be parsed; etag is 0 when it is not
\* known; due is whether next_retry_at has passed.
Failure == [uid : Uid \cup {None}, etag : Nat, due : BOOLEAN]

\* None is neither.
ASSUME NoRowAssumption == None \notin Row \cup Failure

\* A card to record as failing.
FailedCard == [side : Side, href : Href, uid : Uid \cup {None}, etag : Nat]

StoreTypeOK ==
    /\ rows \in [Uid -> Row \cup {None}]
    /\ conflicts \subseteq ConflictRow
    /\ failures \in [Side -> [Href -> Failure \cup {None}]]

Synced == {u \in Uid : rows[u] # None}

\* The contacts whose row stores href h on side s (at most one: the column
\* is unique).
RowAt(s, h) == {u \in Synced : rows[u].res[s].href = h}

\* A row for u at res would break the uniqueness of a side's hrefs.
HrefTaken(u, res) ==
    \E v \in Synced \ {u}, s \in Side : rows[v].res[s].href = res[s].href

\* Faulty: only a new version of the card is retried.
DueWhenEdited(f, current) == current # f.etag

\* A failure is due for retry once its backoff has passed or its card has
\* another ETag than the one that failed (0: no card, or no ETag known).
IsDue(f, current) == f.due \/ current # f.etag

Recorded(cards) ==
    [s \in Side |-> [h \in Href |->
        IF \E c \in cards : c.side = s /\ c.href = h
        THEN LET c == CHOOSE c \in cards : c.side = s /\ c.href = h
             IN  [uid |-> c.uid, etag |-> c.etag, due |-> FALSE]
        ELSE failures[s][h]]]

\* Failures without those of `keys`, a set of <<side, href>>.
Cleared(keys) ==
    [s \in Side |-> [h \in Href |->
        IF <<s, h>> \in keys THEN None ELSE failures[s][h]]]

\* write_state: updates or adds u's row and clears the failures at `keys`.
WriteState(u, res, body, keys) ==
    /\ rows' = [rows EXCEPT ![u] = [res |-> res, body |-> body]]
    /\ failures' = Cleared(keys)
    /\ UNCHANGED conflicts

DropState(u, keys) ==
    /\ rows' = [rows EXCEPT ![u] = None]
    /\ failures' = Cleared(keys)
    /\ UNCHANGED conflicts

RecordConflict(c) ==
    /\ conflicts' = conflicts \cup {c}
    /\ UNCHANGED <<rows, failures>>

RecordFailures(cards) ==
    /\ failures' = Recorded(cards)
    /\ UNCHANGED <<rows, conflicts>>
=============================================================================
