------------------------------- MODULE Planner -------------------------------
(***************************************************************************)
(* What one cycle decides: core/src/sync/{snapshot,sides,planner,pairing,  *)
(* guard}.rs as operators over the state store and this cycle's listing    *)
(* and snapshot.  The rows are those loaded when the cycle started: only   *)
(* the daemon writes rows, and it plans before it writes.                  *)
(*                                                                         *)
(* Different UIDs are different people here, so pairing's content and      *)
(* identity passes, the likely-duplicate skips and the cross-delete hold   *)
(* find nothing; photos are left out.                                      *)
(***************************************************************************)
EXTENDS StateStore, FiniteSets

CONSTANTS
    Mint,          \* Mint[u]: the href the daemon creates u's card at
    Winner,        \* CARDIGAN_CONFLICT_WINNER
    DeleteFloor,   \* deletions per side always allowed in a cycle
    DeletePercent  \* share of the synced contacts a cycle may delete

ASSUME WinnerAssumption == Winner \in {"icloud", "fastmail"}

\* A UID always gets the same href, and no two UIDs the same one.
ASSUME MintAssumption ==
    /\ Mint \in [Uid -> Href]
    /\ \A u, v \in Uid : Mint[u] = Mint[v] => u = v

VARIABLES
    listing,  \* listing[s][h]: the ETag listed for h, 0 if not listed
    snap      \* snap[s][h]: what the planner is told of h

Entry == [kind : {"absent", "held", "unchanged", "fetched"},
          etag : Nat, card : Card \cup {None}]

NoEntry == [kind |-> "absent", etag |-> 0, card |-> None]

NoListing == [s \in Side |-> [h \in Href |-> 0]]
NoSnap == [s \in Side |-> [h \in Href |-> NoEntry]]

ViewTypeOK ==
    /\ listing \in [Side -> [Href -> Nat]]
    /\ snap \in [Side -> [Href -> Entry]]

(***************************************************************************)
(* Phase A: which hrefs to fetch, and which to hold.                       *)
(***************************************************************************)
Listed(s) == {h \in Href : listing[s][h] # 0}

\* Listed hrefs whose ETag is not the one their row stores.
Changed(s) ==
    {h \in Listed(s) :
        ~ \E u \in RowAt(s, h) : rows[u].res[s].etag = listing[s][h]}

Touched(s, h) == h \in Changed(s) \/ h \notin Listed(s)

\* Faulty: only the cards that changed themselves.
FetchOnlyChanged(s) == Changed(s)

\* Also the counterpart of every card that changed or is gone, so that no
\* write replaces a card that was not read.
FetchList(s) ==
    Changed(s) \cup
    {h \in Listed(s) :
        \E u \in RowAt(s, h) : Touched(Other(s), rows[u].res[Other(s)].href)}

FailuresOf(u) ==
    {k \in Side \X Href : failures[k[1]][k[2]] # None /\ failures[k[1]][k[2]].uid = u}

Due(s, h) == IsDue(failures[s][h], listing[s][h])

\* Faulty: every card is released on its own.
HeldAlone(s) == {h \in Href : failures[s][h] # None /\ ~ Due(s, h)}

\* The cards of one failed operation carry one UID and are released
\* together, once all of them are due.
HeldHrefs(s) ==
    {h \in Href :
        /\ failures[s][h] # None
        /\ IF failures[s][h].uid = None
           THEN ~ Due(s, h)
           ELSE \E k \in FailuresOf(failures[s][h].uid) : ~ Due(k[1], k[2])}

\* One side's snapshot, from its listing and a multiget of the wanted cards.
\* A card the multiget no longer finds is left out.
Snapshot(s) ==
    [h \in Href |->
        CASE h \notin Listed(s) -> NoEntry
          [] h \in Listed(s) \cap HeldHrefs(s) ->
                [kind |-> "held", etag |-> listing[s][h], card |-> None]
          [] h \in (Listed(s) \cap FetchList(s)) \ HeldHrefs(s) ->
                IF card[s][h] = None THEN NoEntry
                ELSE [kind |-> "fetched", etag |-> ver[s][h], card |-> card[s][h]]
          [] OTHER ->
                [kind |-> "unchanged", etag |-> listing[s][h], card |-> None]]

(***************************************************************************)
(* One side's snapshot classified against the rows (SideView::classify).   *)
(***************************************************************************)
\* Faulty: a card is used although it does not parse.
FetchedAtAll(s, h) == snap[s][h].kind = "fetched"

Readable(s, h) == snap[s][h].kind = "fetched" /\ snap[s][h].card.body # Unreadable

\* Held, or fetched but not parsed: its UID is not known.
Opaque(s, h) ==
    \/ snap[s][h].kind = "held"
    \/ snap[s][h].kind = "fetched" /\ snap[s][h].card.body = Unreadable

\* The card at a synced href now carries another UID.
UidChanged(s, h) ==
    Readable(s, h) /\ \E u \in RowAt(s, h) : u # snap[s][h].card.uid

Appearances(s, u) ==
    {h \in Href :
        \/ snap[s][h].kind = "unchanged" /\ u \in RowAt(s, h)
        \/ Readable(s, h) /\ snap[s][h].card.uid = u /\ ~ UidChanged(s, h)}

Blocked(s) ==
    {u \in Uid : \E h \in Href :
        \/ u \in RowAt(s, h) /\ (Opaque(s, h) \/ UidChanged(s, h))
        \/ UidChanged(s, h) /\ snap[s][h].card.uid = u}

Duplicated(s) ==
    {u \in Uid \ Blocked(s) :
        \E h1, h2 \in Appearances(s, u) : h1 # h2}

\* Contacts to leave alone on both sides this cycle.
HeldUids == UNION {Blocked(s) \cup Duplicated(s) : s \in Side}

\* A card whose UID cannot be known sits where no row looks: it may be a
\* synced contact that moved.
Uncertain(s) ==
    \E h \in Href :
        RowAt(s, h) = {} /\ (Opaque(s, h) \/ snap[s][h].kind = "unchanged")

(***************************************************************************)
(* Synced contacts (planner::plan).                                        *)
(***************************************************************************)
Where(s, u) == CHOOSE h \in Appearances(s, u) : TRUE

Located(s, u) == [href |-> Where(s, u), etag |-> snap[s][Where(s, u)].etag]

BodyAt(s, u) == snap[s][Where(s, u)].card.body

Status(s, u) ==
    CASE Appearances(s, u) = {} -> "deleted"
      [] Appearances(s, u) # {} /\ snap[s][Where(s, u)].kind = "unchanged" -> "unchanged"
      [] Appearances(s, u) # {} /\ snap[s][Where(s, u)].kind # "unchanged" ->
            IF BodyAt(s, u) = rows[u].body THEN "same" ELSE "changed"

Deferred(u) == \E s \in Side : Uncertain(s) /\ Status(s, u) = "deleted"

Planned == {u \in Synced \ HeldUids : ~ Deferred(u)}

(***************************************************************************)
(* Operations.  A push writes `body` over `target`; `old` is the content   *)
(* it replaces, as fetched, or None for a create.                          *)
(***************************************************************************)
PushKinds == {"Create", "Resurrect", "Update", "Conflict"}
PushOp == [kind : PushKinds, uid : Uid,
           to : Side, target : Resource, source : Resource,
           body : Body, old : Body \cup {None}]
DeleteOp == [kind : {"Delete"}, uid : Uid, to : Side, target : Resource]
RecordOp == [kind : {"Adopt", "Refresh"}, uid : Uid,
             res : [Side -> Resource], body : Body]
ForgetOp == [kind : {"Forget"}, uid : Uid]
Op == PushOp \cup DeleteOp \cup RecordOp \cup ForgetOp

\* A card that does not exist yet: created at the minted href.
Minted(u) == [href |-> Mint[u], etag |-> 0]

\* Brings u's card on side s to the other side, creating it there.
Copy(kind, u, s) ==
    [kind |-> kind, uid |-> u, to |-> Other(s), target |-> Minted(u),
     source |-> Located(s, u), body |-> BodyAt(s, u), old |-> None]

\* Overwrites u's card on the other side with the one on side s.
Overwrite(kind, u, s) ==
    [kind |-> kind, uid |-> u, to |-> Other(s), target |-> Located(Other(s), u),
     source |-> Located(s, u), body |-> BodyAt(s, u), old |-> BodyAt(Other(s), u)]

RecordBoth(kind, u, body) ==
    [kind |-> kind, uid |-> u, res |-> [s \in Side |-> Located(s, u)], body |-> body]

BothHave(u, status) == \A s \in Side : Status(s, u) = status

SameBodies(u) == \A s \in Side : BodyAt(s, u) = BodyAt(Other(s), u)

\* The row's decision table, one set per kind of operation.
Forgets(u) == {op \in ForgetOp : op.uid = u /\ BothHave(u, "deleted")}

Refreshes(u) ==
    IF BothHave(u, "changed") /\ SameBodies(u)
    THEN {RecordBoth("Refresh", u, BodyAt("icloud", u))}
    ELSE IF /\ \E s \in Side : Status(s, u) = "same"
            /\ \A s \in Side : Status(s, u) \in {"same", "unchanged"}
         THEN {RecordBoth("Refresh", u, rows[u].body)}
         ELSE {}

SyncConflicts(u) ==
    IF BothHave(u, "changed") /\ ~ SameBodies(u)
    THEN {Overwrite("Conflict", u, Winner)}
    ELSE {}

\* An edit wins over a deletion of the other copy.
Resurrections(u) ==
    {Copy("Resurrect", u, s) : s \in
        {s \in Side : Status(s, u) = "changed" /\ Status(Other(s), u) = "deleted"}}

Updates(u) ==
    {Overwrite("Update", u, s) : s \in
        {s \in Side : Status(s, u) = "changed" /\ Status(Other(s), u) = "same"}}

Deletes(u) ==
    {[kind |-> "Delete", uid |-> u, to |-> s, target |-> Located(s, u)] : s \in
        {s \in Side : /\ Status(s, u) \in {"same", "unchanged"}
                      /\ Status(Other(s), u) = "deleted"}}

RowOps(u) == Forgets(u) \cup Refreshes(u) \cup SyncConflicts(u)
             \cup Resurrections(u) \cup Updates(u) \cup Deletes(u)

(***************************************************************************)
(* Cards without a row (pairing pass 1, then copies).                      *)
(***************************************************************************)
Unsynced(s) ==
    {u \in Uid \ (Synced \cup HeldUids) : Appearances(s, u) # {}}

Adopts(u) ==
    IF SameBodies(u) THEN {RecordBoth("Adopt", u, BodyAt("icloud", u))}
    ELSE {Overwrite("Conflict", u, Winner)}

PairOps ==
    (UNION {Adopts(u) : u \in Unsynced("icloud") \cap Unsynced("fastmail")})
    \cup (UNION {{Copy("Create", u, s) : u \in Unsynced(s) \ Unsynced(Other(s))} : s \in Side})

CycleOps == (UNION {RowOps(u) : u \in Planned}) \cup PairOps

(***************************************************************************)
(* What the plan reports, and the guard over it.                           *)
(***************************************************************************)

Failing(s, h, uid, etag) == [side |-> s, href |-> h, uid |-> uid, etag |-> etag]

\* The diagnostics that become card failures.
UnreadableOn(s) ==
    {Failing(s, h, None, snap[s][h].etag) : h \in
        {h \in Href : snap[s][h].kind = "fetched" /\ snap[s][h].card.body = Unreadable}}

UidChangedOn(s) ==
    {Failing(s, h, snap[s][h].card.uid, snap[s][h].etag) : h \in
        {h \in Href : UidChanged(s, h)}}

DuplicatesOn(s) ==
    UNION {{Failing(s, h, u, listing[s][h]) : h \in Appearances(s, u)} :
              u \in Duplicated(s)}

ReadFailures ==
    UNION {UnreadableOn(s) \cup UidChangedOn(s) \cup DuplicatesOn(s) : s \in Side}

DeletionsOn(s, ops) ==
    {op \in ops : op.kind = "Forget" \/ (op.kind = "Delete" /\ op.to = s)}

DeleteLimit ==
    LET share == (Cardinality(Synced) * DeletePercent) \div 100
    IN  IF share > DeleteFloor THEN share ELSE DeleteFloor

MassDeletion(ops) == \E s \in Side : Cardinality(DeletionsOn(s, ops)) > DeleteLimit

(***************************************************************************)
(* The cards to hold after an operation failed, all under its UID: its     *)
(* source, both cards of an unsynced pair, and every card it wrote, at     *)
(* the ETag it has now.  `wrote` is None until a write was accepted.       *)
(***************************************************************************)
HeldBy(op) ==
    CASE op.kind \in {"Create", "Resurrect", "Update"} ->
            {<<Other(op.to), op.source>>}
      [] op.kind = "Conflict" ->
            {<<Other(op.to), op.source>>} \cup
                {<<op.to, t>> : t \in {t \in {op.target} : op.uid \notin Synced}}
      [] op.kind = "Delete" -> {<<op.to, op.target>>}
      [] OTHER -> {}

WrittenBy(op, wrote) ==
    {<<op.to, r>> : r \in {r \in {wrote} : op.kind \in PushKinds /\ r # None}}

FailedCards(op, wrote) ==
    LET written == WrittenBy(op, wrote)
        stale == {k \in HeldBy(op) :
                     \E w \in written : w[1] = k[1] /\ w[2].href = k[2].href}
    IN  {Failing(k[1], k[2].href, op.uid, k[2].etag) : k \in written \cup (HeldBy(op) \ stale)}

\* Whether a cycle-fatal error holds the operation's cards: only those of a
\* synced contact, or the card left alone would pair as unique to its side.
HoldsOnAbort(op) ==
    \/ op.kind \in {"Update", "Delete", "Resurrect"}
    \/ op.kind = "Conflict" /\ op.uid \in Synced
=============================================================================
