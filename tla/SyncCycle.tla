------------------------------ MODULE SyncCycle ------------------------------
(***************************************************************************)
(* The sync cycle (core/src/service/{mod,listing,apply,executor}.rs)       *)
(* running against people who edit either address book at any moment, a    *)
(* network that may lose a request or its answer, and a process that may   *)
(* stop between any two of its steps.                                      *)
(*                                                                         *)
(* One action is one request to a server or one transaction: what another  *)
(* party can come between.                                                 *)
(***************************************************************************)
EXTENDS Planner

CONSTANTS
    Start,       \* contacts already synced when the run begins
    Home,        \* Home[u][s]: where the card of u in Start is on side s
    MaxEdits,    \* bound: what people do to the address books
    MaxFaults,   \* bound: how many faults happen, of the kinds in Faults
    Faults,      \* what may go wrong, a subset of FaultKinds
    EditSides,   \* the sides people edit
    EditBodies,  \* the contents people write
    EditsInCycle,\* whether people also act while a cycle runs
    EtagReplies  \* whether the answer to a PUT carries the new ETag

FaultKinds == {"crash",  \* the process stops
               "reset",  \* somebody runs sync --reset
               "token",  \* a server forgets a sync token
               "reject", \* a server rejects one request
               "unsent", \* a request never arrives
               "lost",   \* a request is served and its answer lost
               "store"}  \* the state store refuses a transaction

ASSUME BoundsAssumption ==
    /\ Start \subseteq Uid
    /\ Home \in [Start -> [Side -> Href]]
    /\ \A u, v \in Start, s \in Side : Home[u][s] = Home[v][s] => u = v
    /\ MaxEdits \in Nat /\ MaxFaults \in Nat
    /\ EditSides \subseteq Side
    /\ EditBodies \subseteq Body \cup {Unreadable}
    /\ EditsInCycle \in BOOLEAN
    /\ EtagReplies \subseteq BOOLEAN /\ EtagReplies # {}
    /\ Faults \subseteq FaultKinds

VARIABLES
    pc,     \* what the daemon does next
    on,     \* the side it does it on, where it visits both in turn
    todo,   \* operations planned and not yet run
    cur,    \* the operation being run, or None
    wrote,  \* what cur wrote so far, or None; ETag 0 while not known
    failed, \* <<side, href>>s a failure was recorded for this cycle
    edits, faults

cycle == <<pc, on, listing, snap, todo, cur, wrote, failed>>
vars == <<books, store, cycle, edits, faults>>

Steps == {"wait", "check", "list", "fetch", "plan", "apply",
          "archive", "put", "readback", "delete", "save"}

TypeOK ==
    /\ BooksTypeOK /\ StoreTypeOK /\ ViewTypeOK
    /\ pc \in Steps /\ on \in Side
    /\ todo \subseteq Op
    /\ cur \in Op \cup {None}
    /\ wrote \in Resource \cup {None}
    /\ failed \subseteq Side \X Href
    /\ edits \in Nat /\ faults \in Nat

\* Start's contacts are synced, all with the same body.
Init ==
    /\ \E b \in Body :
        /\ card = [s \in Side |-> [h \in Href |->
              IF \E u \in Start : Home[u][s] = h
              THEN [uid |-> CHOOSE u \in Start : Home[u][s] = h, body |-> b]
              ELSE None]]
        /\ rows = [u \in Uid |->
              IF u \in Start
              THEN [res |-> [s \in Side |-> [href |-> Home[u][s], etag |-> 1]], body |-> b]
              ELSE None]
    /\ ver = [s \in Side |-> [h \in Href |-> IF \E u \in Start : Home[u][s] = h THEN 1 ELSE 0]]
    /\ sinceStored = [s \in Side |-> TRUE]
    /\ sinceListed = [s \in Side |-> TRUE]
    /\ conflicts = {}
    /\ failures = [s \in Side |-> [h \in Href |-> None]]
    /\ listing = NoListing /\ snap = NoSnap
    /\ pc = "wait" /\ on = "icloud"
    /\ todo = {} /\ cur = None /\ wrote = None /\ failed = {}
    /\ edits = 0 /\ faults = 0

(***************************************************************************)
(* People and time.                                                        *)
(***************************************************************************)
MayEdit(s) ==
    /\ edits < MaxEdits
    /\ s \in EditSides
    /\ EditsInCycle \/ pc = "wait"
    /\ edits' = edits + 1
    /\ UNCHANGED <<store, cycle, faults>>

UserEdit ==
    \E s \in Side, h \in Href, u \in Uid, b \in EditBodies :
        MayEdit(s) /\ UserWrites(s, h, [uid |-> u, body |-> b])

UserDelete ==
    \E s \in Side, h \in Href : MayEdit(s) /\ UserDeletes(s, h)

\* A failure's backoff passes.  A cycle reads the clock once, when it starts.
BackoffPasses(s, h) ==
    /\ pc = "wait"
    /\ failures[s][h] # None /\ ~ failures[s][h].due
    /\ failures' = [failures EXCEPT ![s][h].due = TRUE]
    /\ UNCHANGED <<books, rows, conflicts, cycle, edits, faults>>

(***************************************************************************)
(* How a cycle ends: nothing of it survives but what was stored.           *)
(***************************************************************************)
EndCycle ==
    /\ pc' = "wait" /\ on' = "icloud"
    /\ listing' = NoListing /\ snap' = NoSnap
    /\ todo' = {} /\ cur' = None /\ wrote' = None /\ failed' = {}

Fault(kind) ==
    /\ kind \in Faults
    /\ faults < MaxFaults
    /\ faults' = faults + 1

\* The process stops, or a listing fails, or the state store is unreachable.
Crash ==
    /\ pc # "wait"
    /\ Fault("crash") /\ EndCycle
    /\ UNCHANGED <<books, store, edits>>

\* --reset: drops the rows, tokens and failures, keeps the conflict history.
Reset ==
    /\ pc = "wait"
    /\ Fault("reset")
    /\ rows' = [u \in Uid |-> None]
    /\ failures' = [s \in Side |-> [h \in Href |-> None]]
    /\ sinceStored' = [s \in Side |-> TRUE]
    /\ UNCHANGED <<card, ver, sinceListed, conflicts, cycle, edits>>

(***************************************************************************)
(* Reading both sides.                                                     *)
(***************************************************************************)
Goto(step, side) == pc' = step /\ on' = side

\* A cycle starts: it cannot be idle when a failing card is due.
Wake ==
    /\ pc = "wait"
    /\ IF \E s \in Side, h \in Href : failures[s][h] # None /\ failures[s][h].due
       THEN Goto("list", "icloud") ELSE Goto("check", "icloud")
    /\ UNCHANGED <<books, store, listing, snap, todo, cur, wrote, failed, edits, faults>>

\* One side's delta since the stored token.  Empty on both sides: idle.
CheckDelta ==
    /\ pc = "check"
    /\ \/ /\ sinceStored[on] /\ Goto("list", "icloud")
       \/ /\ ~ sinceStored[on] /\ on = "icloud" /\ Goto("check", "fastmail")
       \/ /\ ~ sinceStored[on] /\ on = "fastmail" /\ Goto("wait", "icloud")
    /\ UNCHANGED <<books, store, listing, snap, todo, cur, wrote, failed, edits, faults>>

\* The server no longer knows the stored token.
TokenInvalid ==
    /\ pc = "check"
    /\ Fault("token")
    /\ Goto("list", "icloud")
    /\ UNCHANGED <<books, store, listing, snap, todo, cur, wrote, failed, edits>>

\* One side's full listing, and the token that goes with it.
List ==
    /\ pc = "list"
    /\ listing' = [listing EXCEPT ![on] = Listing(on)]
    /\ sinceListed' = [sinceListed EXCEPT ![on] = FALSE]
    /\ IF on = "icloud" THEN Goto("list", "fastmail") ELSE Goto("fetch", "icloud")
    /\ UNCHANGED <<card, ver, sinceStored, store, snap, todo, cur, wrote, failed, edits, faults>>

Fetch ==
    /\ pc = "fetch"
    /\ snap' = [snap EXCEPT ![on] = Snapshot(on)]
    /\ IF on = "icloud" THEN Goto("fetch", "fastmail") ELSE Goto("plan", "icloud")
    /\ UNCHANGED <<books, store, listing, todo, cur, wrote, failed, edits, faults>>

\* Plans the cycle; unless the guard blocks it, records the diagnostics.
Plan ==
    /\ pc = "plan"
    /\ IF MassDeletion(CycleOps)
       THEN EndCycle /\ UNCHANGED store
       ELSE /\ Goto("apply", "icloud")
            /\ todo' = CycleOps
            /\ RecordFailures(ReadFailures)
            /\ failed' = {<<c.side, c.href>> : c \in ReadFailures}
            /\ UNCHANGED <<listing, snap, cur, wrote>>
    /\ UNCHANGED <<books, edits, faults>>

(***************************************************************************)
(* Running one operation.                                                  *)
(***************************************************************************)

\* Rows first, then pairs, then copies of unpaired cards.
Rank(op) ==
    CASE op.uid \in Synced -> 1
      [] op.uid \notin Synced /\ op.kind # "Create" -> 2
      [] op.uid \notin Synced /\ op.kind = "Create" -> 3

\* Faulty: a conflict's winner is pushed without keeping the loser.
PushFirst(op) ==
    CASE op.kind \in PushKinds -> "put"
      [] op.kind = "Delete" -> "delete"
      [] op.kind \notin PushKinds \cup {"Delete"} -> "save"

FirstStep(op) ==
    CASE op.kind = "Conflict" -> "archive"
      [] op.kind \in PushKinds \ {"Conflict"} -> "put"
      [] op.kind = "Delete" -> "delete"
      [] op.kind \notin PushKinds \cup {"Delete"} -> "save"

StartOp ==
    /\ pc = "apply"
    /\ \E op \in todo :
        /\ \A q \in todo : Rank(op) <= Rank(q)
        /\ todo' = todo \ {op}
        /\ cur' = op
        /\ Goto(FirstStep(op), "icloud")
    /\ UNCHANGED <<books, store, listing, snap, wrote, failed, edits, faults>>

\* Both versions are kept before the winner is pushed.
Archive ==
    /\ pc = "archive"
    /\ RecordConflict([uid |-> cur.uid,
                       bodies |-> [s \in Side |-> IF s = cur.to THEN cur.old ELSE cur.body]])
    /\ Goto("put", "icloud")
    /\ UNCHANGED <<books, listing, snap, todo, cur, wrote, failed, edits, faults>>

Pushed == [uid |-> cur.uid, body |-> cur.body]

Accepts == Matches(cur.to, cur.target)

\* Faulty: the ETag in the answer is ignored.
PutThenRead ==
    /\ pc = "put" /\ Accepts
    /\ Write(cur.to, cur.target.href, Pushed)
    /\ wrote' = [href |-> cur.target.href, etag |-> 0]
    /\ Goto("readback", "icloud")
    /\ UNCHANGED <<store, listing, snap, todo, cur, failed, edits, faults>>

\* The PUT is accepted; without an ETag in the answer, it is read back.
Put ==
    /\ pc = "put" /\ Accepts
    /\ Write(cur.to, cur.target.href, Pushed)
    /\ \E etag \in EtagReplies :
        /\ wrote' = [href |-> cur.target.href,
                     etag |-> IF etag THEN ver[cur.to][cur.target.href] + 1 ELSE 0]
        /\ Goto(IF etag THEN "save" ELSE "readback", "icloud")
    /\ UNCHANGED <<store, listing, snap, todo, cur, failed, edits, faults>>

ReadBack ==
    /\ pc = "readback"
    /\ card[cur.to][wrote.href] # None
    /\ wrote' = [wrote EXCEPT !.etag = ver[cur.to][wrote.href]]
    /\ Goto("save", "icloud")
    /\ UNCHANGED <<books, store, listing, snap, todo, cur, failed, edits, faults>>

\* Faulty: no If-Match.
DeleteAnyVersion ==
    /\ pc = "delete"
    /\ \/ card[cur.to][cur.target.href] # None /\ Remove(cur.to, cur.target.href)
       \/ card[cur.to][cur.target.href] = None /\ UNCHANGED books
    /\ Goto("save", "icloud")
    /\ UNCHANGED <<store, listing, snap, todo, cur, wrote, failed, edits, faults>>

\* DELETE with If-Match; a card that is already gone counts as deleted.
Delete ==
    /\ pc = "delete"
    /\ \/ Matches(cur.to, cur.target) /\ Remove(cur.to, cur.target.href)
       \/ card[cur.to][cur.target.href] = None /\ UNCHANGED books
    /\ Goto("save", "icloud")
    /\ UNCHANGED <<store, listing, snap, todo, cur, wrote, failed, edits, faults>>

EndOp ==
    /\ Goto("apply", "icloud")
    /\ cur' = None /\ wrote' = None
    /\ UNCHANGED <<listing, snap, todo>>

\* What the operation leaves in the row.
RowAfter ==
    IF cur.kind \in PushKinds
    THEN [s \in Side |-> IF s = cur.to THEN wrote ELSE cur.source]
    ELSE cur.res

\* The failures it resolves.
Resolves ==
    CASE cur.kind \in {"Create", "Resurrect", "Update"} ->
            {<<Other(cur.to), cur.source.href>>}
      [] cur.kind = "Conflict" ->
            {<<Other(cur.to), cur.source.href>>, <<cur.to, cur.target.href>>}
      [] cur.kind = "Delete" -> {<<cur.to, cur.target.href>>}
      [] cur.kind = "Adopt" -> {<<s, cur.res[s].href>> : s \in Side}
      [] OTHER -> {}

Drops == cur.kind \in {"Delete", "Forget"}

Save ==
    /\ pc = "save"
    /\ \/ Drops /\ DropState(cur.uid, Resolves)
       \/ /\ ~ Drops /\ ~ HrefTaken(cur.uid, RowAfter)
          /\ WriteState(cur.uid, RowAfter, cur.body, Resolves)
    /\ EndOp
    /\ UNCHANGED <<books, failed, edits, faults>>

(***************************************************************************)
(* An operation that fails: its cards are held, and the cycle goes on.     *)
(***************************************************************************)
FailOp ==
    /\ EndOp
    /\ RecordFailures(FailedCards(cur, wrote))
    /\ failed' = failed \cup {<<c.side, c.href>> : c \in FailedCards(cur, wrote)}
    /\ UNCHANGED <<books, edits>>

\* The server refuses the write (412), the written card is gone when it is
\* read back, or the row would share an href with another contact's.
Refused ==
    /\ \/ pc = "put" /\ ~ Accepts
       \/ pc = "readback" /\ card[cur.to][wrote.href] = None
       \/ /\ pc = "delete" /\ card[cur.to][cur.target.href] # None
          /\ ~ Matches(cur.to, cur.target)
       \/ pc = "save" /\ ~ Drops /\ HrefTaken(cur.uid, RowAfter)
    /\ FailOp
    /\ UNCHANGED faults

\* A server rejects a request, or the state store fails, for this card only.
Rejected ==
    /\ \/ pc \in {"put", "readback", "delete"} /\ Fault("reject")
       \/ pc \in {"archive", "save"} /\ Fault("store")
    /\ FailOp

(***************************************************************************)
(* An operation that ends the cycle: rate limited, unauthorized, a network *)
(* error, or the state store unreachable.  A synced contact's cards are    *)
(* held, if that can be recorded (otherwise it is a Crash).                *)
(***************************************************************************)
AbortCycle ==
    /\ EndCycle
    /\ IF HoldsOnAbort(cur) THEN RecordFailures(FailedCards(cur, wrote))
       ELSE UNCHANGED store
    /\ UNCHANGED edits

\* The request did not arrive, or the transaction did not commit.
Unsent ==
    /\ \/ pc \in {"put", "readback", "delete"} /\ Fault("unsent")
       \/ pc \in {"archive", "save"} /\ Fault("store")
    /\ AbortCycle
    /\ UNCHANGED books

\* The server did it, but its answer was lost.
AnswerLost ==
    /\ \/ /\ pc = "put" /\ Accepts
          /\ Write(cur.to, cur.target.href, Pushed)
       \/ /\ pc = "delete" /\ Matches(cur.to, cur.target)
          /\ Remove(cur.to, cur.target.href)
    /\ Fault("lost") /\ AbortCycle

(***************************************************************************)
(* The end of a cycle whose operations all ran: failures that no longer    *)
(* apply go, and the tokens of its listing are stored.                     *)
(***************************************************************************)
Outdated ==
    {k \in Side \X Href : /\ failures[k[1]][k[2]] # None
                          /\ k \notin failed
                          /\ listing[k[1]][k[2]] = 0 \/ snap[k[1]][k[2]].kind # "held"}

\* Faulty: the tokens are those of the cycle's end.
FinishWithNewTokens ==
    /\ pc = "apply" /\ todo = {}
    /\ failures' = Cleared(Outdated)
    /\ sinceStored' = [s \in Side |-> FALSE]
    /\ EndCycle
    /\ UNCHANGED <<card, ver, sinceListed, rows, conflicts, edits, faults>>

Finish ==
    /\ pc = "apply" /\ todo = {}
    /\ failures' = Cleared(Outdated)
    /\ sinceStored' = sinceListed
    /\ EndCycle
    /\ UNCHANGED <<card, ver, sinceListed, rows, conflicts, edits, faults>>

Daemon ==
    \/ Wake \/ CheckDelta \/ List \/ Fetch \/ Plan
    \/ StartOp \/ Archive \/ Put \/ ReadBack \/ Delete \/ Save \/ Refused
    \/ Finish

Faulty == Crash \/ Reset \/ TokenInvalid \/ Rejected \/ Unsent \/ AnswerLost

Next ==
    \/ UserEdit \/ UserDelete
    \/ \E s \in Side, h \in Href : BackoffPasses(s, h)
    \/ Daemon \/ Faulty

Spec == Init /\ [][Next]_vars

\* The daemon keeps polling and every backoff elapses; nobody else owes
\* anything.
Fairness ==
    /\ WF_vars(Daemon)
    /\ \A s \in Side, h \in Href : SF_vars(BackoffPasses(s, h))

FairSpec == Spec /\ Fairness

(***************************************************************************)
(* Properties.                                                             *)
(***************************************************************************)
DaemonStep == edits' = edits

\* What a card says can still be found: it is the content last synced, which
\* its contact's other card has moved on from, or the history holds it.
Accounted(c) ==
    \/ rows[c.uid] # None /\ rows[c.uid].body = c.body
    \/ \E r \in conflicts, s \in Side : r.uid = c.uid /\ r.bodies[s] = c.body

\* No edit is lost: a card the daemon overwrites or deletes is accounted for
\* at that moment, whatever people did since the daemon read it
\* (executor::execute's preconditions, and the history written first).
NoEditLost ==
    [][DaemonStep =>
         \A s \in Side, h \in Href :
            (card[s][h] # None /\ card'[s][h] # card[s][h]) => Accounted(card[s][h])]_vars

\* An edit wins over a deletion: a card the daemon removes still says what
\* was last synced (planner::one_sided, Delete's If-Match).
EditBeatsDelete ==
    [][DaemonStep =>
         \A s \in Side, h \in Href :
            (card[s][h] # None /\ card'[s][h] = None) =>
                /\ rows[card[s][h].uid] # None
                /\ rows[card[s][h].uid].body = card[s][h].body]_vars

\* Echo suppression is sound: a card at the href and ETag its row stores has
\* the content the row calls synced (snapshot::fetch_lists takes it as
\* unchanged and never looks).
UnchangedIsUnchanged ==
    \A u \in Synced, s \in Side :
        LET r == rows[u].res[s] IN
        (card[s][r.href] # None /\ ver[s][r.href] = r.etag) =>
            card[s][r.href] = [uid |-> u, body |-> rows[u].body]

\* Whenever one card of a contact changed or is gone, its counterpart was
\* fetched too, so no update or deletion meets a card that was not read
\* (snapshot::fetch_lists; planner::one_sided never has to refuse an update
\* as UnreadTarget).
CounterpartWasRead ==
    pc = "plan" =>
        \A u \in Planned, s \in Side :
            Status(s, u) = "unchanged" => Status(Other(s), u) = "unchanged"

\* u is nowhere, or on both sides with equal content as its row records.
InSync(u) ==
    IF rows[u] = None
    THEN \A s \in Side : CardsOf(s, u) = {}
    ELSE \A s \in Side :
            /\ CardsOf(s, u) = {rows[u].res[s].href}
            /\ card[s][rows[u].res[s].href].body = rows[u].body
            /\ ver[s][rows[u].res[s].href] = rows[u].res[s].etag

NoFailures == \A s \in Side, h \in Href : failures[s][h] = None

\* An idle daemon has nothing to do: when both stored tokens are current
\* and no card is failing, every contact is in sync (listing::idle, and the
\* tokens finish stores are the listing's, not the cycle's end's).
IdleIsInSync ==
    (pc = "wait" /\ NoFailures /\ \A s \in Side : ~ sinceStored[s])
        => \A u \in Uid : InSync(u)

\* Crashes, lost answers and failed operations never make the daemon copy a
\* contact beside its own copy, when people leave the address books alone
\* while a cycle runs (href::mint_href, and held groups released together).
\* That needs ETags in the answers to PUTs, or few edits and faults: a failure
\* without an ETag can outlive its card, and hold one card of a group alone.
NoDuplicates ==
    \A s \in Side, u \in Uid : Cardinality(CardsOf(s, u)) <= 1

\* What only a person can resolve, and the daemon keeps reporting: several
\* cards of u on one side; another contact's card where u's card was, or u's
\* where another's was; another contact's card where u's copy has to be
\* created; a card whose UID cannot be read.
Reported(s, h) == card[s][h] # None /\ failures[s][h] # None

NeedsAPerson(u) ==
    \E s \in Side :
        \/ Cardinality(CardsOf(s, u)) > 1 /\ \A h \in CardsOf(s, u) : Reported(s, h)
        \/ \E h \in Href :
              /\ Reported(s, h)
              /\ \/ card[s][h].body = Unreadable
                 \/ /\ RowAt(s, h) \ {card[s][h].uid} # {}
                    /\ u \in RowAt(s, h) \cup {card[s][h].uid}
                 \/ card[s][h].uid = u /\ card[Other(s)][Mint[u]] # None

\* More contacts are gone from a side than one cycle may delete: the guard
\* stops every cycle until somebody puts some back.
TooManyGone ==
    \E s \in Side : Cardinality({u \in Synced : CardsOf(s, u) = {}}) > DeleteLimit

\* Once people stop and the faults are over, every contact comes to rest in
\* sync, or reported as something somebody has to resolve: no retry goes on
\* forever, and nothing stays out of sync in silence (finish, idle and the
\* backoff together).
Converges ==
    <>[](\/ \A u \in Uid : (InSync(u) /\ FailuresOf(u) = {}) \/ NeedsAPerson(u)
         \/ TooManyGone)
=============================================================================
