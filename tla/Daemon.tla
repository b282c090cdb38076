------------------------------- MODULE Daemon -------------------------------
(***************************************************************************)
(* The daemon over time: the poll loop, its --reset, its shutdown, and the *)
(* cycles it runs, with the cards that keep failing and the deletions a    *)
(* cycle does not carry out.  A contact is known by its UID on both sides; *)
(* requests and transactions of one operation are one step here (SyncCycle *)
(* and Database take them apart).  An ETag stands for the card's content:  *)
(* an edit that is taken back looks like none.                             *)
(***************************************************************************)
EXTENDS Failures, Sequences

CONSTANTS Contact, Body, Junk, \* Junk stands for a card nobody can read
          Order,         \* the order of the rows: a sequence of the contacts
          Alike,         \* pairs of contacts that look like one
          Synced,        \* the contacts with a row at first; others are new on iCloud
          Winner,
          DeleteFloor, DeletePercent,
          Resets,        \* whether the daemon may be started with --reset
          Grace,         \* SHUTDOWN_TIMEOUT
          RetryAfters,   \* what a server that limits may ask for; 0 if it says nothing
          Mergers,       \* whether a client deletes merged entries
          Signals,       \* whether the process is asked to stop
          BrokenSides,   \* where an unreadable card may appear
          Longest,       \* bound on the time one cycle takes
          MaxEdits, MaxFaults,   \* bounds on what people and the network do
          FaultKinds     \* what a contact's writes may keep meeting

ASSUME DaemonAssumption ==
    /\ Winner \in {"icloud", "fastmail"}
    /\ DeleteFloor \in Nat /\ DeletePercent \in Nat
    /\ Grace \in Nat /\ Longest \in Nat /\ IsFiniteSet(Contact)
    /\ Alike \subseteq Contact \X Contact
    /\ \A p \in Alike : p[1] # p[2] /\ <<p[2], p[1]>> \in Alike
    /\ Order \in Seq(Contact) /\ \A u \in Contact : \E i \in DOMAIN Order : Order[i] = u
    /\ Junk \notin Contact /\ None \notin Body \cup {Junk} /\ Body # {}
    /\ None \notin FailureRow(Body \cup {Junk})
    /\ RetryAfters \subseteq Nat /\ Resets \subseteq BOOLEAN
    /\ BrokenSides \subseteq {"icloud", "fastmail"}
    /\ MaxEdits \in Nat /\ MaxFaults \in Nat /\ FaultKinds \subseteq Errors

VARIABLES
          book,        \* what each side holds
          broken,     \* a side also holds a card that does not parse
          row,        \* the last synced content
          failures,   \* card failures
          token,      \* the stored tokens, and whether a side changed since
          fault,      \* what each contact's writes meet
          cycle,      \* the cycle under way
          tick, since, \* until the next tick, and since the last one that ran
          embargo,    \* how long a server still wants to be left alone
          grace,      \* how long the shutdown still waits; None before a signal
          reset,      \* the next cycle erases the state first
          budget,     \* what people and the network may still do
          ghost       \* what the properties remember

\* The state of the poll loop.
loop == <<tick, since, embargo, grace, reset>>

vars == <<book, broken, row, failures, token, fault, cycle, loop, budget, ghost>>

Side == {"icloud", "fastmail"}
Other(s) == IF s = "icloud" THEN "fastmail" ELSE "icloud"
Key == Side \X (Contact \cup {Junk})
Stopping == grace # None

(***************************************************************************)
(* What a cycle sees.                                                      *)
(***************************************************************************)
Etag(s, u) == IF u = Junk THEN (IF broken[s] THEN Junk ELSE None) ELSE book[s][u]

Has(s, u) == Etag(s, u) # None

\* Failures are due as of the start of the cycle.
Due(k) == IsDue(failures[k], k \in cycle.ripe, Etag(k[1], k[2]))

\* The failures of one operation carry one UID and are released together.
Group(k) ==
    {l \in {k} \cup {<<s, k[2]>> : s \in {s \in Side : k[2] # Junk}} : failures[l] # None}

IsHeld(s, u) ==
    /\ failures[<<s, u>>] # None /\ Has(s, u)
    /\ \E l \in Group(<<s, u>>) : ~ Due(l)

Held == {k \in Key : IsHeld(k[1], k[2])}

HeldBack(u) == \E s \in Side : IsHeld(s, u)

\* A card of no known contact, unreadable or held: it might be anyone's.
Uncertain(s) ==
    \/ broken[s]
    \/ \E u \in Contact : row[u] = None /\ IsHeld(s, u)

Status(s, u) ==
    IF book[s][u] = None THEN "deleted" ELSE IF book[s][u] = row[u] THEN "same" ELSE "changed"

SameBodies(u) == book["icloud"][u] = book["fastmail"][u]

Deferred(u) == \E s \in Side : Uncertain(s) /\ Status(s, u) = "deleted"

(***************************************************************************)
(* The plan.                                                               *)
(***************************************************************************)
Rows == {u \in Contact : row[u] # None}

Ops(kinds, uids) == [kind : kinds, uid : uids, to : Side]

StateOnly == {"Forget", "Refresh", "Adopt"}

\* The decision table of a synced contact; `to` is the side written to.
RowOps ==
    {op \in Ops({"Forget", "Refresh", "Conflict", "Update", "Resurrect", "Delete"},
               {u \in Rows : ~ HeldBack(u) /\ ~ Deferred(u)}) :
        LET to == Status(op.to, op.uid)
            from == Status(Other(op.to), op.uid)
            same == SameBodies(op.uid)
        IN  /\ op.kind \in StateOnly => op.to = "icloud"
            /\ CASE op.kind = "Forget" -> to = "deleted" /\ from = "deleted"
                 [] op.kind = "Refresh" -> to = "changed" /\ from = "changed" /\ same
                 [] op.kind = "Conflict" ->
                        to = "changed" /\ from = "changed" /\ ~ same /\ op.to = Other(Winner)
                 [] op.kind = "Update" -> to = "same" /\ from = "changed"
                 [] op.kind = "Resurrect" -> to = "deleted" /\ from = "changed"
                 [] op.kind = "Delete" -> to = "same" /\ from = "deleted"}

\* Contacts without a row: paired by UID, or copied.
PairOps ==
    {op \in Ops({"Adopt", "Conflict", "Create"}, {u \in Contact \ Rows : ~ HeldBack(u)}) :
        LET u == op.uid IN
        /\ Has(Other(op.to), u)
        /\ op.kind = "Create" <=> ~ Has(op.to, u)
        /\ op.kind = "Adopt" => SameBodies(u) /\ op.to = "icloud"
        /\ op.kind = "Conflict" => ~ SameBodies(u) /\ op.to = Other(Winner)}

\* Faulty: every deletion goes ahead.
HoldNothing(ops) == {}

\* One contact's Fastmail card and another's iCloud card are to be deleted,
\* and the two look like one.
CrossDeletes(ops) ==
    {op \in ops : op.kind = "Delete" /\ \E other \in ops :
        /\ other.kind = "Delete" /\ other.to = Other(op.to)
        /\ <<op.uid, other.uid>> \in Alike}

Deletions(ops, s) == 
    {op \in ops : op.kind = "Forget" \/ (op.kind = "Delete" /\ op.to = s)}

DeleteLimit == Most(DeleteFloor, (Cardinality(Rows) * DeletePercent) \div 100)

\* Faulty: one deletion too many passes.
BlockedAbove(ops) == \E s \in Side : Cardinality(Deletions(ops, s)) > DeleteLimit + 1

CheckDeletions(ops) == \E s \in Side : Cardinality(Deletions(ops, s)) > DeleteLimit

\* Row operations in the order of the rows, then those of pairing.
Rank(op) ==
    LET place == CHOOSE i \in DOMAIN Order : Order[i] = op.uid
    IN  IF op.uid \in Rows THEN place ELSE place + Len(Order)

First(ops) == CHOOSE op \in ops : \A other \in ops : Rank(op) <= Rank(other)

\* What a cycle carries out, and the failures its diagnostics are.
Plan == LET ops == RowOps \cup PairOps IN ops \ CrossDeletes(ops)

Unreadable == {<<s, Junk>> : s \in {s \in Side : broken[s] /\ ~ IsHeld(s, Junk)}}

(***************************************************************************)
(* The operations.                                                         *)
(***************************************************************************)
Source(op) == <<Other(op.to), op.uid>>
Target(op) == <<op.to, op.uid>>

\* The cards held after the operation failed.
FailedCards(op) ==
    CASE op.kind \in {"Create", "Resurrect", "Update"} -> {Source(op)}
      [] op.kind = "Conflict" -> {Source(op)} \cup {k \in {Target(op)} : row[op.uid] = None}
      [] op.kind = "Delete" -> {Target(op)}
      [] OTHER -> {}

\* Faulty: an error that ends the cycle holds nothing.
HoldsNone(op) == FALSE

HoldsOnAbort(op) ==
    \/ op.kind \in {"Update", "Delete", "Resurrect"}
    \/ op.kind = "Conflict" /\ row[op.uid] # None

Cleared(op) ==
    CASE op.kind \in {"Create", "Resurrect", "Update"} -> {Source(op)}
      [] op.kind \in {"Conflict", "Adopt"} -> {Source(op), Target(op)}
      [] op.kind = "Delete" -> {Target(op)}
      [] OTHER -> {}

\* The failures recorded for the cards, each at the version listed.
Recorded(keys, listed) ==
    [k \in Key |-> IF k \in keys THEN RecordFailure(failures[k], listed[k[1]][k[2]], since)
                   ELSE failures[k]]

Moved(s) == token' = [token EXCEPT ![s] = IF @ = "current" THEN "behind" ELSE @]

\* What the requests of the operation are answered.
Changed(op) ==
    LET s == op.to IN
    /\ book[s][op.uid] # cycle.listed[s][op.uid]
    /\ op.kind = "Delete" => book[s][op.uid] # None

Answers(op) ==
    IF op.kind \in StateOnly THEN {"ok"}
    ELSE IF fault[op.uid] # None THEN {fault[op.uid]}
    ELSE (IF Changed(op) THEN {"PreconditionFailed"} ELSE {"ok"})
         \cup (IF budget.faults > 0 THEN {"Unauthorized", "RateLimited"} ELSE {})

\* The body the operation leaves in the row, and on the side written to.
Result(op) == IF op.kind \in {"Delete", "Forget"} THEN None ELSE cycle.listed[Other(op.to)][op.uid]

\* Faulty: what the server asks for is not waited for.
TickAfterPoll(delay) == Poll - since

\* The next tick after a cycle that was limited: no sooner than the interval
\* after its start, nor than the server asked.
TickAfter(delay) == Most(Poll - since, delay)

(***************************************************************************)
(* The loop (run_loop).                                                    *)
(***************************************************************************)
Idling == [pc |-> "waiting", ripe |-> {}, todo |-> {}, listed |-> <<>>, failed |-> {},
           held |-> {}, moved |-> {}, limit |-> 0, erased |-> {}]

Finished(outcome) ==
    /\ cycle' = Idling
    /\ reset' = (reset /\ outcome = "Blocked")
    /\ UNCHANGED <<tick, since, embargo, grace, budget>>

Failed(error) ==
    /\ cycle' = Idling
    /\ \E delay \in IF error = "RateLimited" THEN RetryAfters ELSE {0} :
            IF delay = 0 THEN UNCHANGED <<tick, embargo>>
            ELSE tick' = TickAfter(delay) /\ embargo' = delay
    /\ UNCHANGED <<since, grace, reset>>

Spend == budget' = [budget EXCEPT !.faults = @ - 1]

Running == cycle.pc \notin {"waiting", "stopped"}

\* The select is biased: a shutdown goes first.
Starts == cycle.pc = "waiting" /\ tick = 0 /\ ~ Stopping

Start ==
    /\ Starts
    /\ cycle' = [cycle EXCEPT !.pc = IF reset THEN "resetting" ELSE "looking",
                              !.ripe = {k \in Key : failures[k] # None /\ failures[k].wait = 0}]
    /\ tick' = Poll /\ since' = 0
    /\ UNCHANGED <<embargo, grace, reset>>
    /\ UNCHANGED <<book, broken, row, failures, token, fault, budget, ghost>>

Reset ==
    /\ cycle.pc = "resetting"
    /\ row' = [u \in Contact |-> None]
    /\ failures' = [k \in Key |-> None]
    /\ token' = [s \in Side |-> "none"]
    /\ cycle' = [cycle EXCEPT !.pc = "looking", !.ripe = {}]
    /\ ghost' = [ghost EXCEPT !.tried = [k \in Key |-> None]]
    /\ UNCHANGED <<book, broken, fault, loop, budget>>

Idle == (\A s \in Side : token[s] = "current") /\ cycle.ripe = {}

\* Any request may be refused.
Refused ==
    /\ cycle.pc \in {"looking", "listing"}
    /\ budget.faults > 0 /\ Spend
    /\ \E error \in {"Transient", "RateLimited", "Unauthorized"} : Failed(error)
    /\ ghost' = [ghost EXCEPT !.blocked = FALSE]
    /\ UNCHANGED <<book, broken, row, failures, token, fault>>

Look ==
    /\ cycle.pc = "looking"
    /\ IF Idle THEN Finished("Idle")
       ELSE cycle' = [cycle EXCEPT !.pc = "listing"] /\ UNCHANGED <<loop, budget>>
    /\ UNCHANGED <<book, broken, row, failures, token, fault, ghost>>

\* A contact of the merged entry is left out of the plan.
Unplanned ==
    ghost.merged # None /\ \E u \in {ghost.merged[1], ghost.merged[2]} : HeldBack(u) \/ Deferred(u)

\* Faulty: the listing counts as dealt with.
BlockWithNewTokens ==
    /\ Finished("Blocked")
    /\ ghost' = [ghost EXCEPT !.blocked = TRUE]
    /\ token' = [s \in Side |-> "current"]
    /\ UNCHANGED failures

\* The guard stops the cycle before any write.
Block ==
    /\ Finished("Blocked")
    /\ ghost' = [ghost EXCEPT !.blocked = TRUE]
    /\ UNCHANGED <<failures, token>>

List ==
    /\ cycle.pc = "listing"
    /\ LET listed == [s \in Side |-> [u \in Contact \cup {Junk} |-> Etag(s, u)]]
           plan == Plan
       IN
       IF CheckDeletions(plan)
       THEN Block
       ELSE /\ cycle' = [cycle EXCEPT !.pc = "applying", !.todo = plan, !.listed = listed,
                                      !.failed = Unreadable, !.held = Held, !.moved = {},
                                      !.limit = DeleteLimit]
            /\ failures' = Recorded(Unreadable, listed)
            /\ ghost' = [ghost EXCEPT !.blind = @ \/ Unplanned, !.blocked = FALSE]
            /\ UNCHANGED <<loop, budget, token>>
    /\ UNCHANGED <<book, broken, row, fault>>

Tried(keys) ==
    [k \in Key |->
        IF k \notin keys THEN ghost.tried[k]
        ELSE LET etag == cycle.listed[k[1]][k[2]]
                 before == ghost.tried[k]
                 again == before # None /\ before.etag = etag
             IN  [etag |-> etag, ago |-> since,
                  times |-> IF again THEN Least(before.times + 1, MaxAttempts) ELSE 1]]

Succeed(op) ==
    LET forgotten == {k \in Key : k[2] = op.uid} IN
    /\ book' = IF op.kind \in StateOnly THEN book ELSE [book EXCEPT ![op.to][op.uid] = Result(op)]
    /\ IF op.kind \in StateOnly THEN UNCHANGED token ELSE Moved(op.to)
    /\ row' = [row EXCEPT ![op.uid] = Result(op)]
    /\ failures' = [k \in Key |-> IF k \in Cleared(op) THEN None ELSE failures[k]]
    /\ cycle' = [cycle EXCEPT
            !.todo = @ \ {op},
            !.moved = @ \cup (IF op.kind \in StateOnly THEN {} ELSE {op.to}),
            !.erased = @ \cup (IF op.kind = "Delete" THEN {Target(op)}
                               ELSE IF op.kind = "Forget" THEN {Target(op), Source(op)} ELSE {})]
    /\ ghost' = [ghost EXCEPT !.tried = [k \in Key |-> IF k \in forgotten THEN None ELSE @[k]]]
    /\ UNCHANGED <<loop, budget>>

Fail(op, error) ==
    LET keys == IF ~ IsCycleFatal(error) \/ HoldsOnAbort(op) THEN FailedCards(op) ELSE {}
        owed == IF IsCycleFatal(error) /\ row[op.uid] = None THEN {} ELSE FailedCards(op)
    IN
    /\ failures' = Recorded(keys, cycle.listed)
    /\ ghost' = [ghost EXCEPT !.tried = Tried(owed)]
    /\ IF IsCycleFatal(error) THEN Failed(error)
       ELSE /\ cycle' = [cycle EXCEPT !.todo = @ \ {op}, !.failed = @ \cup keys]
            /\ UNCHANGED loop
    /\ IF error \in {"Unauthorized", "RateLimited"} THEN Spend ELSE UNCHANGED budget
    /\ UNCHANGED <<book, row, token>>

Operate ==
    /\ cycle.pc = "applying" /\ cycle.todo # {}
    /\ LET op == First(cycle.todo) IN
       \E answer \in Answers(op) :
          IF answer = "ok" THEN Succeed(op) ELSE Fail(op, answer)
    /\ UNCHANGED <<broken, fault>>

\* Failures of cards that are gone, or were used without failing again.
Resolved ==
    {k \in Key : /\ failures[k] # None /\ k \notin cycle.failed
                 /\ cycle.listed[k[1]][k[2]] = None \/ k \notin cycle.held}

Finish ==
    /\ cycle.pc = "applying" /\ cycle.todo = {}
    /\ failures' = [k \in Key |-> IF k \in Resolved THEN None ELSE failures[k]]
    /\ token' = [s \in Side |-> IF s \in cycle.moved THEN "behind" ELSE "current"]
    /\ Finished("Applied")
    /\ ghost' = [ghost EXCEPT !.tried = [k \in Key |-> IF k \in Resolved THEN None ELSE @[k]]]
    /\ UNCHANGED <<book, broken, row, fault>>

\* Faulty: the loop looks for a shutdown at its ticks only.
StopAtTick ==
    /\ Stopping
    /\ \/ cycle.pc = "waiting" /\ tick = 0
       \/ Running /\ grace = 0
    /\ cycle' = [Idling EXCEPT !.pc = "stopped"]
    /\ UNCHANGED <<book, broken, row, failures, token, fault, loop, budget, ghost>>

\* The loop ends between cycles; a cycle that outlasts the grace is cut off.
Stop ==
    /\ Stopping
    /\ \/ cycle.pc = "waiting"
       \/ Running /\ grace = 0
    /\ cycle' = [Idling EXCEPT !.pc = "stopped"]
    /\ UNCHANGED <<book, broken, row, failures, token, fault, loop, budget, ghost>>

(***************************************************************************)
(* The world: time, people, servers and the operator.                      *)
(***************************************************************************)
Aged ==
    [k \in Key |-> IF ghost.tried[k] = None THEN None
                   ELSE [ghost.tried[k] EXCEPT !.ago = Least(@ + 1, BackoffCap + Longest)]]

Pass ==
    /\ cycle.pc # "stopped" /\ grace # 0
    /\ IF Running THEN since < Longest ELSE tick > 0
    /\ tick' = Left(tick, 1) /\ embargo' = Left(embargo, 1)
    /\ since' = Least(since + 1, Most(Poll, Longest))
    /\ grace' = IF grace = None THEN None ELSE Left(grace, 1)
    /\ UNCHANGED reset
    /\ failures' = [k \in Key |-> IF failures[k] = None THEN None
                                  ELSE [failures[k] EXCEPT !.wait = Left(@, 1)]]
    /\ ghost' = [ghost EXCEPT !.tried = Aged]
    /\ UNCHANGED <<book, broken, row, token, fault, cycle, budget>>

\* Somebody writes to a side; a merged delete is one act on both.
Touch(sides, touched) ==
    /\ ~ Stopping /\ budget.edits > 0
    /\ budget' = [budget EXCEPT !.edits = @ - 1]
    /\ token' = [s \in Side |-> IF s \in sides /\ token[s] = "current" THEN "behind" ELSE token[s]]
    /\ cycle' = IF cycle.pc = "applying" THEN [cycle EXCEPT !.moved = @ \cup sides] ELSE cycle
    /\ UNCHANGED <<row, failures, fault, loop>>

Released(u) == IF ghost.merged # None /\ u \in {ghost.merged[1], ghost.merged[2]} THEN None ELSE ghost.merged

Edit ==
    \E s \in Side, u \in Contact, b \in Body \cup {None} :
        /\ book[s][u] \notin {b, None}
        /\ Touch({s}, {u})
        /\ book' = [book EXCEPT ![s][u] = b]
        /\ ghost' = [ghost EXCEPT !.merged = Released(u), !.blocked = FALSE]
        /\ UNCHANGED broken

\* A client that shows both accounts as one deletes an entry that merges
\* two contacts: one card of each.
DeleteMerged ==
    \E p \in Alike :
        /\ Mergers
        /\ p[1] \in Rows /\ p[2] \in Rows
        /\ \A s \in Side : \A u \in {p[1], p[2]} : book[s][u] # None
        /\ Touch(Side, {p[1], p[2]})
        /\ book' = [book EXCEPT !["icloud"][p[1]] = None, !["fastmail"][p[2]] = None]
        /\ ghost' = [ghost EXCEPT !.merged = p, !.blind = FALSE,
                                  !.blocked = FALSE]
        /\ UNCHANGED broken

\* A card nobody can read appears or goes.
Break ==
    \E s \in BrokenSides :
        /\ Touch({s}, {})
        /\ broken' = [broken EXCEPT ![s] = ~ @]
        /\ ghost' = [ghost EXCEPT !.blocked = FALSE]
        /\ UNCHANGED book

\* A server starts to refuse a contact, or stops, between cycles.
Fault ==
    /\ cycle.pc = "waiting" /\ ~ Stopping
    /\ \E u \in Contact :
        \/ /\ fault[u] = None /\ budget.faults > 0 /\ Spend
           /\ \E kind \in FaultKinds : fault' = [fault EXCEPT ![u] = kind]
        \/ fault[u] # None /\ fault' = [fault EXCEPT ![u] = None] /\ UNCHANGED budget
    /\ UNCHANGED <<book, broken, row, failures, token, cycle, loop, ghost>>

Signal ==
    /\ Signals /\ ~ Stopping
    /\ grace' = Grace
    /\ UNCHANGED <<tick, since, embargo, reset>>
    /\ UNCHANGED <<book, broken, row, failures, token, fault, cycle, budget, ghost>>

Init ==
    /\ LET b == CHOOSE b \in Body : TRUE IN
        /\ book = [s \in Side |-> [u \in Contact |->
                     IF s = "icloud" \/ u \in Synced THEN b ELSE None]]
        /\ row = [u \in Contact |-> IF u \in Synced THEN b ELSE None]
    /\ broken = [s \in Side |-> FALSE]
    /\ failures = [k \in Key |-> None]
    /\ token = [s \in Side |-> IF s = "icloud" /\ ~ (Contact \subseteq Synced) THEN "behind" ELSE "current"]
    /\ fault = [u \in Contact |-> None]
    /\ cycle = Idling
    /\ tick = 0 /\ since = Most(Poll, Longest) /\ embargo = 0
    /\ grace = None /\ reset \in Resets
    /\ budget = [edits |-> MaxEdits, faults |-> MaxFaults]
    /\ ghost = [tried |-> [k \in Key |-> None], merged |-> None, blind |-> FALSE, blocked |-> FALSE]

Cycle == Start \/ Reset \/ Refused \/ Look \/ List \/ Operate \/ Finish

World == Pass \/ Edit \/ DeleteMerged \/ Break \/ Fault \/ Signal

Next == Cycle \/ Stop \/ World

Spec == Init /\ [][Next]_vars

\* The process runs and time passes; a step of time is never taken for ever
\* in place of a step of the process, for a cycle takes at most Longest.
FairSpec == Spec /\ WF_vars(Cycle \/ Stop \/ Pass)

(***************************************************************************)
(* Properties.                                                             *)
(***************************************************************************)
TypeOK ==
    /\ book \in [Side -> [Contact -> Body \cup {None}]]
    /\ broken \in [Side -> BOOLEAN]
    /\ row \in [Contact -> Body \cup {None}]
    /\ failures \in [Key -> FailureRow(Body \cup {Junk}) \cup {None}]
    /\ token \in [Side -> {"none", "behind", "current"}]
    /\ fault \in [Contact -> Errors \cup {None}]
    /\ cycle.pc \in {"waiting", "resetting", "looking", "listing", "applying", "stopped"}
    /\ tick \in Nat /\ embargo \in Nat /\ grace \in 0..Grace \cup {None}

\* No cycle starts sooner than the poll interval after the last one, nor
\* before the time a server asked for has passed (run_loop), and none starts
\* once the process was asked to stop.
Spaced ==
    [][cycle.pc = "waiting" /\ cycle'.pc \in {"resetting", "looking"} =>
           since >= Poll /\ embargo = 0 /\ ~ Stopping]_vars

\* A process asked to stop ends, whatever its cycle meets (run_daemon).
Stops == Stopping ~> cycle.pc = "stopped"

\* The least wait after so many failures in a row of one version of a card.
Promised(times) ==
    CASE times = 1 -> Least(Poll, BackoffCap)
      [] times = 2 -> Least(2 * Poll, BackoffCap)
      [] OTHER -> Least(4 * Poll, BackoffCap)

\* A card that keeps failing is tried ever less often, whatever ended the
\* cycles it failed in (BackoffPolicy, held_hrefs): until its backoff is over
\* no operation is planned for it, unless somebody changed it.
Patient ==
    [][cycle.pc = "listing" /\ cycle'.pc = "applying" =>
           \A op \in cycle'.todo : \A k \in FailedCards(op) :
               LET before == ghost.tried[k] IN
               \/ before = None
               \/ before.etag # Etag(k[1], k[2])
               \/ before.ago - since >= Promised(before.times)]_vars

Settled(u) == SameBodies(u) /\ row[u] = book["icloud"][u]

\* The contact waits for a person: it and one like it lost a card each, on
\* different sides.
CrossDeleted(u) ==
    \E v \in Contact : \E s \in Side :
        /\ <<u, v>> \in Alike /\ {u, v} \subseteq Rows
        /\ book[s][u] = None /\ book[Other(s)][u] = row[u]
        /\ book[Other(s)][v] = None /\ book[s][v] = row[v]

Failing(u) == \E s \in Side : failures[<<s, u>>] # None /\ <<s, u>> \notin cycle.ripe

\* Its card may be the failing one nobody can attribute.
InDoubt(u) ==
    \E s \in Side : /\ book[s][u] = None
                   /\ \E v \in Contact \cup {Junk} :
                        v \notin Rows /\ failures[<<s, v>>] # None

\* A cycle finds nothing to do only when there is nothing to do: every
\* contact is in sync, or waits for a person or for a backoff (idle).
IdleIsDone ==
    [][cycle.pc = "looking" /\ cycle'.pc = "waiting" /\ ~ reset' /\ Idle =>
           \A u \in Contact :
               Settled(u) \/ Failing(u) \/ CrossDeleted(u) \/ InDoubt(u)]_vars

\* No cycle deletes more on one side than the limit (check_deletions).
WithinLimit ==
    \A s \in Side : Cardinality({k \in cycle.erased : k[1] = s}) <= cycle.limit

\* When a client deletes a merged entry, one card each of two contacts that
\* look like one, and nobody touches the two since, a card is left
\* (hold_cross_deletes), provided that no cycle planned one of them without
\* the other: the guard sees only the plan.
OneIsLeft ==
    ghost.merged # None /\ ~ ghost.blind =>
        \E s \in Side, u \in {ghost.merged[1], ghost.merged[2]} : book[s][u] # None

\* A new contact whose copy keeps timing out ends every cycle at its place.
Starved(u) == \E v \in Contact \ {u} : row[v] = None /\ fault[v] = "Transient"

\* A synced contact that keeps failing does not keep the others from getting
\* through (holds_on_abort): a contact the servers accept is settled in the
\* end, unless it waits for a person.
OthersGetThrough ==
    \A u \in Contact :
        []<>(\/ Settled(u) \/ fault[u] # None
             \/ CrossDeleted(u) \/ Starved(u) \/ ghost.blocked
             \/ \E s \in Side : broken[s]
             \/ reset \/ Stopping)
=============================================================================
