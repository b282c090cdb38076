------------------------------- MODULE Database -------------------------------
(***************************************************************************)
(* One SQLite database, and the cardigan processes that share it: a daemon *)
(* (`sync`), and `sync --once` or `dry-run` runs, which nothing keeps from *)
(* running beside it (cardigan/src/commands.rs).  Each process has one     *)
(* connection (database/src/lib.rs) and runs the state-store side of a     *)
(* sync cycle (core/src/service/mod.rs): reset, discovery, load, the       *)
(* operations, finish.                                                     *)
(*                                                                         *)
(* SQLite's part, as the code relies on it: a transaction is deferred, so  *)
(* it reads the database as its first statement found it and takes the     *)
(* write lock at its first write.  A write waits for another's lock until  *)
(* the busy timeout, and fails at once when somebody else committed since  *)
(* the transaction's first read (BUSY_SNAPSHOT).  `query_only` belongs to  *)
(* the connection.                                                         *)
(***************************************************************************)
EXTENDS Adapters

CONSTANTS
    Proc,        \* the processes
    Daemon,      \* the one that is the daemon
    Homes,       \* where iCloud's collection may be at first
    Operations,  \* Operations[p]: the operation transactions p may run
    MaxCycles,   \* bound: the cycles a process runs
    MaxOps,      \* bound: the operations a process runs
    MaxResets,   \* bound: the processes started with --reset
    MaxMoves,    \* bound: how often the iCloud collection moves
    MaxCrashes   \* bound: how often a process dies

VARIABLES
    rows,    \* the committed database
    conn,    \* conn[p]: p's connection
    asked,   \* asked[p]: the transaction p is in, or None
    loaded,  \* loaded[p]: the tables p's cycle plans with, or None
    cycle,   \* cycle[p]: p's cycle
    known,   \* known[p]: the collections p has cached, or None
    due,     \* whether the daemon's --reset is still to be done
    hosts,   \* the URLs of iCloud's collection, the last of which it is at
    resets,  \* how many resets were committed
    overlap, \* whether two sync cycles ever ran at once
    left     \* the bounds that are left

vars == <<rows, conn, asked, loaded, cycle, known, due, hosts, resets, overlap, left>>

home == hosts[Len(hosts)]

\* A token is of the collection it was listed from, and of the rows the
\* reset before it left.
Token == [url : Url, since : Nat]

ASSUME DatabaseAssumptions ==
    /\ Daemon \in Proc
    /\ IsFiniteSet(Href)
    /\ "fastmail" \in Url /\ Homes \subseteq Url \ {"fastmail"}
    /\ Operations \in [Proc -> SUBSET Operation]

\* None is none of the values it stands for the lack of.
ASSUME NoneAssumption ==
    /\ None \notin {"unique", "NotFound", "Conflict", "Constraint", "readonly", "ReadOnly", "5", "Busy", "517", "Database"}
    /\ None \notin Rows(Token) \cup ContactTable
    /\ None \notin ContactState \cup Endpoint(Token) \cup CardFailure
    /\ None \notin Transaction(Token) \cup [Side -> Url] \cup [Side -> Token]

(***************************************************************************)
(* The connection.                                                         *)
(***************************************************************************)
\* data: what the transaction reads and has written, None before its first
\* statement; stale: somebody committed since; todo: the calls to come.
Closed(queryOnly) ==
    [open |-> FALSE, queryOnly |-> queryOnly, data |-> None, stale |-> FALSE,
     locked |-> FALSE, todo |-> <<>>, found |-> <<>>, error |-> None]

ReadOnly(x) == x.tx = "load"

\* Faulty: a load's connection stays read-only.
BegunKept(c, x) ==
    [Closed(c.queryOnly \/ ReadOnly(x)) EXCEPT !.open = TRUE, !.todo = Calls(x)]

\* begin and begin_read_only: each sets query_only on whatever connection
\* it gets.
Begun(c, x) == [Closed(ReadOnly(x)) EXCEPT !.open = TRUE, !.todo = Calls(x)]

\* handle_dberr: 5 is SQLITE_BUSY, 517 its extended code BUSY_SNAPSHOT.
DbError(code) ==
    CASE code = "unique"   -> "Constraint"
      [] code = "readonly" -> "ReadOnly"
      [] code = "5"        -> "Busy"
      [] code = "517"      -> "Database"
      [] OTHER             -> code

Transient(error) == error \in {"Connection", "Busy"}

SomeoneElseHolds(p) == \E q \in Proc \ {p} : conn[q].locked

\* A write statement's error, before it does anything; None if it runs.
Refusals(p) ==
    CASE conn[p].queryOnly -> {"readonly"}
      [] SomeoneElseHolds(p) -> {"5"}
      [] conn[p].stale     -> {"517"}
      [] OTHER             -> {None}

InCall(p) == conn[p].open /\ conn[p].error = None /\ conn[p].todo # <<>>

\* The first query of a transaction settles what it reads from then on.
Query(p) ==
    /\ InCall(p) /\ conn[p].data = None /\ QueriesFirst(Head(conn[p].todo))
    /\ conn' = [conn EXCEPT ![p].data = rows]
    /\ UNCHANGED <<rows, asked, loaded, cycle, known, due, hosts, resets, overlap, left>>

Finished(p, done, wrote) ==
    IF done.error # None THEN [conn[p] EXCEPT !.error = DbError(done.error), !.locked = @ \/ wrote]
    ELSE [conn[p] EXCEPT !.data = done.rows, !.found = done.found, !.todo = Tail(@),
                         !.locked = @ \/ wrote]

Statement(p) ==
    /\ InCall(p) /\ (conn[p].data = None => ~QueriesFirst(Head(conn[p].todo)))
    /\ LET c == Head(conn[p].todo)
           data == IF conn[p].data = None THEN rows ELSE conn[p].data
       IN  \E refusal \in IF Writes(c, data) THEN Refusals(p) ELSE {None} :
               conn' = [conn EXCEPT ![p] =
                   IF refusal = None THEN Finished(p, Call(c, data, conn[p].found), Writes(c, data))
                   ELSE [@ EXCEPT !.error = DbError(refusal)]]
    /\ UNCHANGED <<rows, asked, loaded, cycle, known, due, hosts, resets, overlap, left>>

(***************************************************************************)
(* The cycle.                                                              *)
(***************************************************************************)
Resting == [pc |-> "rest", dryRun |-> FALSE, urls |-> None, tokens |-> None]

Running(p) == cycle[p].pc # "rest"

\* The cycle's next step may run: it waits for no transaction.
At(p, pc) == asked[p] = None /\ cycle[p].pc = pc

Goto(p, pc) == cycle' = [cycle EXCEPT ![p].pc = pc]

\* with_transaction and with_read_only_transaction begin.
Begin(p, x) ==
    /\ ~conn[p].open
    /\ asked' = [asked EXCEPT ![p] = x]
    /\ conn' = [conn EXCEPT ![p] = Begun(conn[p], x)]

Ask(p, x, pc) == Begin(p, x) /\ Goto(p, pc)

\* Only the daemon's cache outlives a cycle.
Kept(p, cached) == [known EXCEPT ![p] = IF p = Daemon THEN cached ELSE None]

Over(p, cached) ==
    /\ cycle' = [cycle EXCEPT ![p] = Resting]
    /\ loaded' = [loaded EXCEPT ![p] = None]
    /\ known' = Kept(p, cached)

\* What is left once a process was started, with --reset or without.
Started(bounds, reset) == [bounds EXCEPT !.resets = @ - IF reset THEN 1 ELSE 0]

\* Commands::engine: the daemon's cycles, one `sync --once`, or a dry run.
Start(p) ==
    /\ ~Running(p) /\ left.cycles[p] > 0
    /\ \E dryRun, reset \in BOOLEAN :
          /\ IF p = Daemon THEN ~dryRun /\ reset = due ELSE reset => left.resets > 0
          /\ left' = Started([left EXCEPT !.cycles[p] = @ - 1], p # Daemon /\ reset)
          /\ cycle' = [cycle EXCEPT ![p] = [Resting EXCEPT !.pc = IF reset /\ ~dryRun THEN "reset" ELSE "collections",
                                                         !.dryRun = dryRun]]
          /\ overlap' = (overlap \/ (~dryRun /\ \E q \in Proc \ {p} : Running(q) /\ ~cycle[q].dryRun))
    /\ UNCHANGED <<rows, conn, asked, loaded, known, due, hosts, resets>>

\* --reset.
DropState(p) ==
    /\ At(p, "reset")
    /\ Ask(p, [tx |-> "reset"], "resetting")
    /\ UNCHANGED <<rows, loaded, known, due, hosts, resets, overlap, left>>

\* Fastmail's collection stays where it is.
Found == [s \in Side |-> IF s = "icloud" THEN home ELSE "fastmail"]

\* Faulty: only the first discovery is recorded.
CollectionsOnce(p) ==
    /\ At(p, "collections")
    /\ IF rows.endpoints = {}
       THEN /\ cycle' = [cycle EXCEPT ![p].pc = "recording", ![p].urls = Found]
            /\ Begin(p, [tx |-> "discovery", urls |-> Found])
       ELSE /\ cycle' = [cycle EXCEPT ![p].pc = "load", ![p].urls = Found]
            /\ UNCHANGED <<asked, conn>>
    /\ UNCHANGED <<rows, loaded, known, due, hosts, resets, overlap, left>>

\* collections: from the cache, or discovered and, except by a dry run,
\* recorded.  A dry run of a reset plans with no state.
Collections(p) ==
    /\ At(p, "collections")
    /\ IF known[p] # None
       THEN cycle' = [cycle EXCEPT ![p].pc = "load", ![p].urls = known[p]] /\ UNCHANGED <<asked, conn>>
       ELSE IF cycle[p].dryRun
       THEN /\ \E pc \in {"load", "listing"} : cycle' = [cycle EXCEPT ![p].pc = pc, ![p].urls = Found]
            /\ UNCHANGED <<asked, conn>>
       ELSE /\ cycle' = [cycle EXCEPT ![p].pc = "recording", ![p].urls = Found]
            /\ Begin(p, [tx |-> "discovery", urls |-> Found])
    /\ UNCHANGED <<rows, loaded, known, due, hosts, resets, overlap, left>>

Load(p) ==
    /\ At(p, "load")
    /\ Ask(p, [tx |-> "load"], "loading")
    /\ UNCHANGED <<rows, loaded, known, due, hosts, resets, overlap, left>>

Listed(p) == [s \in Side |-> [url |-> cycle[p].urls[s], since |-> resets]]

\* Tokens on both sides, and nothing waiting in the journal.
MayIdle(p) ==
    /\ ~cycle[p].dryRun /\ loaded[p].pending = <<>>
    /\ \A s \in Side : loaded[p].endpoints[s] # None /\ loaded[p].endpoints[s].token # None

\* idle, list and plan, and the guard; a dry run ends here.  A collection
\* that moved away fails the listing, which forgets it.
List(p) ==
    /\ At(p, "listing")
    /\ \/ /\ cycle[p].urls["icloud"] = home /\ MayIdle(p)
          /\ Ask(p, [tx |-> "tokens", tokens |-> Listed(p)], "ending")
          /\ UNCHANGED <<loaded, known>>
       \/ /\ cycle[p].urls["icloud"] = home /\ ~cycle[p].dryRun
          /\ cycle' = [cycle EXCEPT ![p].pc = "ops", ![p].tokens = Listed(p)]
          /\ UNCHANGED <<conn, asked, loaded, known>>
       \/ /\ cycle[p].urls["icloud"] = home
          /\ Over(p, known[p]) /\ UNCHANGED <<conn, asked>>
       \/ Over(p, None) /\ UNCHANGED <<conn, asked>>
    /\ UNCHANGED <<rows, due, hosts, resets, overlap, left>>

Operate(p) ==
    /\ At(p, "ops") /\ left.ops[p] > 0
    /\ \E x \in Operations[p] :
          Ask(p, x, "operating")
    /\ left' = [left EXCEPT !.ops[p] = @ - 1]
    /\ UNCHANGED <<rows, loaded, known, due, hosts, resets, overlap>>

\* What the planner skipped: here, every card of no contact.
Unpaired(p) ==
    {k \in Key : \A u \in Uid : loaded[p].contacts[u] = None \/ loaded[p].contacts[u][k[1]].href # k[2]}

\* finish: the failures that were loaded and did not recur are cleared.
Finishing(p) ==
    /\ At(p, "ops")
    /\ Ask(p, [tx |-> "finish", skips |-> Unpaired(p), tokens |-> cycle[p].tokens,
               clear |-> {k \in Key : loaded[p].failures[k] # None}], "ending")
    /\ UNCHANGED <<rows, loaded, known, due, hosts, resets, overlap, left>>

Awaiting == {"resetting", "recording", "loading", "operating", "ending"}

\* Where the cycle goes on after a transaction.
After(pc) ==
    CASE pc = "resetting" -> "collections"
      [] pc = "recording" -> "load"
      [] pc = "loading"   -> "listing"
      [] pc = "operating" -> "ops"

\* An operation's failure ends the cycle only when it is transient; any
\* other transaction's always does.
Fatal(p, error) == error # None /\ (cycle[p].pc = "operating" => Transient(error))

\* run_loop: the daemon resets until a cycle is idle or applied.
Due(p, error) == due /\ ~(p = Daemon /\ cycle[p].pc = "ending" /\ error = None)

\* What the cycle does with the transaction's result.
Resume(p, error) ==
    /\ asked' = [asked EXCEPT ![p] = None]
    /\ due' = Due(p, error)
    /\ IF Fatal(p, error) \/ cycle[p].pc = "ending"
       THEN Over(p, known[p])
       ELSE /\ Goto(p, After(cycle[p].pc))
            /\ known' = CASE cycle[p].pc = "resetting" -> [known EXCEPT ![p] = None]
                          [] cycle[p].pc = "recording" -> [known EXCEPT ![p] = cycle[p].urls]
                          [] OTHER -> known
            /\ loaded' = IF cycle[p].pc = "loading" THEN [loaded EXCEPT ![p] = Loaded(conn[p].found)] ELSE loaded

\* A commit makes every other open snapshot stale.
Committed(p) ==
    [q \in Proc |->
        IF q = p THEN Closed(conn[p].queryOnly)
        ELSE IF conn[p].locked /\ conn[q].data # None THEN [conn[q] EXCEPT !.stale = TRUE]
        ELSE conn[q]]

\* transaction: commit what went well.  A read-only transaction is dropped.
Commit(p) ==
    /\ asked[p] # None /\ conn[p].error = None /\ conn[p].todo = <<>>
    /\ rows' = IF conn[p].locked THEN conn[p].data ELSE rows
    /\ conn' = Committed(p)
    /\ resets' = resets + IF asked[p].tx = "reset" THEN 1 ELSE 0
    /\ Resume(p, None)
    /\ UNCHANGED <<hosts, overlap, left>>

\* Faulty: what a failed transaction did is committed.
UndoneCommitted(p) ==
    [rows |-> IF conn[p].locked THEN conn[p].data ELSE rows, conn |-> Closed(conn[p].queryOnly)]

\* Faulty: a failed transaction keeps the connection.
UndoneOpen(p) ==
    [rows |-> rows, conn |-> [Closed(conn[p].queryOnly) EXCEPT !.open = TRUE, !.locked = conn[p].locked]]

\* transaction: roll back on any error and return it.
Undone(p) == [rows |-> rows, conn |-> Closed(conn[p].queryOnly)]

Rollback(p) ==
    /\ asked[p] # None /\ conn[p].error # None
    /\ rows' = Undone(p).rows
    /\ conn' = [conn EXCEPT ![p] = Undone(p).conn]
    /\ Resume(p, conn[p].error)
    /\ UNCHANGED <<hosts, resets, overlap, left>>

(***************************************************************************)
(* The world.                                                              *)
(***************************************************************************)
\* iCloud moves the account to another numbered host.
Move ==
    /\ Len(hosts) <= MaxMoves
    /\ \E url \in Url \ {home, "fastmail"} : hosts' = Append(hosts, url)
    /\ UNCHANGED <<rows, conn, asked, loaded, cycle, known, due, resets, overlap, left>>

\* A process dies in its cycle; SQLite undoes its open transaction.  The
\* daemon's next process is started with --reset or without.
Crash(p) ==
    /\ left.crashes > 0 /\ Running(p)
    /\ conn' = [conn EXCEPT ![p] = Closed(FALSE)]
    /\ asked' = [asked EXCEPT ![p] = None]
    /\ Over(p, None)
    /\ \E reset \in BOOLEAN :
          /\ reset => p = Daemon /\ left.resets > 0
          /\ due' = IF p = Daemon THEN reset ELSE due
          /\ left' = Started([left EXCEPT !.crashes = @ - 1], reset)
    /\ UNCHANGED <<rows, hosts, resets, overlap>>

Init ==
    /\ rows = NoRows
    /\ conn = [p \in Proc |-> Closed(FALSE)]
    /\ asked = [p \in Proc |-> None] /\ loaded = [p \in Proc |-> None]
    /\ known = [p \in Proc |-> None]
    /\ cycle = [p \in Proc |-> Resting]
    /\ due \in {reset \in BOOLEAN : reset => MaxResets > 0}
    /\ hosts \in {<<url>> : url \in Homes}
    /\ resets = 0 /\ overlap = FALSE
    /\ left = Started([cycles |-> MaxCycles, ops |-> [p \in Proc |-> MaxOps],
                       resets |-> MaxResets, crashes |-> MaxCrashes], due)

Transact(p) == Query(p) \/ Statement(p) \/ Commit(p) \/ Rollback(p)

Proceed(p) ==
    DropState(p) \/ Collections(p) \/ Load(p) \/ List(p) \/ Operate(p) \/ Finishing(p)

Next == Move \/ \E p \in Proc : Start(p) \/ Transact(p) \/ Proceed(p) \/ Crash(p)

Spec == Init /\ [][Next]_vars

\* A cycle that started goes on: every call returns, a write that waits for
\* a lock by the busy timeout.
FairSpec == Spec /\ \A p \in Proc : WF_vars(Transact(p) \/ Proceed(p))

(***************************************************************************)
(* Properties.                                                             *)
(***************************************************************************)
\* Every committed row reads back as the value it is a row of
\* (database/src/adapters, TryFrom): nothing is `corrupt`.
TypeOK == IsTables(View(rows), [url : Url, since : 0..resets])

\* However the calls of two processes interleave, and wherever one fails,
\* loses a race or dies, a transaction takes effect at one instant or not
\* at all, and a cycle plans with the tables of one instant
\* (core/src/repository.rs, transaction and read_only_transaction).
\* A load's instant is its first query.
Read(p) == conn[p].open /\ ReadOnly(asked[p]) /\ conn[p].data # None

Store == INSTANCE AtomicStore WITH
    tables <- View(rows),
    asked  <- [p \in Proc |-> IF Read(p) THEN None ELSE asked[p]],
    loaded <- [p \in Proc |-> IF Read(p) THEN Loaded(conn[p].data) ELSE loaded[p]]
Serializable == Store!Spec

\* The collection came back to a host it had left.
Returned == \E i, j \in DOMAIN hosts : i < j /\ hosts[i] = hosts[j]

\* As long as no two sync cycles ran at once and the collection came back to
\* no host it had left, a stored token is of the collection it is stored
\* with, and no reset came after its listing: an idle cycle never trusts a
\* token that says nothing about the rows
\* (core/src/state/endpoint.rs:24-27, SyncService::reset).
TokensStand ==
    ~overlap /\ ~Returned =>
        \A r \in rows.endpoints : r.token # None => r.token.url = r.url /\ r.token.since = resets

\* The connection a load made read-only never refuses a later
\* transaction's write (database/src/repository.rs:52-57).
NeverReadOnly == \A p \in Proc : conn[p].error # "ReadOnly"

\* A cycle that starts ends, whoever holds the lock or dies with it
\* (cardigan/src/sync.rs:49: an in-flight cycle always completes).
CyclesEnd == \A p \in Proc : []<>~Running(p)
=============================================================================
