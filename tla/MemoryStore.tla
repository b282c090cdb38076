----------------------------- MODULE MemoryStore -----------------------------
(***************************************************************************)
(* The in-memory store that the service's tests run on                     *)
(* (core/src/test_support/state.rs), call by call, beside the SQL          *)
(* adapters: a test says something of the program only where the two give  *)
(* the same answers.                                                       *)
(***************************************************************************)
EXTENDS Adapters

NoMemory ==
    [contacts |-> <<>>, endpoints |-> <<>>, failures |-> <<>>, skips |-> <<>>,
     conflicts |-> <<>>, pending |-> <<>>, ids |-> 0]

\* Every table counts its rows with one counter.
Counted(m) == [m EXCEPT !.ids = @ + 1]

Pushed(m, table, row) == Done([Counted(m) EXCEPT ![table] = Append(@, row)], None)

\* retain.
Retained(m, table, Test(_)) == [m EXCEPT ![table] = SelectSeq(@, Test)]

\* iter_mut().find: the first row that Test holds of becomes Row(row).
Touched(m, table, Test(_), Row(_)) ==
    LET hits == {i \in DOMAIN m[table] : Test(m[table][i])} IN
    IF hits = {} THEN m ELSE [m EXCEPT ![table][Min(hits)] = Row(@)]

Has(m, table, Test(_)) == \E i \in DOMAIN m[table] : Test(m[table][i])

FirstOf(m, table, Test(_)) ==
    LET hits == SelectSeq(m[table], Test) IN IF hits = <<>> THEN None ELSE Head(hits)

MemoryFind(m, u) == Done(m, FirstOf(m, "contacts", LAMBDA r : r.uid = u))

MemoryAdd(m, u, at) ==
    IF Has(m, "contacts", LAMBDA r : r.uid = u \/ \E s \in Side : r.at[s].href = at[s].href)
    THEN Error(m, "Constraint")
    ELSE Pushed(m, "contacts", ContactRow(m.ids + 1, 1, u, at))

\* Unlike the database, it lets a row take another row's href.
MemoryUpdate(m, found, at) ==
    LET same(r) == r.id = found.id
        row == FirstOf(m, "contacts", same)
    IN  IF row = None THEN Error(m, "NotFound")
        ELSE IF row.version # found.version THEN Error(m, "Conflict")
        ELSE Done(Touched(m, "contacts", same, LAMBDA r : Saved([found EXCEPT !.at = at])), None)

MemorySeen(m, us) == Done(m, Count(Len(SelectSeq(m.contacts, LAMBDA r : r.uid \in us))))

MemoryDelete(m, u) ==
    LET rest == Retained(m, "contacts", LAMBDA r : r.uid # u) IN
    IF rest = m THEN Error(m, "NotFound") ELSE Done(rest, None)

MemoryDiscovery(m, side, url) ==
    LET of(r) == r.side = side IN
    IF Has(m, "endpoints", of)
    THEN Done(Touched(m, "endpoints", of, LAMBDA r :
                  EndpointRow(side, url, IF r.url = url THEN r.token ELSE None)), None)
    ELSE Done([m EXCEPT !.endpoints = Append(@, EndpointRow(side, url, None))], None)

MemoryToken(m, side, token) ==
    LET of(r) == r.side = side IN
    IF Has(m, "endpoints", of)
    THEN Done(Touched(m, "endpoints", of, LAMBDA r : [r EXCEPT !.token = token]), None)
    ELSE Error(m, "NotFound")

MemoryConflict(m, u) == Pushed(m, "conflicts", ConflictRow(m.ids + 1, u))

\* list_for_uid, the newest first.
MemoryConflictsOf(m, u) ==
    Done(m, Count(Len(SelectSeq(Reverse(m.conflicts), LAMBDA r : r.uid = u))))

MemoryJournal(m, u) ==
    Pushed(Retained(m, "pending", LAMBDA r : r.uid # u), "pending", PendingRow(m.ids + 1, u))

MemoryReplayed(m, u) == Done(Retained(m, "pending", LAMBDA r : r.uid # u), None)

MemoryFail(m, k, etag) ==
    LET of(r) == r.key = k IN
    IF Has(m, "failures", of)
    THEN Done(Touched(m, "failures", of, LAMBDA r :
                  FailureRow(k, etag, IF r.etag = etag THEN r.attempts + 1 ELSE 1)), None)
    ELSE Pushed(m, "failures", FailureRow(k, etag, 1))

MemoryFailure(m, k) ==
    LET row == FirstOf(m, "failures", LAMBDA r : r.key = k) IN
    Done(m, IF row = None THEN None ELSE FailureOf(row))

MemoryClear(m, k) == Done(Retained(m, "failures", LAMBDA r : r.key # k), None)

MemorySkips(m, skips) ==
    Done([m EXCEPT !.skips = [i \in 1..Cardinality(skips) |-> SkipRow(SetToSeq(skips)[i])],
                   !.ids = @ + Cardinality(skips)], None)

MemorySkip(m, k) ==
    IF Has(m, "skips", LAMBDA r : r.key = k) THEN Done(m, None) ELSE Pushed(m, "skips", SkipRow(k))

MemoryUnskip(m, k) == Done(Retained(m, "skips", LAMBDA r : r.key # k), None)

MemoryEmptied(m, table) == Done([m EXCEPT ![table] = <<>>], None)

\* The calls of Adapters, and those it has beyond the service's transactions.
MemoryCall(c, m, found) ==
    CASE c.call = "find_by_uid"      -> MemoryFind(m, c.uid)
      [] c.call = "write"            -> IF found = None THEN MemoryAdd(m, c.uid, c.at)
                                        ELSE MemoryUpdate(m, found, c.at)
      [] c.call = "mark_seen"        -> MemorySeen(m, c.uids)
      [] c.call = "delete_by_uid"    -> MemoryDelete(m, c.uid)
      [] c.call = "upsert_discovery" -> MemoryDiscovery(m, c.side, c.url)
      [] c.call = "set_sync_token"   -> MemoryToken(m, c.side, c.token)
      [] c.call = "record_failure"   -> MemoryFail(m, c.key, c.etag)
      [] c.call = "find_failure"     -> MemoryFailure(m, c.key)
      [] c.call = "clear"            -> MemoryClear(m, c.key)
      [] c.call = "conflict"         -> MemoryConflict(m, c.uid)
      [] c.call = "list_for_uid"     -> MemoryConflictsOf(m, c.uid)
      [] c.call = "delete_pending"   -> MemoryReplayed(m, c.uid)
      [] c.call = "upsert_pending"   -> MemoryJournal(m, c.uid)
      [] c.call = "replace_all"      -> MemorySkips(m, c.skips)
      [] c.call = "upsert_skip"      -> MemorySkip(m, c.key)
      [] c.call = "delete_skip"      -> MemoryUnskip(m, c.key)
      [] c.call = "delete_all"       -> MemoryEmptied(m, c.table)

TheOne(rows, Of(_)) == IF rows = <<>> THEN None ELSE Of(rows[1])

MemoryView(m) ==
    [contacts |-> [u \in Uid |-> TheOne(SelectSeq(m.contacts, LAMBDA r : r.uid = u), ContactOf)],
     endpoints |-> [s \in Side |-> TheOne(SelectSeq(m.endpoints, LAMBDA r : r.side = s), EndpointOf)],
     failures |-> [k \in Key |-> TheOne(SelectSeq(m.failures, LAMBDA r : r.key = k), FailureOf)],
     skips |-> {SkipOf(m.skips[i]) : i \in DOMAIN m.skips},
     conflicts |-> [i \in DOMAIN m.conflicts |-> ConflictOf(m.conflicts[i])],
     pending |-> [i \in DOMAIN m.pending |-> PendingOf(m.pending[i])]]

(***************************************************************************)
(* Both stores take the same calls; a transaction that fails is undone.    *)
(***************************************************************************)
NoStores == [sql |-> Done(NoRows, None), memory |-> Done(NoMemory, None)]

Both(c, p) ==
    [sql |-> Call(c, p.sql.rows, p.sql.found), memory |-> MemoryCall(c, p.memory.rows, p.memory.found)]

RolledBack(p, q) ==
    [store \in {"sql", "memory"} |-> IF q[store].error = None THEN q[store] ELSE Done(p[store].rows, None)]

\* The last call looked a contact up, and found it.
Holding(p) == \E r \in p.sql.rows.contacts : p.sql.found = r

\* The caller's row is one version behind the table's.
Behind(p) ==
    [store \in {"sql", "memory"} |->
        IF Holding(p) THEN [p[store] EXCEPT !.found.version = @ - 1] ELSE p[store]]

\* A row is written after it was looked up.
MayFollow(c, p) == c.call = "write" => p.sql.found = None \/ Holding(p)

\* A row is written over with the href of another.
TakesHref(c, p) ==
    /\ c.call = "write" /\ Holding(p)
    /\ Clash(p.sql.rows.contacts, [p.sql.found EXCEPT !.at = c.at])
=============================================================================
