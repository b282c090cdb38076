------------------------------- MODULE Adapters -------------------------------
(***************************************************************************)
(* The SQL adapters (database/src/adapters): tables of rows with ids and   *)
(* versions, the statements of each repository call on them, and the calls *)
(* each transaction of the service makes, one after another.  A call takes *)
(* the rows and what the transaction has read so far, and returns both, or *)
(* the error of the statement that failed.  Timestamps, hashes and card    *)
(* bytes are left out.                                                     *)
(***************************************************************************)
EXTENDS Tables, FiniteSetsExt, SequencesExt

NoRows ==
    [contacts |-> {}, endpoints |-> {}, failures |-> {}, skips |-> {}, conflicts |-> {}, pending |-> {}]

(***************************************************************************)
(* The rows (database/src/migrations) and what each is read back as.       *)
(***************************************************************************)
ContactRow(id, version, u, at) == [id |-> id, version |-> version, uid |-> u, at |-> at]
EndpointRow(side, url, token) == [side |-> side, url |-> url, token |-> token]
FailureRow(k, etag, attempts) == [key |-> k, etag |-> etag, attempts |-> attempts]
SkipRow(k) == [key |-> k]
ConflictRow(id, u) == [id |-> id, uid |-> u]
PendingRow(id, u) == [id |-> id, uid |-> u]

ContactTable == [id : Nat, version : Nat, uid : Uid, at : ContactState]
EndpointTable(Token) == [side : Side, url : Url, token : Token \cup {None}]
FailureTable == [key : Key, etag : Etag \cup {None}, attempts : Nat \ {0}]
IdTable == [id : Nat, uid : Uid]

Rows(Token) ==
    [contacts : SUBSET ContactTable, endpoints : SUBSET EndpointTable(Token), failures : SUBSET FailureTable,
     skips : SUBSET [key : Key], conflicts : SUBSET IdTable, pending : SUBSET IdTable]

ContactOf(row) == row.at
EndpointOf(row) == [url |-> row.url, token |-> row.token]
FailureOf(row) == [etag |-> row.etag, attempts |-> row.attempts]
SkipOf(row) == row.key
ConflictOf(row) == row.uid
PendingOf(row) == row.uid

\* Larger than every id in use: rows come back in the order they were added.
NextId(rows) == 1 + Max({0} \cup {r.id : r \in rows})

Done(rows, found) == [rows |-> rows, found |-> found, error |-> None]
Error(rows, error) == [rows |-> rows, found |-> None, error |-> error]

\* A call that says how many rows it changed or found.
Count(n) == [count |-> n]

\* The unique keys of the contacts table.
Clash(rows, row) ==
    \E r \in rows : r.id # row.id /\ (r.uid = row.uid \/ \E s \in Side : r.at[s].href = row.at[s].href)

Put(d, row) ==
    IF Clash(d.contacts, row) THEN Error(d, "unique")
    ELSE Done([d EXCEPT !.contacts = {r \in @ : r.id # row.id} \cup {row}], None)

FindByUid(d, u) ==
    LET rows == {r \in d.contacts : r.uid = u} IN
    Done(d, IF rows = {} THEN None ELSE CHOOSE r \in rows : TRUE)

\* Every save of a row moves its version on.
Saved(row) == [row EXCEPT !.version = @ + 1]

Add(d, u, at) ==
    Put(d, Saved(ContactRow(NextId(d.contacts), 0, u, at)))

\* update, of the row the transaction found.
Update(d, found, at) ==
    LET rows == {r \in d.contacts : r.id = found.id} IN
    IF rows = {} THEN Error(d, "NotFound")
    ELSE LET existing == CHOOSE r \in rows : TRUE IN
         IF existing.version # found.version THEN Error(d, "Conflict")
         ELSE Put(d, Saved([existing EXCEPT !.at = at]))

\* write_state: update the row it found, or add it.
Write(d, found, u, at) == IF found = None THEN Add(d, u, at) ELSE Update(d, found, at)

DeleteByUid(d, u) ==
    LET rows == {r \in d.contacts : r.uid = u} IN
    IF rows = {} THEN Error(d, "NotFound") ELSE Done([d EXCEPT !.contacts = @ \ rows], None)

\* mark_seen: how many rows it changed; their versions stay.
MarkSeen(d, us) == Done(d, Count(Cardinality({r \in d.contacts : r.uid \in us})))

EndpointRows(d, side) == {r \in d.endpoints : r.side = side}

UpsertDiscovery(d, side, url) ==
    LET rows == EndpointRows(d, side)
        moved == {r \in rows : r.url # url}
    IN  Done([d EXCEPT !.endpoints =
                IF rows # {} /\ moved = {} THEN @
                ELSE (@ \ rows) \cup {EndpointRow(side, url, None)}], None)

SetSyncToken(d, side, token) ==
    LET rows == EndpointRows(d, side) IN
    IF rows = {} THEN Error(d, "NotFound")
    ELSE Done([d EXCEPT !.endpoints = (@ \ rows) \cup {[r EXCEPT !.token = token] : r \in rows}], None)

FailureRows(d, k) == {r \in d.failures : r.key = k}

RecordFailure(d, k, etag) ==
    LET rows == FailureRows(d, k)
        again == {r \in rows : r.etag = etag}
        attempts == IF again = {} THEN 1 ELSE 1 + (CHOOSE r \in again : TRUE).attempts
    IN  Done([d EXCEPT !.failures = (@ \ rows) \cup {FailureRow(k, etag, attempts)}], None)

ClearFailure(d, k) == Done([d EXCEPT !.failures = @ \ FailureRows(d, k)], None)

FindFailure(d, k) ==
    Done(d, IF FailureRows(d, k) = {} THEN None ELSE FailureOf(CHOOSE r \in FailureRows(d, k) : TRUE))

AddConflict(d, u) == Done([d EXCEPT !.conflicts = @ \cup {ConflictRow(NextId(@), u)}], None)

ListForUid(d, u) == Done(d, Count(Cardinality({r \in d.conflicts : r.uid = u})))

DeletePending(d, u) == Done([d EXCEPT !.pending = {r \in @ : r.uid # u}], None)

UpsertPending(d, u) ==
    LET rest == {r \in d.pending : r.uid # u} IN
    Done([d EXCEPT !.pending = rest \cup {PendingRow(NextId(@), u)}], None)

ReplaceSkips(d, skips) == Done([d EXCEPT !.skips = {SkipRow(k) : k \in skips}], None)

UpsertSkip(d, k) == Done([d EXCEPT !.skips = @ \cup {SkipRow(k)}], None)

DeleteSkip(d, k) == Done([d EXCEPT !.skips = {r \in @ : r.key # k}], None)

DeleteAll(d, table) == Done([d EXCEPT ![table] = {}], None)

(***************************************************************************)
(* One call of a transaction, and the calls each transaction makes.        *)
(***************************************************************************)
Call(c, d, found) ==
    CASE c.call = "find_by_uid"      -> FindByUid(d, c.uid)
      [] c.call = "write"            -> Write(d, found, c.uid, c.at)
      [] c.call = "delete_by_uid"    -> DeleteByUid(d, c.uid)
      [] c.call = "upsert_discovery" -> UpsertDiscovery(d, c.side, c.url)
      [] c.call = "set_sync_token"   -> SetSyncToken(d, c.side, c.token)
      [] c.call = "record_failure"   -> RecordFailure(d, c.key, c.etag)
      [] c.call = "clear"            -> ClearFailure(d, c.key)
      [] c.call = "conflict"         -> AddConflict(d, c.uid)
      [] c.call = "delete_pending"   -> DeletePending(d, c.uid)
      [] c.call = "upsert_pending"   -> UpsertPending(d, c.uid)
      [] c.call = "replace_all"      -> ReplaceSkips(d, c.skips)
      [] c.call = "delete_all"       -> DeleteAll(d, c.table)
      [] c.call = "list"             -> Done(d, d)
      [] c.call = "mark_seen"        -> MarkSeen(d, c.uids)
      [] c.call = "find_failure"     -> FindFailure(d, c.key)
      [] c.call = "list_for_uid"     -> ListForUid(d, c.uid)
      [] c.call = "upsert_skip"      -> UpsertSkip(d, c.key)
      [] c.call = "delete_skip"      -> DeleteSkip(d, c.key)

\* Whether a call begins with a query, and whether it writes at all: an
\* endpoint that is already as it should be is left alone.
QueriesFirst(c) ==
    c.call \in {"find_by_uid", "list", "upsert_discovery", "set_sync_token", "record_failure"}

Writes(c, d) ==
    CASE c.call \in {"find_by_uid", "list"} -> FALSE
      [] c.call = "upsert_discovery" -> \A r \in EndpointRows(d, c.side) : r.url # c.url
      [] c.call = "set_sync_token"   -> \E r \in EndpointRows(d, c.side) : r.token # c.token
      [] OTHER                       -> TRUE

ClearEach(keys) == [i \in 1..Len(SetToSeq(keys)) |-> [call |-> "clear", key |-> SetToSeq(keys)[i]]]

FailEach(keys, etag) ==
    [i \in 1..Len(SetToSeq(keys)) |-> [call |-> "record_failure", key |-> SetToSeq(keys)[i], etag |-> etag]]

\* Both sides, iCloud first.
BothSides == <<"icloud", "fastmail">>

SetTokens(tokens) ==
    [i \in 1..2 |-> [call |-> "set_sync_token", side |-> BothSides[i], token |-> tokens[BothSides[i]]]]

\* The queries of a load all read the same snapshot: they are one call.
Calls(x) ==
    CASE x.tx = "load" -> <<[call |-> "list"]>>
      [] x.tx = "discovery" ->
           [i \in 1..2 |-> [call |-> "upsert_discovery", side |-> BothSides[i], url |-> x.urls[BothSides[i]]]]
      [] x.tx = "tokens" -> SetTokens(x.tokens)
      [] x.tx = "reset" ->
           [i \in 1..4 |-> [call |-> "delete_all", table |-> <<"contacts", "endpoints", "failures", "skips">>[i]]]
      [] x.tx = "save" ->
           (IF x.recreated THEN <<[call |-> "delete_pending", uid |-> x.uid]>> ELSE <<>>)
           \o <<[call |-> "find_by_uid", uid |-> x.uid], [call |-> "write", uid |-> x.uid, at |-> x.at]>>
           \o ClearEach(x.clear)
      [] x.tx = "drop" -> <<[call |-> "delete_by_uid", uid |-> x.uid]>> \o ClearEach(x.clear)
      [] x.tx = "conflict" -> <<[call |-> "conflict", uid |-> x.uid]>>
      [] x.tx = "journal" -> <<[call |-> "upsert_pending", uid |-> x.uid]>>
      [] x.tx = "replayed" -> <<[call |-> "delete_pending", uid |-> x.uid]>>
      [] x.tx = "fail" -> FailEach(x.keys, x.etag)
      [] x.tx = "finish" ->
           <<[call |-> "replace_all", skips |-> x.skips]>> \o ClearEach(x.clear) \o SetTokens(x.tokens)

(***************************************************************************)
(* The tables as the service reads them.                                   *)
(***************************************************************************)
Before(rows, row) == {r \in rows : r.id < row.id}

\* ORDER BY id.
Nth(rows, i) == CHOOSE r \in rows : Cardinality(Before(rows, r)) = i - 1

One(rows, Of(_)) == IF rows = {} THEN None ELSE Of(CHOOSE r \in rows : TRUE)

Contacts(d) == [u \in Uid |-> One({r \in d.contacts : r.uid = u}, ContactOf)]
Endpoints(d) == [s \in Side |-> One(EndpointRows(d, s), EndpointOf)]
Failures(d) == [k \in Key |-> One(FailureRows(d, k), FailureOf)]
Skips(d) == {SkipOf(r) : r \in d.skips}
Conflicts(d) == [i \in 1..Cardinality(d.conflicts) |-> ConflictOf(Nth(d.conflicts, i))]
Pending(d) == [i \in 1..Cardinality(d.pending) |-> PendingOf(Nth(d.pending, i))]

View(d) ==
    [contacts |-> Contacts(d), endpoints |-> Endpoints(d), failures |-> Failures(d),
     skips |-> Skips(d), conflicts |-> Conflicts(d), pending |-> Pending(d)]

\* load: what a cycle plans with.
Loaded(d) ==
    [contacts |-> Contacts(d), endpoints |-> Endpoints(d), failures |-> Failures(d), pending |-> Pending(d)]

\* A whole transaction, when nobody else is there: its rows, or d when a
\* call fails.
RunAlone(x, d) ==
    FoldLeft(LAMBDA r, c : IF r.error # None THEN r ELSE Call(c, r.rows, r.found), Done(d, <<>>), Calls(x))

AfterAlone(x, d) == IF RunAlone(x, d).error = None THEN RunAlone(x, d).rows ELSE d

\* The calls of x come to what the ports say of x.
Agree(x, d) ==
    LET outcome == Outcome(x, View(d)) IN
    /\ (RunAlone(x, d).error = None) <=> (outcome.error = None)
    /\ outcome.error = None => View(AfterAlone(x, d)) = outcome.tables
=============================================================================
