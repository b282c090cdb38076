------------------------------ MODULE MCDatabase ------------------------------
(***************************************************************************)
(* Small instances of Database: the daemon and one other process.          *)
(***************************************************************************)
EXTENDS Database, MemoryStore

CONSTANTS daemon, once, u1, u2, h1, e1, e2

procs == {daemon, once}
uids == {u1, u2}
hrefs == {h1}
etags == {e1, e2}
urls == {"p1", "p2", "fastmail"}

cycles == [p \in procs |-> IF p = daemon THEN 2 ELSE 1]

at == [s \in Side |-> [href |-> h1, etag |-> e1]]
key == <<"icloud", h1>>

\* Two contacts that want one href, and a failing card.
operations ==
    [p \in procs |->
        IF p = daemon
        THEN {[tx |-> "save", uid |-> u1, at |-> at, recreated |-> FALSE, clear |-> {key}]}
        ELSE {[tx |-> "save", uid |-> u2, at |-> at, recreated |-> TRUE, clear |-> {}],
              [tx |-> "fail", keys |-> {key}, etag |-> e1]}]

\* Every kind of transaction, one after another.
every ==
    operations[daemon] \cup operations[once] \cup
    {[tx |-> "fail", keys |-> {key}, etag |-> e2],
     [tx |-> "drop", uid |-> u1, clear |-> {key}],
     [tx |-> "conflict", uid |-> u1], [tx |-> "conflict", uid |-> u2],
     [tx |-> "journal", uid |-> u1], [tx |-> "journal", uid |-> u2], [tx |-> "replayed", uid |-> u1],
     [tx |-> "load"], [tx |-> "reset"],
     [tx |-> "discovery", urls |-> [s \in Side |-> "p1"]],
     [tx |-> "discovery", urls |-> [s \in Side |-> "p2"]],
     [tx |-> "tokens", tokens |-> [s \in Side |-> e1]],
     [tx |-> "finish", skips |-> {key}, clear |-> {key}, tokens |-> [s \in Side |-> e2]]}

\* The adapters do what the ports promise, through four transactions in a row.
ASSUME AdaptersAgree ==
    LET next(ds) == UNION {{AfterAlone(x, d) : x \in every} : d \in ds} IN
    \A d \in next(next(next({NoRows}))), x \in every : Agree(x, d)

\* The calls on each table.
there == [s \in Side |-> [href |-> e1, etag |-> e1]]
calls ==
    {UNION {{[call |-> "find_by_uid", uid |-> u], [call |-> "delete_by_uid", uid |-> u],
             [call |-> "write", uid |-> u, at |-> at], [call |-> "write", uid |-> u, at |-> there],
             [call |-> "mark_seen", uids |-> {u}], [call |-> "delete_all", table |-> "contacts"]} : u \in uids},
     UNION {{[call |-> "upsert_discovery", side |-> s, url |-> "p1"], [call |-> "set_sync_token", side |-> s, token |-> e1],
             [call |-> "upsert_discovery", side |-> s, url |-> "p2"], [call |-> "delete_all", table |-> "endpoints"]} : s \in Side},
     {[call |-> "record_failure", key |-> key, etag |-> e1], [call |-> "record_failure", key |-> key, etag |-> e2],
      [call |-> "find_failure", key |-> key], [call |-> "clear", key |-> key], [call |-> "delete_all", table |-> "failures"]},
     UNION {{[call |-> "conflict", uid |-> u], [call |-> "list_for_uid", uid |-> u],
             [call |-> "upsert_pending", uid |-> u], [call |-> "delete_pending", uid |-> u]} : u \in uids},
     {[call |-> "replace_all", skips |-> {key}], [call |-> "replace_all", skips |-> {}],
      [call |-> "upsert_skip", key |-> key], [call |-> "delete_skip", key |-> key]}}

\* After four calls and more the tests' store answers as the database does,
\* but for an update that takes another contact's href.
ASSUME StoresAgree ==
    \A cs \in calls :
        LET nexts(p) == {<<c, q, Both(c, q)>> : c \in {c \in cs : MayFollow(c, p) /\ ~TakesHref(c, p)}, q \in {p, Behind(p)}}
            next(ps) == UNION {{RolledBack(n[2], n[3]) : n \in nexts(p)} : p \in ps}
        IN  \A p \in next(next(next(next({NoStores})))) : \A n \in nexts(p) :
                /\ DbError(n[3].sql.error) = n[3].memory.error
                /\ (n[3].sql.found = None) <=> (n[3].memory.found = None)
                /\ n[1].call \in {"mark_seen", "find_failure", "list_for_uid"} => n[3].sql.found = n[3].memory.found
                /\ View(RolledBack(n[2], n[3]).sql.rows) = MemoryView(RolledBack(n[2], n[3]).memory.rows)
=============================================================================
