-------------------------------- MODULE Tables --------------------------------
(***************************************************************************)
(* The state store as the sync service knows it                            *)
(* (core/src/state/*.rs): its tables by their keys, and each transaction   *)
(* of the service as one function on them.  The tests' in-memory store     *)
(* (core/src/test_support/state.rs) is this one.  Row ids, versions and    *)
(* timestamps are left to the adapters.                                    *)
(***************************************************************************)
EXTENDS Naturals, Sequences

CONSTANTS Uid, Href, Etag, Url, None

Side == {"icloud", "fastmail"}

Key == Side \X Href

\* A row of each table, as the ports give it to the service.
ContactState == [Side -> [href : Href, etag : Etag]]
Endpoint(Token) == [url : Url, token : Token \cup {None}]
CardFailure == [etag : Etag \cup {None}, attempts : Nat \ {0}]
BaselineSkip == Key

IsTables(t, Token) ==
    /\ \A u \in Uid : t.contacts[u] \in ContactState \cup {None}
    /\ \A s \in Side : t.endpoints[s] \in Endpoint(Token) \cup {None}
    /\ \A k \in Key : t.failures[k] \in CardFailure \cup {None}
    /\ t.skips \subseteq BaselineSkip
    /\ t.conflicts \in Seq(Uid) /\ t.pending \in Seq(Uid)

Empty ==
    [contacts |-> [u \in Uid |-> None], endpoints |-> [s \in Side |-> None],
     failures |-> [k \in Key |-> None], skips |-> {},
     conflicts |-> <<>>, pending |-> <<>>]

\* The transactions: those of an operation, and a cycle's own.
Operation ==
    [tx : {"save"}, uid : Uid, at : ContactState, recreated : BOOLEAN, clear : SUBSET Key]
    \cup [tx : {"drop"}, uid : Uid, clear : SUBSET Key]
    \cup [tx : {"conflict", "journal", "replayed"}, uid : Uid]
    \cup [tx : {"fail"}, keys : SUBSET Key, etag : Etag \cup {None}]

Transaction(Token) ==
    Operation
    \cup [tx : {"load", "reset"}]
    \cup [tx : {"discovery"}, urls : [Side -> Url]]
    \cup [tx : {"tokens"}, tokens : [Side -> Token]]
    \cup [tx : {"finish"}, skips : SUBSET Key, clear : SUBSET Key, tokens : [Side -> Token]]

\* What a transaction comes to: the tables, or the error that undoes it.
Ok(t) == [tables |-> t, error |-> None]
Failed(error) == [tables |-> Empty, error |-> error]

\* collections: a token of another collection must never be replayed.
Discovery(t, urls) ==
    Ok([t EXCEPT !.endpoints =
          [s \in Side |->
              IF @[s] # None /\ @[s].url = urls[s] THEN @[s] ELSE [url |-> urls[s], token |-> None]]])

WithTokens(t, tokens) ==
    [t EXCEPT !.endpoints = [s \in Side |-> [@[s] EXCEPT !.token = tokens[s]]]]

\* idle.
Tokens(t, tokens) ==
    IF \E s \in Side : t.endpoints[s] = None THEN Failed("NotFound") ELSE Ok(WithTokens(t, tokens))

\* reset: the conflict history and the journal stay.
Reset(t) == Ok([Empty EXCEPT !.conflicts = t.conflicts, !.pending = t.pending])

Cleared(failures, keys) == [k \in Key |-> IF k \in keys THEN None ELSE failures[k]]

\* A contact's href is its own.
Taken(t, u, at) ==
    \E v \in Uid \ {u}, s \in Side :
        t.contacts[v] # None /\ t.contacts[v][s].href = at[s].href

\* A journal holds one entry of a contact.
Without(pending, u) ==
    LET entries == {i \in DOMAIN pending : pending[i] = u}
        k == CHOOSE i \in entries : TRUE
    IN  IF entries = {} THEN pending
        ELSE [i \in 1..Len(pending) - 1 |-> IF i < k THEN pending[i] ELSE pending[i + 1]]

\* write_state: `at` is the href and the ETag last synced on each side.
Save(t, u, at, recreated, clear) ==
    IF Taken(t, u, at) THEN Failed("Constraint")
    ELSE Ok([t EXCEPT !.contacts[u] = at,
                      !.failures = Cleared(@, clear),
                      !.pending = IF recreated THEN Without(@, u) ELSE @])

\* drop_state.
Drop(t, u, clear) ==
    IF t.contacts[u] = None THEN Failed("NotFound")
    ELSE Ok([t EXCEPT !.contacts[u] = None, !.failures = Cleared(@, clear)])

\* record_conflict.
Conflict(t, u) == Ok([t EXCEPT !.conflicts = Append(@, u)])

\* journal_recreate, and replay.
Journal(t, u) == Ok([t EXCEPT !.pending = Append(Without(@, u), u)])
Replayed(t, u) == Ok([t EXCEPT !.pending = Without(@, u)])

\* record_failure: another version of the card starts again.
Failure(old, etag) ==
    [etag |-> etag, attempts |-> IF old # None /\ old.etag = etag THEN old.attempts + 1 ELSE 1]

\* record_op_failure: every card of the operation.
Fail(t, keys, etag) ==
    Ok([t EXCEPT !.failures = [k \in Key |-> IF k \in keys THEN Failure(@[k], etag) ELSE @[k]]])

\* finish.
Finish(t, skips, clear, tokens) ==
    IF \E s \in Side : t.endpoints[s] = None THEN Failed("NotFound")
    ELSE Ok([WithTokens(t, tokens) EXCEPT !.skips = skips, !.failures = Cleared(@, clear)])

\* What becomes of the tables in transaction x.
Outcome(x, t) ==
    CASE x.tx = "load"      -> Ok(t)
      [] x.tx = "discovery" -> Discovery(t, x.urls)
      [] x.tx = "tokens"    -> Tokens(t, x.tokens)
      [] x.tx = "reset"     -> Reset(t)
      [] x.tx = "save"      -> Save(t, x.uid, x.at, x.recreated, x.clear)
      [] x.tx = "drop"      -> Drop(t, x.uid, x.clear)
      [] x.tx = "conflict"  -> Conflict(t, x.uid)
      [] x.tx = "journal"   -> Journal(t, x.uid)
      [] x.tx = "replayed"  -> Replayed(t, x.uid)
      [] x.tx = "fail"      -> Fail(t, x.keys, x.etag)
      [] x.tx = "finish"    -> Finish(t, x.skips, x.clear, x.tokens)
=============================================================================
