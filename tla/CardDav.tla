------------------------------- MODULE CardDav -------------------------------
(***************************************************************************)
(* One side's CardDAV adapter (carddav/src) under the sync cycle           *)
(* (core/src/service/{mod,listing,apply}.rs), one action per HTTP request: *)
(* discovery, a sync-collection delta or listing page by page, multiget in *)
(* batches, a conditional PUT or DELETE, and the token stored at the end.  *)
(* Others change the collection between any two requests, and the provider *)
(* may move it to another host.                                            *)
(*                                                                         *)
(* It implements AtomicBook.  SyncCycle has both sides and what the cycle  *)
(* does with the cards.                                                    *)
(***************************************************************************)
EXTENDS Dav

CONSTANTS
    Batch,     \* how many cards one multiget asks for (config.rs)
    MaxPages,  \* MAX_SYNC_PAGES, scaled down
    MaxHops,   \* MAX_REDIRECTS, scaled down
    Order,     \* the revision each card was written at, if it is there
    FirstRev,  \* the revision a run begins at
    Failing,   \* the statuses a request may fail with
    Tagless,   \* cards the server names without an ETag
    MaxRev,    \* bound: the last revision
    MaxHost,   \* bound: the last host
    MaxFaults  \* bound: how many requests fail

ASSUME CardDavAssumptions ==
    /\ Batch \in Nat \ {0} /\ MaxPages \in Nat /\ MaxHops \in Nat
    /\ MaxRev \in Nat /\ MaxHost \in Nat /\ MaxFaults \in Nat
    /\ Failing \subseteq Nat /\ Tagless \subseteq Href
    /\ Order \in [Href -> Nat \ {0}]
    /\ \A g, h \in Href : Order[g] = Order[h] => g = h
    /\ FirstRev \in Nat \ {0} /\ \A h \in Href : Order[h] <= FirstRev
    /\ None \notin Nat
    /\ \A h \in Href \cup {Itself, Below} : \E name \in Spelling : Canonical[name] = h

NoToken == [of |-> 0, at |-> 0]
Entrance == 0   \* the host of the configured entry URL

VARIABLES
    there,   \* the cards there are
    at,      \* at[h]: the revision h was last changed at, and its ETag
    rev,     \* the last revision
    home,    \* the host the collection is at
    supports,\* whether it answers sync-collection
    bound,   \* the host discovery resolved, or None
    token,   \* the stored token: the host it is of, and its revision
    known,   \* known[h]: the ETag in the last listing stored, or 0
    pc,      \* the request to send next
    url,     \* where discovery sends it
    hops,    \* the redirects it followed
    sent,    \* the token sent: a revision, or 0 for none
    merged,  \* the pages so far: see Observed
    pages,   \* how many
    todo,    \* cards still to fetch
    found,   \* found[h]: the ETag of a fetched card; None: not asked for;
             \* 0: missing
    op,      \* the write: [href, etag], or None
    done,    \* what the last DELETE came to: "deleted", "refused" or None
    faults

server == <<there, at, rev, home, supports>>
discovery == <<url, hops>>
scan == <<sent, merged, pages>>
work == <<todo, found, op>>
vars == <<server, bound, token, known, pc, discovery, scan, work, done, faults>>

Etag(h) == IF h \in there THEN at[h] ELSE 0

NothingSeen == [h \in Href |-> None]

Init ==
    /\ there \in SUBSET Href
    /\ at = [h \in Href |-> IF h \in there THEN Order[h] ELSE 0]
    /\ rev = FirstRev /\ home = 1 /\ supports \in BOOLEAN
    /\ bound = None /\ token = NoToken /\ known = [h \in Href |-> 0]
    /\ pc = "wait" /\ url = Entrance /\ hops = 0
    /\ sent = 0 /\ merged = NothingSeen /\ pages = 0
    /\ todo = {} /\ found = NothingSeen /\ op = None /\ done = None /\ faults = 0

(***************************************************************************)
(* The server and its other clients.                                       *)
(***************************************************************************)
Touch(h) == rev' = rev + 1 /\ at' = [at EXCEPT ![h] = rev'] /\ UNCHANGED <<home, supports>>

Writes(h) == Touch(h) /\ there' = there \cup {h}
Removes(h) == Touch(h) /\ there' = there \ {h}

Change ==
    /\ rev < MaxRev
    /\ \E h \in Href : Writes(h) \/ (h \in there /\ Removes(h))
    /\ UNCHANGED <<bound, token, known, pc, discovery, scan, work, done, faults>>

Move ==
    /\ home < MaxHost /\ home' = home + 1
    /\ UNCHANGED <<there, at, rev, supports, bound, token, known, pc, discovery, scan, work, done, faults>>

\* A member as the server names it: under either spelling, and with its ETag
\* unless it leaves that out.
Named(h, name) == Canonical[name] = h

Tag(h) == IF h \in Tagless THEN Propstat(404, None, None) ELSE Propstat(200, at[h], None)

Member(h, name) ==
    IF h \in there THEN Response(name, None, {Tag(h)}) ELSE Response(name, 404, {})

\* What changed since the token, or what there is.
Since(from) == IF from = 0 THEN there ELSE {h \in Href : at[h] > from}

\* A page: the oldest of that, up to a revision which continues it.
Page(from, upto) == {h \in Since(from) : at[h] <= upto}

\* A name for each of P, the collection, and the one below it.
Names(P) ==
    {name \in [P \cup {Itself, Below} -> Spelling] :
        \A h \in P \cup {Itself, Below} : Named(h, name[h])}

PageBody(P, status, name) ==
    {Member(h, name[h]) : h \in P}
        \cup {Response(name[Below], None, {Propstat(200, rev, None)})}
        \cup {Response(name[Itself], status, {})}

(***************************************************************************)
(* How a cycle ends.                                                       *)
(***************************************************************************)
Idle ==
    /\ pc' = "wait" /\ url' = Entrance /\ hops' = 0
    /\ sent' = 0 /\ merged' = NothingSeen /\ pages' = 0
    /\ todo' = {} /\ found' = NothingSeen /\ op' = None

\* after_listing_error: the collection may have moved.
Forgetting(error) == IF MayHaveMoved(error) THEN None ELSE bound

Discovering == {"principal", "wellknown", "homeset", "select"}
Listing == {"delta", "list"}
Requests == Discovering \cup Listing \cup {"fetch", "put", "delete", "probe"}

\* Faulty: a listing that fails keeps the collection.
FailWithAndKeep(status) ==
    /\ Idle /\ UNCHANGED <<bound, token, known, done>>

FailWith(status) ==
    /\ Idle
    /\ bound' = IF pc \in Listing THEN Forgetting(ErrorOf(status, FALSE)) ELSE bound
    /\ UNCHANGED <<token, known, done>>

(***************************************************************************)
(* Discovery: the principal, the home set, the collection.                 *)
(***************************************************************************)
Wake ==
    /\ pc = "wait"
    /\ \/ bound = None /\ pc' = "principal" /\ sent' = 0
       \/ bound # None /\ token # NoToken /\ supports /\ pc' = "delta" /\ sent' = token.at
       \/ bound # None /\ pc' = "list" /\ sent' = 0
    /\ UNCHANGED <<server, bound, token, known, discovery, merged, pages, work, done, faults>>

\* The URL is served where the collection is, or at the entrance.
Served == url \in {Entrance, home}

Goto(step) == pc' = step /\ url' = home /\ hops' = 0

\* principal_at, find_home_set.
Answered ==
    /\ pc \in {"principal", "wellknown", "homeset"} /\ Served
    /\ Goto(IF pc = "homeset" THEN "select" ELSE "homeset")
    /\ UNCHANGED <<server, bound, token, known, scan, work, done, faults>>

\* The entry URL names no principal: RFC 6764's well-known one.
NoPrincipal ==
    /\ pc = "principal" /\ url = Entrance
    /\ pc' = "wellknown" /\ hops' = 0
    /\ UNCHANGED <<server, bound, token, known, url, scan, work, done, faults>>

\* propfind_following.
Redirected ==
    /\ pc \in Discovering /\ url # home
    /\ IF hops < MaxHops
       THEN url' = home /\ hops' = hops + 1 /\ UNCHANGED <<bound, token, known, pc, scan, work, done>>
       ELSE FailWith(404)
    /\ UNCHANGED <<server, faults>>

\* Faulty: the token stays when the collection has moved.
BindAndKeep == bound' = url /\ UNCHANGED token

\* upsert_discovery: a token of another collection goes.
Bind ==
    /\ bound' = url
    /\ token' = IF token.of = url THEN token ELSE NoToken

Select ==
    /\ pc = "select" /\ url = home
    /\ Bind
    /\ pc' = "wait" /\ url' = Entrance /\ hops' = 0
    /\ UNCHANGED <<server, known, scan, work, done, faults>>

(***************************************************************************)
(* Listing.                                                                *)
(***************************************************************************)
Here == bound = home

\* A page that is continued.
Continue(upto) ==
    /\ Page(sent, upto) # Since(sent)
    /\ IF pages + 1 < MaxPages
       THEN /\ sent' = upto /\ pages' = pages + 1
            /\ \E name \in Names(Page(sent, upto)) :
                  merged' = Merged(merged, PageBody(Page(sent, upto), 507, name))
            /\ UNCHANGED <<bound, token, known, pc, discovery, work, done>>
       ELSE FailWith(404)

Relist == pc' = "list" /\ sent' = 0 /\ merged' = NothingSeen /\ pages' = 0

\* The last page.  A delta that names nothing makes the cycle idle, unless
\* the other side or a failing card wants it; otherwise both sides are listed.
Complete ==
    /\ \E name \in Names(Since(sent)) :
         LET all == Merged(merged, PageBody(Since(sent), None, name)) IN
         \/ pc = "delta" /\ Relist
         \/ /\ pc = "delta" /\ all = NothingSeen
            /\ pc' = "idle" /\ sent' = rev /\ merged' = all /\ pages' = 0
         \/ /\ pc = "list"
            /\ pc' = "want" /\ sent' = rev /\ merged' = all /\ pages' = 0
    /\ UNCHANGED <<bound, token, known, discovery, work, done>>

SyncCollection ==
    /\ pc \in Listing /\ Here /\ (pc = "list" => supports)
    /\ Complete \/ \E upto \in {at[h] : h \in Since(sent)} : Continue(upto)
    /\ UNCHANGED <<server, faults>>

\* list_etags.
Propfind ==
    /\ pc = "list" /\ Here /\ ~ supports
    /\ \E name \in Names(there) : merged' = Merged(NothingSeen, PageBody(there, None, name))
    /\ pc' = "want" /\ sent' = 0
    /\ UNCHANGED <<server, bound, token, known, discovery, pages, work, done, faults>>

\* The server no longer takes the token: the stored one is given up, one of
\* a page ends the cycle.
TokenInvalid ==
    /\ pc \in Listing /\ Here /\ sent # 0 /\ faults < MaxFaults
    /\ faults' = faults + 1
    /\ \/ pc = "delta" /\ Relist /\ UNCHANGED <<bound, token, known, discovery, work, done>>
       \/ pc = "list" /\ FailWith(404)
    /\ UNCHANGED server

\* idle: the new token is stored.
StoreIdle ==
    /\ pc = "idle"
    /\ token' = [of |-> bound, at |-> sent]
    /\ Idle
    /\ UNCHANGED <<server, bound, known, done, faults>>

(***************************************************************************)
(* Fetching the cards the cycle wants.                                     *)
(***************************************************************************)
Entry0(h) == IF merged[h] = None THEN 0 ELSE merged[h]

Listed == {h \in Href : Entry0(h) # 0}

Want ==
    /\ pc = "want"
    /\ todo' \in SUBSET Listed
    /\ pc' = "fetch"
    /\ UNCHANGED <<server, bound, token, known, discovery, scan, found, op, done, faults>>

CardBody(asked, name) ==
    {Response(name[h], None, {Propstat(200, at[h], at[h])}) : h \in asked \cap there}

\* Faulty: what a batch does not bring is gone, whichever batch it is in.
MultigetOfAll ==
    /\ pc = "fetch" /\ todo # {} /\ Here
    /\ \E asked \in SUBSET todo, name \in Names(Href) :
         /\ Cardinality(asked) = IF Cardinality(todo) < Batch THEN Cardinality(todo) ELSE Batch
         /\ LET answer == Answer(CardBody(asked, name), todo)
            IN  found' = [h \in Href |-> IF h \in todo THEN answer[h].etag ELSE found[h]]
         /\ todo' = todo \ asked
    /\ UNCHANGED <<server, bound, token, known, pc, discovery, scan, op, done, faults>>

Multiget ==
    /\ pc = "fetch" /\ todo # {} /\ Here
    /\ \E asked \in SUBSET todo, name \in Names(Href) :
         /\ Cardinality(asked) = IF Cardinality(todo) < Batch THEN Cardinality(todo) ELSE Batch
         /\ LET answer == Answer(CardBody(asked, name), asked)
            IN  found' = [h \in Href |-> IF h \in asked THEN answer[h].etag ELSE found[h]]
         /\ todo' = todo \ asked
    /\ UNCHANGED <<server, bound, token, known, pc, discovery, scan, op, done, faults>>

(***************************************************************************)
(* Writing: nothing, or one card, at the ETag it was read at.              *)
(***************************************************************************)
ReadAt(h) == IF found[h] \in Nat THEN found[h] ELSE Entry0(h)

Choose ==
    /\ pc = "fetch" /\ todo = {}
    /\ \/ pc' = "finish" /\ op' = None
       \/ /\ rev < MaxRev
          /\ \E h \in Href :
               /\ op' = [href |-> h, etag |-> ReadAt(h)]
               /\ pc' = "put" \/ (ReadAt(h) # 0 /\ pc' = "delete")
    /\ UNCHANGED <<server, bound, token, known, discovery, scan, todo, found, done, faults>>

Holds == Etag(op.href) = op.etag

\* If-Match, or If-None-Match: * for a create.  A refused write fails that
\* card only.
Put ==
    /\ pc = "put"
    /\ \/ Here /\ Holds /\ Writes(op.href)
       \/ ~ (Here /\ Holds) /\ UNCHANGED server
    /\ pc' = "finish"
    /\ UNCHANGED <<bound, token, known, discovery, scan, work, done, faults>>

Deleted(outcome) ==
    /\ pc' = "finish" /\ done' = outcome
    /\ UNCHANGED <<bound, token, known, discovery, scan, work>>

Probing ==
    /\ pc' = "probe"
    /\ UNCHANGED <<server, bound, token, known, discovery, scan, work, done>>

\* Faulty: a 412 counts as already gone.
DeleteUnprobed ==
    /\ pc = "delete"
    /\ \/ Here /\ Holds /\ Removes(op.href) /\ Deleted("deleted")
       \/ ~ (Here /\ Holds) /\ UNCHANGED server /\ Deleted("deleted")
    /\ UNCHANGED faults

\* A card that is not there is answered with 404, or with 412 as an edited
\* one; a host the collection has left answers 404.
Delete ==
    /\ pc = "delete"
    /\ \/ Here /\ Holds /\ Removes(op.href) /\ Deleted("deleted")
       \/ (~ Here \/ op.href \notin there) /\ UNCHANGED server /\ Deleted("deleted")
       \/ Here /\ ~ Holds /\ UNCHANGED server /\ Probing
    /\ UNCHANGED faults

\* exists.
Probe ==
    /\ pc = "probe"
    /\ Deleted(IF Here /\ op.href \in there THEN "refused" ELSE "deleted")
    /\ UNCHANGED <<server, faults>>

\* finish: the listing's token is stored, and the rows stand for it.
Finish ==
    /\ pc = "finish"
    /\ token' = IF supports THEN [of |-> bound, at |-> sent] ELSE NoToken
    /\ known' = [h \in Href |-> Entry0(h)]
    /\ Idle
    /\ UNCHANGED <<server, bound, done, faults>>

\* A host the collection has left answers 404.
Left ==
    /\ pc \in Listing \cup {"fetch"} /\ ~ Here /\ (pc = "fetch" => todo # {})
    /\ FailWith(404)
    /\ UNCHANGED <<server, faults>>

\* A request fails, and with it the cycle, unless only its card does.
Fails ==
    /\ pc \in Requests /\ (pc = "fetch" => todo # {})
    /\ faults < MaxFaults /\ faults' = faults + 1
    /\ \E status \in Failing :
         IF pc \in {"put", "delete", "probe"} /\ ~ IsCycleFatal(PutError(status, FALSE))
         THEN Deleted("refused") ELSE FailWith(status)
    /\ UNCHANGED server

Daemon ==
    \/ Wake \/ Answered \/ NoPrincipal \/ Redirected \/ Select
    \/ SyncCollection \/ Propfind \/ StoreIdle \/ Want \/ Multiget \/ Choose
    \/ Put \/ Delete \/ Probe \/ Finish \/ Left

Next == Change \/ Move \/ Daemon \/ TokenInvalid \/ Fails

Spec == Init /\ [][Next]_vars /\ WF_vars(Daemon)

(***************************************************************************)
(* Properties.                                                             *)
(***************************************************************************)
Steps == Requests \cup {"wait", "idle", "want", "finish"}

TypeOK ==
    /\ there \subseteq Href /\ at \in [Href -> Nat] /\ rev \in Nat
    /\ home \in Nat \ {0} /\ supports \in BOOLEAN
    /\ bound \in (Nat \ {0}) \cup {None}
    /\ token \in [of : Nat, at : Nat] /\ known \in [Href -> Nat]
    /\ pc \in Steps /\ url \in Nat /\ hops \in Nat
    /\ sent \in Nat /\ merged \in [Href -> Nat \cup {None}] /\ pages \in Nat
    /\ todo \subseteq Href /\ found \in [Href -> Nat \cup {None}]
    /\ op \in [href : Href, etag : Nat] \cup {None}
    /\ done \in {"deleted", "refused", None} /\ faults \in Nat

\* What a delta from a revision names.
Moved(from) == {h \in Href : at[h] > from}

Scanned == pc \in {"want", "fetch", "put", "delete", "probe", "finish"}

Book == [h \in Href |-> Etag(h)]

ThisListing ==
    IF Scanned
    THEN {[entries |-> [h \in Href |-> Entry0(h)], since |-> IF supports THEN Moved(sent) ELSE Href]}
    ELSE {}

Kept == [entries |-> known, since |-> IF token = NoToken THEN Href ELSE Moved(token.at)]

Port == INSTANCE AtomicBook WITH book <- Book, listing <- ThisListing, kept <- Kept

\* However many pages a listing takes, and whatever changes between them, it
\* is the collection as it was at one instant, its last page's, and its token
\* misses nothing since (sync::changes_since; SyncCycle's List).
Atomic == Port!Spec

\* Nothing goes unnoticed: an href has the ETag last listed, or the next
\* delta names it (port.rs: "The returned delta is complete").
NothingMissed == Port!NothingMissed

\* A listed card the multiget does not find changed after the listing: it is
\* never missing for how it was asked for, or for the batch it was in, and
\* taken for deleted (multiget.rs, listing::snapshot).
MissingIsGone == \A h \in Href : found[h] = 0 /\ supports => h \in Moved(sent)

\* A DELETE that succeeds leaves no card, whatever was written since the card
\* was read, unless the collection has left that host (write::delete).
DeletedIsGone ==
    [][Here /\ pc \in {"delete", "probe"} /\ pc' = "finish" /\ done' = "deleted"
         => op.href \notin there']_vars

\* A token is only sent to the collection it is of (upsert_discovery).
TokensStayHome == pc = "delta" => token.of = bound

\* Once nobody changes or moves the collection and requests no longer fail,
\* the daemon is bound to it, and its token is up to date (after_listing_error).
Follows == <>[](bound = home /\ (supports => token # NoToken /\ Moved(token.at) = {}))
=============================================================================
