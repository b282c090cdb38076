--------------------------------- MODULE Dav ---------------------------------
(***************************************************************************)
(* What the CardDAV client makes of a response: its status                 *)
(* (carddav/src/error.rs, write.rs), its multistatus body                  *)
(* (carddav/src/xml/multistatus.rs), and the hrefs in it (href.rs).        *)
(***************************************************************************)
EXTENDS Naturals, FiniteSets

CONSTANTS
    Href,      \* the canonical paths of cards
    Itself,    \* the canonical path of the collection
    Below,     \* the canonical path of a collection inside it
    Spelling,  \* the paths servers write for them
    Canonical, \* Canonical[p]: canonical_path of a spelling
    None

ASSUME CanonicalAssumption ==
    /\ Canonical \in [Spelling -> Href \cup {Itself, Below}]
    /\ Itself \notin Href /\ Below \notin Href /\ Itself # Below

(***************************************************************************)
(* Statuses.                                                               *)
(***************************************************************************)
Succeeds == 200 .. 299

\* No status: a timeout or another transport failure.
NoAnswer == 0

Errors == {"PreconditionFailed", "TooLarge", "RateLimited", "Transient", "Unauthorized", "Permanent"}

StatusError(status, onCard) ==
    CASE status = 401 -> "Unauthorized"
      [] status = 412 -> IF onCard THEN "PreconditionFailed" ELSE "Permanent"
      [] status \in {429, 503} -> "RateLimited"
      [] status \in 500 .. 599 \ {503} -> "Transient"
      [] OTHER -> "Permanent"

ErrorOf(status, onCard) ==
    IF status = NoAnswer THEN "Transient" ELSE StatusError(status, onCard)

\* A PUT's answer: `oversize` is whether a 403 names the card's size.
PutError(status, oversize) ==
    IF status = 403 /\ oversize THEN "TooLarge" ELSE ErrorOf(status, TRUE)

\* Errors that end the cycle rather than one card's operation.
IsTransient(error) == error \in {"RateLimited", "Transient"}

IsCycleFatal(error) == IsTransient(error) \/ error = "Unauthorized"

\* Errors of a listing after which the collection is discovered anew.
MayHaveMoved(error) == error \in {"Permanent", "Transient"}

(***************************************************************************)
(* Multistatus.  A response has an href, perhaps a status of its own, and  *)
(* propstats: each with its status and the ETag and data it holds.         *)
(***************************************************************************)
Propstat(code, etag, data) == [code |-> code, etag |-> etag, data |-> data]

Response(href, status, propstats) == [href |-> href, status |-> status, propstats |-> propstats]

\* The value among vs, if there is one.
Value(vs) == IF vs \subseteq {None} THEN None ELSE CHOOSE v \in vs \ {None} : TRUE

\* parse_response: the properties found, and a status that failed, if any.
Entry(response) ==
    LET found == {p \in response.propstats : p.code \in Succeeds}
    IN  [path |-> Canonical[response.href], status |-> response.status,
         etag |-> Value({p.etag : p \in found}), data |-> Value({p.data : p \in found}),
         error |-> Value({p.code : p \in response.propstats \ found})]

Entries(body) == {Entry(r) : r \in body}

\* is_collection, and the members: not the collection, nor one inside it.
Members(body) == {e \in Entries(body) : e.path \in Href}

(***************************************************************************)
(* sync-collection: what a page says of each href: its ETag, 0 when it was *)
(* removed, None when it is not on the page.                               *)
(***************************************************************************)
Truncated(body) == \E e \in Entries(body) : e.path = Itself /\ e.status = 507

Observed(body) ==
    [h \in Href |->
        LET about == {e \in Members(body) : e.path = h /\ (e.status = 404 \/ e.etag # None)}
        IN  IF about = {} THEN None
            ELSE LET e == CHOOSE e \in about : TRUE
                 IN  IF e.status = 404 THEN 0 ELSE e.etag]

\* Faulty: the first observation of an href wins.
MergedFirst(merged, body) ==
    [h \in Href |-> IF merged[h] # None THEN merged[h] ELSE Observed(body)[h]]

\* The latest observation of an href wins.
Merged(merged, body) ==
    [h \in Href |-> IF Observed(body)[h] # None THEN Observed(body)[h] ELSE merged[h]]

(***************************************************************************)
(* addressbook-multiget: what becomes of each card asked for.              *)
(***************************************************************************)

PerHrefError(code) == IF code \in 500 .. 599 THEN "Transient" ELSE "Permanent"

\* A found card's ETag, 0 for one that is gone, or the error.
Classify(e) ==
    IF e.status \in {404, 410} THEN [etag |-> 0, error |-> None]
    ELSE IF e.status # None /\ e.status \notin Succeeds THEN [etag |-> 0, error |-> PerHrefError(e.status)]
    ELSE IF e.etag # None /\ e.data # None THEN [etag |-> e.etag, error |-> None]
    ELSE IF e.error \in {404, 410} THEN [etag |-> 0, error |-> None]
    ELSE [etag |-> 0, error |-> IF e.error = None THEN "Permanent" ELSE PerHrefError(e.error)]

Stray(body, asked) == {e \in Entries(body) : e.path \notin asked}

\* A card asked for and not answered is gone, too.
Answer(body, asked) ==
    LET about(h) == {e \in Entries(body) \ Stray(body, asked) : e.path = h}
    IN  [h \in asked |-> IF about(h) = {} THEN [etag |-> 0, error |-> None]
                         ELSE Classify(CHOOSE e \in about(h) : TRUE)]
=============================================================================
