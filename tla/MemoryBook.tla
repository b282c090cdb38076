------------------------------ MODULE MemoryBook ------------------------------
(***************************************************************************)
(* The in-memory address book that the service's tests run on              *)
(* (core/src/test_support.rs), call by call: a test says something of the  *)
(* program only where this book keeps what the port promises and answers   *)
(* as the CardDAV adapter would.                                           *)
(***************************************************************************)
EXTENDS Dav, Sequences

\* A card body: its text, its photo, and how long it is.
Body(text, photo, size) == [text |-> text, photo |-> photo, size |-> size]
Inline(pic) == [pic |-> pic, uri |-> 0]
Uri(n) == [pic |-> None, uri |-> n]

\* cards[h] is an ETag and a body, or None; served[n] is the picture at the
\* n-th URI; limit is the card size in iCloud mode, or None.
NewBook(supports) ==
    [supports |-> supports, cards |-> [h \in Href |-> None], version |-> 0, changes |-> <<>>,
     validFrom |-> 0, writes |-> <<>>, omitEtag |-> FALSE, dropPhotos |-> FALSE,
     limit |-> None, served |-> <<>>, failures |-> <<>>]

EtagIn(b, h) == IF b.cards[h] = None THEN 0 ELSE b.cards[h].etag

(***************************************************************************)
(* What tests do to it.                                                    *)
(***************************************************************************)
OmitEtagOnPut(b, omit) == [b EXCEPT !.omitEtag = omit]
DropPhotosOnPut(b, drop) == [b EXCEPT !.dropPhotos = drop]
IcloudPhotos(b, max) == [b EXCEPT !.limit = max]
FailNext(b, op, error) == [b EXCEPT !.failures = Append(@, [op |-> op, error |-> error])]

\* Tokens handed out before are rejected from now on.
ExpireTokens(b) == [b EXCEPT !.version = @ + 1, !.validFrom = b.version + 1]

\* A mutation: the next version, and its place in the change log.
Logged(b, h, c) ==
    [b EXCEPT !.version = @ + 1, !.cards[h] = c, !.changes = Append(@, <<b.version + 1, h>>)]

Store(b, h, body) == Logged(b, h, [etag |-> b.version + 1, body |-> body])

Remove(b, h) == IF b.cards[h] = None THEN b ELSE Logged(b, h, None)

(***************************************************************************)
(* The port.  A call returns the book, and an answer or an error.          *)
(***************************************************************************)
Ok(b, answer) == [book |-> b, answer |-> answer, error |-> None]
Err(b, error) == [book |-> b, answer |-> None, error |-> error]

\* take_failure: the first failure queued for the operation, or its result.
Queued(b, op) == {i \in DOMAIN b.failures : b.failures[i].op = op}

Guarded(b, op, result) ==
    IF Queued(b, op) = {} THEN result
    ELSE LET i == CHOOSE i \in Queued(b, op) : \A j \in Queued(b, op) : i <= j
             rest == SubSeq(b.failures, 1, i - 1) \o SubSeq(b.failures, i + 1, Len(b.failures))
         IN  Err([b EXCEPT !.failures = rest], b.failures[i].error)

Discover(b) == Guarded(b, "Discover", Ok(b, b.supports))

\* What a delta or a listing says of some hrefs: the ETag, or 0 if removed.
ChangeSet(b, hs) == [entries |-> [h \in hs |-> EtagIn(b, h)], token |-> b.version]

Members0(b) == {h \in Href : b.cards[h] # None}

Touched(b, since) == {b.changes[i][2] : i \in {i \in DOMAIN b.changes : b.changes[i][1] > since}}

\* No answer: the token is rejected.
Changes(b, token) ==
    IF ~ b.supports THEN Err(b, "Permanent")
    ELSE IF token = None THEN Ok(b, ChangeSet(b, Members0(b)))
    ELSE IF token \notin b.validFrom .. b.version THEN Ok(b, None)
    ELSE Ok(b, ChangeSet(b, Touched(b, token)))

ChangesSince(b, token) == Guarded(b, "ChangesSince", Changes(b, token))

ListEtags(b) == Guarded(b, "ListEtags", Ok(b, [h \in Members0(b) |-> EtagIn(b, h)]))

Multiget(b, hs) == Guarded(b, "Multiget", Ok(b, [h \in hs |-> b.cards[h]]))

Recorded(b, write) == [b EXCEPT !.writes = Append(@, write)]

\* iCloud mode: an inline photo goes to a URI of its own.
Uploaded(b, body) ==
    IF b.limit # None /\ body.photo # None /\ body.photo.uri = 0
    THEN <<[b EXCEPT !.served = Append(@, body.photo.pic)],
           [body EXCEPT !.photo = Uri(Len(b.served) + 1)]>>
    ELSE <<b, body>>

Stored(b, h, body) ==
    LET up == Uploaded(b, body)
        kept == IF b.dropPhotos THEN [up[2] EXCEPT !.photo = None] ELSE up[2]
        new == Store(up[1], h, kept)
    IN  Ok(new, IF b.omitEtag THEN None ELSE EtagIn(new, h))

\* etag is what If-Match names, or 0 for If-None-Match.
Put(b, h, body, etag) ==
    LET c == Recorded(b, <<"put", h, body, etag>>) IN
    Guarded(c, "Put",
        IF EtagIn(c, h) # etag THEN Err(c, "PreconditionFailed")
        ELSE IF c.limit # None /\ body.size > c.limit THEN Err(c, "TooLarge")
        ELSE Stored(c, h, body))

\* etag is what If-Match names, or None.  A card that is gone is success.
Delete(b, h, etag) ==
    LET c == Recorded(b, <<"delete", h, etag>>) IN
    Guarded(c, "Delete",
        IF c.cards[h] # None /\ etag # None /\ EtagIn(c, h) # etag
        THEN Err(c, "PreconditionFailed")
        ELSE Ok(Remove(c, h), None))

\* The photo fetcher that serves what was uploaded.
Fetch(b, n) == IF n \in DOMAIN b.served THEN Ok(b, b.served[n]) ELSE Err(b, "Permanent")

(***************************************************************************)
(* The same collection as a server would describe it to the adapter.       *)
(***************************************************************************)
Spelled(h) == CHOOSE name \in Spelling : Canonical[name] = h

DeltaBody(b, hs) ==
    {IF b.cards[h] = None THEN Response(Spelled(h), 404, {})
     ELSE Response(Spelled(h), None, {Propstat(200, EtagIn(b, h), None)}) : h \in hs}

CardsBody(b, hs) ==
    {Response(Spelled(h), None, {Propstat(200, EtagIn(b, h), b.cards[h].body)}) :
        h \in hs \cap Members0(b)}

\* What whoever knew `entries` makes of a delta.
Brought(entries, delta) ==
    [h \in Href |-> IF h \in DOMAIN delta THEN delta[h] ELSE entries[h]]
=============================================================================
