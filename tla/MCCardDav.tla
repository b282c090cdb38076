------------------------------ MODULE MCCardDav ------------------------------
(***************************************************************************)
(* Values for the constants of CardDav: the server spells the path of h1   *)
(* in two ways.  The assumptions at the end compare the adapter with the   *)
(* address book of the tests.                                              *)
(***************************************************************************)
EXTENDS CardDav

CONSTANTS h1, h2, p1, p1escaped, p2, self, below

CanonicalPaths ==
    [name \in Spelling |->
        CASE name \in {p1, p1escaped} -> h1
          [] name = p2 -> h2
          [] name = self -> Itself
          [] OTHER -> Below]

WrittenAt == [h \in Href |-> IF h = h1 THEN 1 ELSE 2]

InMemory == INSTANCE MemoryBook

\* Every card has a picture of its own.
small == [h \in Href |-> InMemory!Body("a", InMemory!Inline(h), 1)]
large == InMemory!Body("b", None, 2)

\* What a test, a person or the daemon may do to the tests' book; the record
\* of the writes tried says nothing of the cards.
AfterCall(b) ==
    {[c EXCEPT !.writes = <<>>] : c \in
        {InMemory!ExpireTokens(b)}
        \cup {InMemory!Store(b, h, large) : h \in Href} \cup {InMemory!Remove(b, h) : h \in Href}
        \cup {InMemory!Put(b, h, small[h], etag).book : h \in Href, etag \in {0, b.version}}
        \cup {InMemory!Delete(b, h, etag).book : h \in Href, etag \in {None, b.version}}}

Earlier(b) == [entries |-> [h \in Href |-> InMemory!EtagIn(b, h)], token |-> b.version]

\* A book, and what a cycle knew of it some calls ago.
AfterCalls(ps) ==
    UNION {UNION {{<<b, p[2]>>, <<b, Earlier(b)>>} : b \in AfterCall(p[1])} : p \in ps}

FirstBooks ==
    LET new == InMemory!NewBook(TRUE) IN
    {<<b, Earlier(b)>> : b \in {new, InMemory!NewBook(FALSE), InMemory!IcloudPhotos(new, 1),
                                InMemory!OmitEtagOnPut(new, TRUE),
                                InMemory!DropPhotosOnPut(InMemory!IcloudPhotos(new, 1), TRUE),
                                InMemory!FailNext(new, "Put", "Transient")}}

SomeCalls == AfterCalls(AfterCalls(AfterCalls(FirstBooks)))

\* The tests' book keeps what the port promises: a delta brings whoever knew
\* the book when its token was handed out up to date, unless the token is
\* rejected (port.rs: "The returned delta is complete").
ASSUME DeltasAreComplete ==
    \A p \in SomeCalls :
        LET delta == InMemory!ChangesSince(p[1], p[2].token).answer IN
        delta # None => InMemory!Brought(p[2].entries, delta.entries) = Earlier(p[1]).entries

\* list_side: a listing with or without sync-collection.
ListSide(b) ==
    IF InMemory!Discover(b).answer THEN InMemory!ChangesSince(b, None).answer.entries
    ELSE InMemory!ListEtags(b).answer

\* The adapter, told the same by a server, answers the same: a delta, a
\* listing, and the cards of a multiget.
ASSUME BooksAgree ==
    \A p \in SomeCalls :
        LET b == p[1]
            since == InMemory!Touched(b, p[2].token)
            seen(entries) == InMemory!Brought(NothingSeen, entries)
        IN  /\ Merged(NothingSeen, InMemory!DeltaBody(b, since)) = seen(InMemory!ChangeSet(b, since).entries)
            /\ Merged(NothingSeen, InMemory!DeltaBody(b, InMemory!Members0(b))) = seen(ListSide(b))
            /\ \A hs \in SUBSET Href : \A h \in hs :
                 Answer(InMemory!CardsBody(b, hs), hs)[h]
                     = [etag |-> IF InMemory!Multiget(b, hs).answer[h] = None THEN 0
                                 ELSE InMemory!EtagIn(b, h), error |-> None]

\* In iCloud mode a photo is served as it was uploaded, or not kept.
ASSUME PhotosAreServed ==
    \A p \in SomeCalls, h \in Href :
        LET b == p[1] IN
        b.limit # None /\ b.cards[h] # None /\ b.cards[h].body.photo # None =>
            InMemory!Fetch(b, b.cards[h].body.photo.uri).answer = h /\ ~ b.dropPhotos
=============================================================================
