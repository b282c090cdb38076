---------------------------- MODULE CardDav_proofs ----------------------------
(***************************************************************************)
(* Proofs about CardDav, for every set of cards, every spelling of their   *)
(* hrefs, every page size and order of pages, and every number of changes, *)
(* moves and failed requests, where the server gives every member its      *)
(* ETag: a listing of many requests is the listing of one instant that     *)
(* AtomicBook lets the sync cycle rely on.                                 *)
(*                                                                         *)
(* IInv says how a scan comes to be one: a card that has not changed since *)
(* the token sent last is merged as it is.                                 *)
(***************************************************************************)
EXTENDS CardDav, TLAPS

Typed ==
    /\ there \subseteq Href /\ at \in [Href -> Nat] /\ rev \in Nat
    /\ sent \in Nat /\ merged \in [Href -> Nat \cup {None}]
    /\ known \in [Href -> Nat] /\ token.at \in Nat
    /\ pc \in {"put", "delete", "probe"} => op.href \in Href

\* Nothing is of a later revision than the last.
Dated ==
    /\ rev # 0 /\ sent <= rev /\ token.at <= rev
    /\ \A h \in Href : at[h] <= rev /\ (h \in there => at[h] # 0)

\* Before a listing nothing is merged, and with no token it is all new.
Fresh ==
    /\ pc \in Discovering \cup {"wait"} => merged = NothingSeen
    /\ pc = "list" /\ sent = 0 => merged = NothingSeen
    /\ Scanned /\ supports => sent # 0

Scan ==
    pc = "list" \/ Scanned =>
        \A h \in Href : at[h] <= sent => Entry0(h) = Etag(h)

\* A delta that names nothing has not passed over anything.
Delta ==
    /\ token = NoToken \/ token.at # 0
    /\ pc = "delta" =>
          /\ token # NoToken /\ sent # 0
          /\ merged = NothingSeen => sent = token.at
    /\ pc = "idle" => token # NoToken /\ sent # 0 /\ Moved(token.at) = Moved(sent)

Stored == token # NoToken => \A h \in Href : at[h] <= token.at => known[h] = Etag(h)

IInv == Typed /\ Dated /\ Fresh /\ Scan /\ Delta /\ Stored

(***************************************************************************)
(* What a page says.                                                       *)
(***************************************************************************)
LEMMA ValueOfOne ==
    ASSUME NEW v, v # None
    PROVE  Value({v}) = v
BY DEF Value

\* A member's entry: its ETag, or the status 404 when it was removed.
LEMMA MemberEntry ==
    ASSUME Tagless = {}, Typed, NEW h \in Href, NEW name \in Spelling, Named(h, name)
    PROVE  /\ Entry(Member(h, name)).path = h
           /\ h \in there => Entry(Member(h, name)).etag = at[h] /\ Entry(Member(h, name)).status = None
           /\ h \notin there => Entry(Member(h, name)).status = 404
<1> DEFINE r == Member(h, name)
           good == {p \in r.propstats : p.code \in Succeeds}
<1>1. r.href = name /\ Entry(r).path = h /\ Entry(r).status = r.status
    BY DEF Member, Response, Entry, Named
<1>2. CASE h \in there
    <2>1. r.propstats = {Propstat(200, at[h], None)} /\ r.status = None
        BY <1>2 DEF Member, Response, Tag
    <2>2. Propstat(200, at[h], None).code = 200 /\ Propstat(200, at[h], None).etag = at[h]
        BY DEF Propstat
    <2>3. 200 \in Succeeds
        BY DEF Succeeds
    <2>4. good = {Propstat(200, at[h], None)}
        BY <2>1, <2>2, <2>3
    <2>5. {p.etag : p \in good} = {at[h]}
        BY <2>2, <2>4
    <2>6. at[h] # None
        BY CardDavAssumptions DEF Typed
    <2>7. Entry(r).etag = Value({p.etag : p \in good})
        BY DEF Entry
    <2> QED
        BY <1>1, <1>2, <2>1, <2>5, <2>6, <2>7, ValueOfOne
<1>3. CASE h \notin there
    BY <1>1, <1>3 DEF Member, Response
<1> QED
    BY <1>1, <1>2, <1>3

\* A page says of each of its cards what is there, and nothing of others.
LEMMA ObservedPage ==
    ASSUME Tagless = {}, Typed, NEW P \in SUBSET Href, NEW status, NEW name \in Names(P)
    PROVE  Observed(PageBody(P, status, name)) = [h \in Href |-> IF h \in P THEN Etag(h) ELSE None]
<1> DEFINE body == PageBody(P, status, name)
           about(h) == {e \in Members(body) : e.path = h /\ (e.status = 404 \/ e.etag # None)}
<1>1. \A h \in P \cup {Itself, Below} : name[h] \in Spelling /\ Named(h, name[h])
    BY DEF Names
<1>2. \A e \in Members(body) : e.path \in Href
    BY DEF Members
<1>3. \A e \in Entries(body) : e.path \in Href => \E h \in P : e = Entry(Member(h, name[h]))
    <2>1. \A r \in body : \/ \E h \in P : r = Member(h, name[h])
                          \/ r.href = name[Below] \/ r.href = name[Itself]
        BY DEF PageBody, Response
    <2>2. \A r : Entry(r).path = Canonical[r.href]
        BY DEF Entry
    <2>3. Canonical[name[Below]] = Below /\ Canonical[name[Itself]] = Itself
        BY <1>1 DEF Named
    <2> QED
        BY <2>1, <2>2, <2>3, CanonicalAssumption DEF Entries
<1>4. \A h \in P : Entry(Member(h, name[h])) \in Members(body)
    <2>1. \A h \in P : Member(h, name[h]) \in body
        BY DEF PageBody
    <2>2. \A h \in P : Entry(Member(h, name[h])).path = h
        BY <1>1, MemberEntry
    <2> QED
        BY <2>1, <2>2 DEF Members, Entries
<1>5. ASSUME NEW h \in Href
      PROVE  Observed(body)[h] = IF h \in P THEN Etag(h) ELSE None
    <2>1. \A e \in about(h) : h \in P /\ e = Entry(Member(h, name[h]))
        BY <1>1, <1>3, MemberEntry DEF Members
    <2>2. CASE h \in P
        <3> DEFINE entry == Entry(Member(h, name[h]))
        <3>1. /\ entry.path = h
              /\ h \in there => entry.etag = at[h] /\ entry.status = None
              /\ h \notin there => entry.status = 404
            BY <1>1, <2>2, MemberEntry
        <3>2. at[h] # None /\ None # 404
            BY CardDavAssumptions DEF Typed
        <3>3. entry \in about(h)
            BY <1>4, <2>2, <3>1, <3>2
        <3>4. about(h) = {entry}
            BY <2>1, <3>3
        <3>5. (CHOOSE e \in about(h) : TRUE) = entry
            BY <3>4
        <3>6. Observed(body)[h] =
                  IF about(h) = {} THEN None
                  ELSE LET e == CHOOSE e \in about(h) : TRUE
                       IN  IF e.status = 404 THEN 0 ELSE e.etag
            <4> HIDE DEF body
            <4> QED
                BY DEF Observed
        <3>7. Observed(body)[h] = IF entry.status = 404 THEN 0 ELSE entry.etag
            <4> HIDE DEF body, entry, about
            <4> QED
                BY <3>3, <3>5, <3>6
        <3> QED
            BY <2>2, <3>1, <3>2, <3>7 DEF Etag
    <2>3. CASE h \notin P
        BY <2>1, <2>3 DEF Observed
    <2> QED
        BY <2>2, <2>3
<1>6. Observed(body) = [h \in Href |-> Observed(body)[h]]
    BY DEF Observed
<1> QED
    BY <1>5, <1>6

LEMMA MergedPage ==
    ASSUME Tagless = {}, Typed, NEW P \in SUBSET Href, NEW status, NEW name \in Names(P), NEW seen
    PROVE  Merged(seen, PageBody(P, status, name)) = [h \in Href |-> IF h \in P THEN Etag(h) ELSE seen[h]]
<1>1. \A h \in Href : Etag(h) # None
    BY CardDavAssumptions DEF Typed, Etag
<1> QED
    BY <1>1, ObservedPage DEF Merged

(***************************************************************************)
(* Steps, by what they do to the cards and to the listing.                 *)
(***************************************************************************)
Step == [Port!Next]_(Port!vars)

Cards == <<there, at, rev, supports>>

ScannedSteps == {"want", "fetch", "put", "delete", "probe", "finish"}

\* Neither a card nor a listing changes, and no listing begins.
LEMMA QuietStep ==
    ASSUME IInv, UNCHANGED <<Cards, token, known, sent, merged>>,
           Scanned' <=> Scanned,
           pc' \in Discovering \cup {"wait"} => pc \in Discovering \cup {"wait"},
           pc' \in Listing \cup {"idle"} => pc' = pc,
           pc' \in {"put", "delete", "probe"} => op'.href \in Href
    PROVE  IInv' /\ Step
<1>1. Typed' /\ Dated'
    BY DEF IInv, Typed, Dated, Cards
<1>2. Fresh' /\ Scan' /\ Delta' /\ Stored'
    BY DEF IInv, Fresh, Scan, Delta, Stored, Cards, Listing, Moved, Entry0, Etag
<1>3. UNCHANGED Port!vars
    BY DEF Port!vars, Book, ThisListing, Kept, Cards, Etag, Entry0, Moved
<1> QED
    BY <1>1, <1>2, <1>3 DEF IInv, Step

\* The cycle ends and nothing is stored.
LEMMA DroppedStep ==
    ASSUME IInv, UNCHANGED <<Cards, token, known>>, Idle
    PROVE  IInv' /\ Step
<1>1. pc' = "wait" /\ sent' = 0 /\ merged' = NothingSeen
    BY DEF Idle
<1>2. Typed' /\ Dated'
    BY <1>1 DEF IInv, Typed, Dated, Cards, NothingSeen
<1>3. ~ Scanned'
    BY <1>1 DEF Scanned
<1>4. Fresh' /\ Scan' /\ Delta' /\ Stored'
    BY <1>1, <1>3 DEF IInv, Fresh, Scan, Delta, Stored, Cards, Moved, Etag
<1>5. UNCHANGED <<Book, Kept>>
    BY DEF Book, Kept, Cards, Etag, Moved
<1>6. Port!Drop
    BY <1>3, <1>5 DEF Port!Drop, ThisListing
<1> QED
    BY <1>2, <1>4, <1>6 DEF IInv, Step, Port!Next

LEMMA AfterRecord ==
    ASSUME NEW entries, NEW since, NEW h
    PROVE  Port!After([entries |-> entries, since |-> since], h) =
              [entries |-> entries, since |-> since \cup {h}]
BY DEF Port!After

\* A card is written or removed, by anybody.
LEMMA WrittenStep ==
    ASSUME IInv, NEW h \in Href, Writes(h) \/ Removes(h), UNCHANGED <<token, known, sent, merged>>,
           pc' = pc \/ (pc \in {"put", "delete"} /\ pc' = "finish"),
           UNCHANGED op
    PROVE  IInv' /\ Step
<1>1. /\ rev' = rev + 1 /\ at' = [at EXCEPT ![h] = rev'] /\ supports' = supports
      /\ there' \in SUBSET Href /\ \A g \in Href \ {h} : g \in there' <=> g \in there
    BY DEF IInv, Typed, Writes, Removes, Touch
<1>2. /\ at'[h] = rev + 1 /\ \A g \in Href \ {h} : at'[g] = at[g] /\ Etag(g)' = Etag(g)
      /\ at' \in [Href -> Nat]
    BY <1>1 DEF IInv, Typed, Etag
<1>3. Typed' /\ Dated'
    <2>1. Typed'
        BY <1>1, <1>2 DEF IInv, Typed
    <2>2. Dated'
        BY <1>1, <1>2 DEF IInv, Typed, Dated
    <2> QED
        BY <2>1, <2>2
<1>4. \A from \in Nat : from <= rev => Moved(from)' = Moved(from) \cup {h}
    BY <1>1, <1>2 DEF IInv, Typed, Moved
<1>5. Scanned' <=> Scanned
    BY DEF Scanned
<1>6. \A g \in Href : Entry0(g)' = Entry0(g)
    BY DEF Entry0
<1>7. Fresh' /\ Scan' /\ Stored'
    <2>1. Fresh'
        BY <1>1, <1>5 DEF IInv, Fresh, Discovering
    <2>2. Scan'
        BY <1>1, <1>2, <1>5, <1>6 DEF IInv, Typed, Dated, Scan
    <2>3. Stored'
        BY <1>1, <1>2 DEF IInv, Typed, Dated, Stored
    <2> QED
        BY <2>1, <2>2, <2>3
<1>8. Delta'
    <2>1. Moved(token.at) = Moved(sent) => Moved(token.at)' = Moved(sent)'
        BY <1>4 DEF IInv, Typed, Dated, Moved
    <2> QED
        BY <2>1 DEF IInv, Delta
<1>9. Port!Change(h)
    <2>1. Book' = [Book EXCEPT ![h] = Book'[h]] /\ Book'[h] \in Nat
        BY <1>2 DEF Book, Etag
    <2>2. ThisListing' = {Port!After(list, h) : list \in ThisListing}
        <3>1. CASE ~ Scanned
            BY <3>1, <1>5 DEF ThisListing
        <3>2. CASE Scanned
            <4> DEFINE since == IF supports THEN Moved(sent) ELSE Href
                       list == [entries |-> [g \in Href |-> Entry0(g)], since |-> since]
            <4>1. (IF supports THEN Moved(sent) ELSE Href)' = since \cup {h}
                BY <1>1, <1>4 DEF IInv, Typed, Dated, Moved
            <4>2. ThisListing = {list}
                BY <3>2 DEF ThisListing
            <4>3. ThisListing' = {[entries |-> [g \in Href |-> Entry0(g)], since |-> since \cup {h}]}
                BY <3>2, <1>5, <1>6, <4>1 DEF ThisListing
            <4>4. Port!After(list, h) = [entries |-> [g \in Href |-> Entry0(g)], since |-> since \cup {h}]
                BY AfterRecord
            <4> HIDE DEF list, since
            <4> QED
                BY <4>2, <4>3, <4>4
        <3> QED
            BY <3>1, <3>2
    <2>3. Kept' = Port!After(Kept, h)
        <3> DEFINE since == IF token = NoToken THEN Href ELSE Moved(token.at)
        <3>1. (IF token = NoToken THEN Href ELSE Moved(token.at))' = since \cup {h}
            BY <1>4 DEF IInv, Typed, Dated, Moved
        <3>2. Kept = [entries |-> known, since |-> since]
            BY DEF Kept
        <3>3. Kept' = [entries |-> known, since |-> since \cup {h}]
            BY <3>1 DEF Kept
        <3>4. Port!After([entries |-> known, since |-> since], h) = [entries |-> known, since |-> since \cup {h}]
            BY AfterRecord
        <3> QED
            BY <3>2, <3>3, <3>4
    <2> QED
        BY <2>1, <2>2, <2>3 DEF Port!Change
<1> QED
    BY <1>3, <1>7, <1>8, <1>9 DEF IInv, Step, Port!Next

(***************************************************************************)
(* Listing, page by page.                                                  *)
(***************************************************************************)

\* Up to its last revision, a page completes what the pages before it said.
LEMMA PageTold ==
    ASSUME IInv, pc = "list", NEW upto \in Nat, upto <= rev, NEW seen,
           seen = [h \in Href |-> IF h \in Page(sent, upto) THEN Etag(h) ELSE merged[h]]
    PROVE  \A h \in Href : at[h] <= upto => (IF seen[h] = None THEN 0 ELSE seen[h]) = Etag(h)
<1> SUFFICES ASSUME NEW h \in Href, at[h] <= upto
             PROVE  (IF seen[h] = None THEN 0 ELSE seen[h]) = Etag(h)
    OBVIOUS
<1>1. Etag(h) \in Nat /\ Etag(h) # None
    BY CardDavAssumptions DEF IInv, Typed, Etag
<1>2. CASE h \in Page(sent, upto)
    BY <1>1, <1>2
<1>3. CASE h \notin Page(sent, upto) /\ sent = 0
    <2>1. h \notin there /\ merged = NothingSeen
        BY <1>3 DEF Page, Since, IInv, Fresh
    <2> QED
        BY <1>3, <2>1 DEF NothingSeen, Etag
<1>4. CASE h \notin Page(sent, upto) /\ sent # 0
    <2>1. at[h] <= sent
        BY <1>4 DEF Page, Since, IInv, Typed
    <2> QED
        BY <1>4, <2>1 DEF IInv, Scan, Entry0
<1> QED
    BY <1>2, <1>3, <1>4

\* All of what changed is a page of its own.
LEMMA WholePage ==
    ASSUME IInv
    PROVE  Page(sent, rev) = Since(sent) /\ Since(sent) \in SUBSET Href
BY DEF IInv, Typed, Dated, Page, Since

LEMMA MergedWhole ==
    ASSUME IInv, Tagless = {}, NEW name \in Names(Since(sent))
    PROVE  Merged(merged, PageBody(Since(sent), None, name)) =
              [h \in Href |-> IF h \in Since(sent) THEN Etag(h) ELSE merged[h]]
<1>1. Typed /\ Since(sent) \in SUBSET Href
    BY WholePage DEF IInv
<1> QED
    BY <1>1, MergedPage

LEMMA ContinueStep ==
    ASSUME IInv, Tagless = {}, NEW upto \in {at[h] : h \in Since(sent)}, pc \in Listing,
           Continue(upto), UNCHANGED server
    PROVE  IInv' /\ Step
<1>1. UNCHANGED Cards
    BY DEF server, Cards
<1>2. CASE pages + 1 < MaxPages
    <2> DEFINE P == Page(sent, upto)
    <2>1. /\ sent' = upto /\ UNCHANGED <<token, known, pc>>
          /\ \E name \in Names(P) : merged' = Merged(merged, PageBody(P, 507, name))
        BY <1>2 DEF Continue
    <2>2. P \in SUBSET Href /\ upto \in Nat /\ upto <= rev /\ upto # 0
        BY DEF Page, Since, IInv, Typed, Dated
    <2>3. merged' = [h \in Href |-> IF h \in P THEN Etag(h) ELSE merged[h]]
        BY <2>1, <2>2, MergedPage DEF IInv
    <2>4. \A h \in Href : Etag(h) \in Nat /\ Etag(h)' = Etag(h)
        BY <1>1 DEF IInv, Typed, Etag, Cards
    <2>5. Typed' /\ Dated'
        BY <1>1, <2>1, <2>2, <2>3, <2>4 DEF IInv, Typed, Dated, Cards, Listing
    <2>6. ~ Scanned /\ ~ Scanned'
        BY <2>1 DEF Scanned, Listing
    <2>7. Fresh' /\ Stored'
        BY <1>1, <2>1, <2>2, <2>4, <2>6 DEF IInv, Fresh, Stored, Cards, Listing, Discovering
    <2>8. Scan'
        BY <1>1, <2>1, <2>2, <2>3, <2>4, <2>6, PageTold DEF Scan, Entry0, Cards
    <2>9. merged' # NothingSeen
        <3>1. PICK g \in Since(sent) : at[g] = upto
            OBVIOUS
        <3>2. g \in P /\ g \in Href
            BY <2>2, <3>1 DEF Page
        <3> QED
            BY <2>3, <2>4, <3>2, CardDavAssumptions DEF NothingSeen
    <2>10. Delta'
        BY <1>1, <2>1, <2>2, <2>9 DEF IInv, Delta, Listing
    <2>11. UNCHANGED Port!vars
        BY <1>1, <2>1, <2>6 DEF Port!vars, Book, ThisListing, Kept, Cards, Etag, Moved
    <2> QED
        BY <2>5, <2>7, <2>8, <2>10, <2>11 DEF IInv, Step
<1>3. CASE ~ (pages + 1 < MaxPages)
    BY <1>1, <1>3, DroppedStep DEF Continue, FailWith
<1> QED
    BY <1>2, <1>3

\* The delta is given up for a listing.
LEMMA RelistStep ==
    ASSUME IInv, pc = "delta", Relist, UNCHANGED <<Cards, token, known>>
    PROVE  IInv' /\ Step
<1>1. pc' = "list" /\ sent' = 0 /\ merged' = NothingSeen
    BY DEF Relist
<1>2. ~ Scanned /\ ~ Scanned'
    BY <1>1 DEF Scanned
<1>3. Typed' /\ Dated'
    BY <1>1 DEF IInv, Typed, Dated, Cards, NothingSeen
<1>4. Scan'
    <2>1. \A h \in Href : Entry0(h)' = 0
        BY <1>1 DEF Entry0, NothingSeen
    <2>2. \A h \in Href : at'[h] <= 0 => Etag(h)' = 0
        BY DEF IInv, Typed, Dated, Cards, Etag
    <2> QED
        BY <1>1, <2>1, <2>2 DEF Scan
<1>5. Fresh' /\ Delta' /\ Stored'
    BY <1>1, <1>2 DEF IInv, Fresh, Delta, Stored, Cards, Discovering, Etag
<1>6. UNCHANGED Port!vars
    BY <1>2 DEF Port!vars, Book, ThisListing, Kept, Cards, Etag, Moved
<1> QED
    BY <1>3, <1>4, <1>5, <1>6 DEF IInv, Step

\* A delta that names nothing: the token it ends with stands for the same.
LEMMA NothingNewStep ==
    ASSUME IInv, Tagless = {}, pc = "delta", UNCHANGED <<Cards, token, known>>,
           NEW name \in Names(Since(sent)),
           merged' = Merged(merged, PageBody(Since(sent), None, name)), merged' = NothingSeen,
           pc' = "idle", sent' = rev
    PROVE  IInv' /\ Step
<1>1. merged' = [h \in Href |-> IF h \in Since(sent) THEN Etag(h) ELSE merged[h]]
    BY MergedWhole
<1>2. Since(sent) = {} /\ merged = NothingSeen
    BY <1>1, WholePage, CardDavAssumptions DEF IInv, Typed, NothingSeen, Etag
<1>3. token # NoToken /\ sent # 0 /\ sent = token.at
    BY <1>2 DEF IInv, Delta
<1>4. Moved(token.at) = {}
    BY <1>2, <1>3 DEF Since, Moved
<1>5. Moved(rev) = {} /\ Moved(token.at)' = {} /\ Moved(sent)' = {}
    BY <1>4 DEF IInv, Typed, Dated, Moved, Cards
<1>6. ~ Scanned /\ ~ Scanned'
    BY DEF Scanned
<1>7. Typed' /\ Dated'
    <2>1. merged' \in [Href -> Nat \cup {None}]
        BY DEF NothingSeen
    <2> QED
        BY <2>1 DEF IInv, Typed, Dated, Cards
<1>8. Fresh' /\ Scan' /\ Delta' /\ Stored'
    BY <1>3, <1>5, <1>6 DEF IInv, Dated, Fresh, Scan, Delta, Stored, Cards, Discovering, Etag
<1>9. UNCHANGED Port!vars
    BY <1>6 DEF Port!vars, Book, ThisListing, Kept, Cards, Etag, Moved
<1> QED
    BY <1>7, <1>8, <1>9 DEF IInv, Step

\* A listing is complete.
LEMMA ListedStep ==
    ASSUME IInv, Tagless = {}, pc = "list", UNCHANGED <<Cards, token, known>>, pc' = "want",
           \/ /\ sent' = rev
              /\ \E name \in Names(Since(sent)) :
                    merged' = Merged(merged, PageBody(Since(sent), None, name))
           \/ /\ ~ supports /\ sent' = 0
              /\ \E name \in Names(there) :
                    merged' = Merged(NothingSeen, PageBody(there, None, name))
    PROVE  IInv' /\ Step
<1>1. \A h \in Href : Etag(h) \in Nat /\ Etag(h)' = Etag(h)
    BY DEF IInv, Typed, Etag, Cards
<1>2. merged' \in [Href -> Nat \cup {None}] /\ \A h \in Href : Entry0(h)' = Etag(h)
    <2>1. CASE /\ sent' = rev
               /\ \E name \in Names(Since(sent)) :
                     merged' = Merged(merged, PageBody(Since(sent), None, name))
        <3>1. merged' = [h \in Href |-> IF h \in Page(sent, rev) THEN Etag(h) ELSE merged[h]]
            BY <2>1, WholePage, MergedPage DEF IInv
        <3>2. \A h \in Href : at[h] <= rev => (IF merged'[h] = None THEN 0 ELSE merged'[h]) = Etag(h)
            BY <3>1, PageTold DEF IInv, Typed
        <3> QED
            BY <1>1, <3>1, <3>2 DEF IInv, Typed, Dated, Entry0
    <2>2. CASE /\ ~ supports /\ sent' = 0
               /\ \E name \in Names(there) :
                     merged' = Merged(NothingSeen, PageBody(there, None, name))
        <3>1. merged' = [h \in Href |-> IF h \in there THEN Etag(h) ELSE NothingSeen[h]]
            BY <2>2, MergedPage DEF IInv, Typed
        <3> QED
            BY <1>1, <3>1, CardDavAssumptions DEF NothingSeen, Entry0, Etag
    <2> QED
        BY <2>1, <2>2
<1>3. Typed' /\ Dated'
    <2>1. sent' = rev \/ sent' = 0
        OBVIOUS
    <2> QED
        BY <1>2, <2>1 DEF IInv, Typed, Dated, Cards
<1>4. Fresh' /\ Scan' /\ Delta' /\ Stored'
    BY <1>1, <1>2 DEF IInv, Dated, Fresh, Scan, Delta, Stored, Cards, Discovering
<1>5. Port!List
    <2>1. [h \in Href |-> Entry0(h)]' = Book
        BY <1>2 DEF Book
    <2>2. Scanned'
        BY DEF Scanned
    <2>3. supports => Moved(sent)' = {}
        BY DEF IInv, Typed, Dated, Moved, Cards
    <2>4. (IF supports THEN Moved(sent) ELSE Href)' \in {{}, Href}
        BY <2>3 DEF Cards
    <2>5. ThisListing' = {[entries |-> Book, since |-> (IF supports THEN Moved(sent) ELSE Href)']}
        BY <2>1, <2>2 DEF ThisListing
    <2>6. UNCHANGED <<Book, Kept>>
        BY <1>1 DEF Book, Kept, Cards, Moved
    <2> QED
        BY <2>4, <2>5, <2>6 DEF Port!List
<1> QED
    BY <1>3, <1>4, <1>5 DEF IInv, Step, Port!Next

(***************************************************************************)
(* Steps that store a token.                                               *)
(***************************************************************************)

LEMMA ForgottenRecord ==
    ASSUME NEW entries, NEW since, NEW forgotten
    PROVE  [[entries |-> entries, since |-> since] EXCEPT !.since = forgotten] =
              [entries |-> entries, since |-> forgotten]
OBVIOUS

\* upsert_discovery: the token stays, or is given up.
LEMMA SelectStep ==
    ASSUME IInv, Select
    PROVE  IInv' /\ Step
<1>1. /\ UNCHANGED <<Cards, known, sent, merged>> /\ pc = "select" /\ pc' = "wait"
      /\ token' = token \/ token' = NoToken
    BY DEF Select, Bind, server, scan, Cards
<1>2. NoToken.at = 0
    BY DEF NoToken
<1>3. Typed' /\ Dated'
    BY <1>1, <1>2 DEF IInv, Typed, Dated, Cards
<1>4. ~ Scanned /\ ~ Scanned'
    BY <1>1 DEF Scanned
<1>5. Fresh' /\ Scan' /\ Delta' /\ Stored'
    BY <1>1, <1>2, <1>4 DEF IInv, Fresh, Scan, Delta, Stored, Cards, Discovering, Etag
<1>6. UNCHANGED <<Book, ThisListing>>
    BY <1>1, <1>4 DEF Book, ThisListing, Cards, Etag
<1>7. Step
    <2>1. CASE token' = token
        <3>1. UNCHANGED Kept
            BY <1>1, <2>1 DEF Kept, Moved, Cards
        <3> QED
            BY <1>6, <3>1 DEF Step, Port!vars
    <2>2. CASE token' = NoToken
        <3>1. Kept' = [Kept EXCEPT !.since = Href]
            BY <1>1, <2>2, ForgottenRecord DEF Kept
        <3> QED
            BY <1>6, <3>1 DEF Step, Port!Next, Port!Forget
    <2> QED
        BY <1>1, <2>1, <2>2
<1> QED
    BY <1>3, <1>5, <1>7 DEF IInv

LEMMA SentIsToken ==
    ASSUME sent # 0, token' = [of |-> bound, at |-> sent]
    PROVE  token' # NoToken /\ token'.at = sent
BY DEF NoToken

LEMMA StoreIdleStep ==
    ASSUME IInv, StoreIdle
    PROVE  IInv' /\ Step
<1>1. /\ UNCHANGED <<Cards, known>> /\ pc = "idle" /\ pc' = "wait"
      /\ sent' = 0 /\ merged' = NothingSeen /\ token' = [of |-> bound, at |-> sent]
    BY DEF StoreIdle, Idle, server, Cards
<1>2. token # NoToken /\ sent # 0 /\ Moved(token.at) = Moved(sent)
    BY <1>1 DEF IInv, Delta
<1>3. token' # NoToken /\ token'.at = sent
    BY <1>1, <1>2, SentIsToken
<1>4. Typed' /\ Dated'
    BY <1>1, <1>3 DEF IInv, Typed, Dated, Cards, NothingSeen
<1>5. ~ Scanned /\ ~ Scanned'
    BY <1>1 DEF Scanned
<1>6. Fresh' /\ Scan' /\ Delta'
    BY <1>1, <1>2, <1>3, <1>5 DEF IInv, Fresh, Scan, Delta, Discovering
<1>7. Stored'
    <2>1. \A h \in Href : at[h] <= sent => at[h] <= token.at
        BY <1>2 DEF IInv, Typed, Moved
    <2> QED
        BY <1>1, <1>2, <1>3, <2>1 DEF IInv, Typed, Stored, Cards, Etag
<1>8. UNCHANGED Port!vars
    <2>1. Moved(token.at)' = Moved(token.at)
        BY <1>1, <1>2, <1>3 DEF Moved, Cards
    <2> QED
        BY <1>1, <1>2, <1>3, <1>5, <2>1 DEF Port!vars, Book, ThisListing, Kept, Cards, Etag
<1> QED
    BY <1>4, <1>6, <1>7, <1>8 DEF IInv, Step

LEMMA FinishStep ==
    ASSUME IInv, Finish
    PROVE  IInv' /\ Step
<1>1. /\ UNCHANGED Cards /\ pc = "finish" /\ pc' = "wait"
      /\ sent' = 0 /\ merged' = NothingSeen /\ known' = [h \in Href |-> Entry0(h)]
      /\ supports => token' = [of |-> bound, at |-> sent]
      /\ ~ supports => token' = NoToken
    BY DEF Finish, Idle, server, Cards
<1>2. Scanned /\ ~ Scanned'
    BY <1>1 DEF Scanned
<1>3. supports => sent # 0 /\ token' # NoToken /\ token'.at = sent
    BY <1>1, <1>2, SentIsToken DEF IInv, Fresh
<1>4. ~ supports => token'.at = 0
    BY <1>1 DEF NoToken
<1>5. \A h \in Href : Entry0(h) \in Nat
    BY DEF IInv, Typed, Entry0
<1>6. Typed' /\ Dated'
    BY <1>1, <1>3, <1>4, <1>5 DEF IInv, Typed, Dated, Cards, NothingSeen
<1>7. Fresh' /\ Scan' /\ Delta' /\ Stored'
    BY <1>1, <1>2, <1>3, <1>4 DEF IInv, Fresh, Scan, Delta, Stored, Cards, Discovering, Etag
<1>8. Port!Store
    <2>1. Kept' \in ThisListing
        BY <1>1, <1>2, <1>3 DEF Kept, ThisListing, Moved, Cards
    <2>2. ThisListing' = {} /\ UNCHANGED Book
        BY <1>1, <1>2 DEF ThisListing, Book, Cards, Etag
    <2> QED
        BY <2>1, <2>2 DEF Port!Store
<1> QED
    BY <1>6, <1>7, <1>8 DEF IInv, Step, Port!Next

(***************************************************************************)
(* The other steps, and the theorems.                                      *)
(***************************************************************************)
LEMMA WakeStep ==
    ASSUME IInv, Wake
    PROVE  IInv' /\ Step
<1>1. /\ UNCHANGED <<Cards, token, known, merged>> /\ pc = "wait" /\ merged = NothingSeen
      /\ \/ pc' \in {"principal", "list"} /\ sent' = 0
         \/ token # NoToken /\ pc' = "delta" /\ sent' = token.at
    BY DEF Wake, server, Cards, IInv, Fresh
<1>2. ~ Scanned /\ ~ Scanned'
    BY <1>1 DEF Scanned
<1>3. Typed' /\ Dated'
    BY <1>1 DEF IInv, Typed, Dated, Cards
<1>4. Scan'
    <2>1. \A h \in Href : Entry0(h)' = 0
        BY <1>1 DEF Entry0, NothingSeen
    <2>2. \A h \in Href : at'[h] <= 0 => Etag(h)' = 0
        BY <1>1 DEF IInv, Typed, Dated, Cards, Etag
    <2> QED
        BY <1>1, <1>2, <2>1, <2>2 DEF Scan
<1>5. Fresh' /\ Delta' /\ Stored'
    BY <1>1, <1>2 DEF IInv, Fresh, Delta, Stored, Cards, Discovering, Etag
<1>6. UNCHANGED Port!vars
    BY <1>1, <1>2 DEF Port!vars, Book, ThisListing, Kept, Cards, Etag, Moved
<1> QED
    BY <1>3, <1>4, <1>5, <1>6 DEF IInv, Step

LEMMA SyncCollectionStep ==
    ASSUME IInv, Tagless = {}, SyncCollection
    PROVE  IInv' /\ Step
<1>1. UNCHANGED server /\ UNCHANGED Cards /\ pc \in Listing
    BY DEF SyncCollection, server, Cards
<1>2. CASE \E upto \in {at[h] : h \in Since(sent)} : Continue(upto)
    BY <1>1, <1>2, ContinueStep
<1>3. CASE Complete
    <2>1. UNCHANGED <<token, known>>
        BY <1>3 DEF Complete
    <2>2. PICK name \in Names(Since(sent)) :
              LET all == Merged(merged, PageBody(Since(sent), None, name)) IN
              \/ pc = "delta" /\ Relist
              \/ /\ pc = "delta" /\ all = NothingSeen
                 /\ pc' = "idle" /\ sent' = rev /\ merged' = all /\ pages' = 0
              \/ /\ pc = "list"
                 /\ pc' = "want" /\ sent' = rev /\ merged' = all /\ pages' = 0
        BY <1>3 DEF Complete
    <2>3. CASE pc = "delta" /\ Relist
        BY <1>1, <2>1, <2>3, RelistStep
    <2>4. CASE /\ pc = "delta" /\ pc' = "idle" /\ sent' = rev /\ merged' = NothingSeen
               /\ merged' = Merged(merged, PageBody(Since(sent), None, name))
        BY <1>1, <2>1, <2>4, NothingNewStep
    <2>5. CASE /\ pc = "list" /\ pc' = "want" /\ sent' = rev
               /\ merged' = Merged(merged, PageBody(Since(sent), None, name))
        BY <1>1, <2>1, <2>5, ListedStep
    <2> QED
        BY <2>2, <2>3, <2>4, <2>5
<1> QED
    BY <1>2, <1>3 DEF SyncCollection

LEMMA PutStep ==
    ASSUME IInv, Put \/ Delete
    PROVE  IInv' /\ Step
<1>1. /\ pc \in {"put", "delete"} /\ pc' \in {"finish", "probe"} /\ op.href \in Href
      /\ UNCHANGED <<token, known, sent, merged, op>>
      /\ \/ pc' = "finish" /\ (Writes(op.href) \/ Removes(op.href))
         \/ UNCHANGED Cards
    BY DEF Put, Delete, Deleted, Probing, scan, work, server, Cards, IInv, Typed
<1>2. CASE pc' = "finish" /\ (Writes(op.href) \/ Removes(op.href))
    BY <1>1, <1>2, WrittenStep
<1>3. CASE UNCHANGED Cards
    BY <1>1, <1>3, QuietStep DEF Scanned, Discovering, Listing
<1> QED
    BY <1>1, <1>2, <1>3

\* Requests that touch no card, and leave the listing as it is.
LEMMA OtherStep ==
    ASSUME IInv, Move \/ Answered \/ NoPrincipal \/ Redirected \/ Want \/ Multiget \/ Choose \/ Probe
    PROVE  IInv' /\ Step
<1>1. CASE Move
    BY <1>1, QuietStep DEF Move, scan, work, Cards, Scanned, IInv, Typed
<1>2. CASE Answered \/ NoPrincipal
    BY <1>2, QuietStep DEF Answered, NoPrincipal, Goto, scan, server, Cards, Scanned, Discovering, Listing
<1>3. CASE Redirected
    <2>1. CASE UNCHANGED <<server, token, known, pc, scan, work>>
        BY <2>1, QuietStep DEF server, scan, work, Cards, Scanned, IInv, Typed
    <2>2. CASE UNCHANGED server /\ FailWith(404)
        BY <2>2, DroppedStep DEF FailWith, server, Cards
    <2> QED
        BY <1>3, <2>1, <2>2 DEF Redirected
<1>4. CASE Want
    BY <1>4, QuietStep DEF Want, scan, server, Cards, Scanned, Discovering, Listing
<1>5. CASE Multiget
    BY <1>5, QuietStep DEF Multiget, scan, server, Cards, Scanned, Discovering, Listing
<1>6. CASE Choose
    <2>1. /\ pc = "fetch" /\ pc' \in {"finish", "put", "delete"}
          /\ pc' # "finish" => op'.href \in Href
          /\ UNCHANGED <<Cards, token, known, sent, merged>>
        BY <1>6 DEF Choose, scan, server, Cards
    <2> QED
        BY <2>1, QuietStep DEF Scanned, Discovering, Listing
<1>7. CASE Probe
    BY <1>7, QuietStep DEF Probe, Deleted, scan, server, Cards, Scanned, Discovering, Listing
<1> QED
    BY <1>1, <1>2, <1>3, <1>4, <1>5, <1>6, <1>7

LEMMA FaultStep ==
    ASSUME IInv, TokenInvalid \/ Left \/ Fails
    PROVE  IInv' /\ Step
<1>1. UNCHANGED Cards
    BY DEF TokenInvalid, Left, Fails, server, Cards
<1>2. \/ \E status : FailWith(status)
      \/ pc = "delta" /\ Relist /\ UNCHANGED <<token, known>>
      \/ pc \in {"put", "delete", "probe"} /\ Deleted("refused")
    BY DEF TokenInvalid, Left, Fails
<1>3. CASE \E status : FailWith(status)
    BY <1>1, <1>3, DroppedStep DEF FailWith
<1>4. CASE pc = "delta" /\ Relist /\ UNCHANGED <<token, known>>
    BY <1>1, <1>4, RelistStep
<1>5. CASE pc \in {"put", "delete", "probe"} /\ Deleted("refused")
    BY <1>1, <1>5, QuietStep DEF Deleted, scan, Scanned, Discovering, Listing
<1> QED
    BY <1>2, <1>3, <1>4, <1>5

LEMMA InitStep == Init => IInv /\ Port!Init
<1> SUFFICES ASSUME Init PROVE IInv /\ Port!Init
    OBVIOUS
<1>1. \A h \in Href : Order[h] \in Nat /\ Order[h] # 0 /\ Order[h] <= FirstRev
    BY CardDavAssumptions
<1>2. FirstRev \in Nat /\ FirstRev # 0
    BY CardDavAssumptions
<1>3. NoToken.at = 0
    BY DEF NoToken
<1>4. Typed /\ Dated
    BY <1>1, <1>2, <1>3 DEF Init, Typed, Dated, NothingSeen
<1>5. ~ Scanned
    BY DEF Init, Scanned
<1>6. Fresh /\ Scan /\ Delta /\ Stored
    BY <1>5 DEF Init, Fresh, Scan, Delta, Stored
<1>7. Port!Init
    BY <1>4, <1>5 DEF Init, Port!Init, Book, ThisListing, Kept, Etag, Typed
<1> QED
    BY <1>4, <1>6, <1>7 DEF IInv

LEMMA NextStep ==
    ASSUME IInv, Tagless = {}, [Next]_vars
    PROVE  IInv' /\ Step
<1>1. CASE Change
    BY <1>1, WrittenStep DEF Change, scan, work, IInv, Typed
<1>2. CASE Wake \/ Select \/ StoreIdle \/ Finish
    BY <1>2, WakeStep, SelectStep, StoreIdleStep, FinishStep
<1>3. CASE SyncCollection
    BY <1>3, SyncCollectionStep
<1>4. CASE Propfind
    BY <1>4, ListedStep DEF Propfind, server, Cards
<1>5. CASE Put \/ Delete
    BY <1>5, PutStep
<1>6. CASE Move \/ Answered \/ NoPrincipal \/ Redirected \/ Want \/ Multiget \/ Choose \/ Probe
    BY <1>6, OtherStep
<1>7. CASE TokenInvalid \/ Left \/ Fails
    BY <1>7, FaultStep
<1>8. CASE UNCHANGED vars
    BY <1>8, QuietStep DEF vars, server, scan, work, Cards, Scanned, IInv, Typed
<1> QED
    BY <1>1, <1>2, <1>3, <1>4, <1>5, <1>6, <1>7, <1>8 DEF Next, Daemon

\* However a listing is cut into pages, and whatever changes between them, is
\* moved, or fails, the sync cycle sees the collection as it was at one
\* instant, and a token that knows of every change since (sync::changes_since).
THEOREM ListingsAreAtomic == ASSUME Tagless = {} PROVE Spec => Atomic
<1>1. IInv /\ [Next]_vars => IInv' /\ [Port!Next]_(Port!vars)
    BY NextStep DEF Step
<1> QED
    BY InitStep, <1>1, PTL DEF Spec, Atomic, Port!Spec

\* No change of a card goes unnoticed, through any number of cycles
\* (port.rs: "The returned delta is complete").
THEOREM NothingIsMissed == ASSUME Tagless = {} PROVE Spec => []NothingMissed
<1>1. IInv /\ [Next]_vars => IInv'
    BY NextStep
<1>2. IInv => NothingMissed
    BY DEF IInv, Typed, Dated, Scan, Stored, NothingMissed, Port!NothingMissed, Port!True,
           ThisListing, Kept, Book, Moved
<1> QED
    BY InitStep, <1>1, <1>2, PTL DEF Spec

(***************************************************************************)
(* Cards the multiget does not find.                                       *)
(***************************************************************************)
LEMMA CardEntry ==
    ASSUME Typed, NEW h \in Href, NEW name \in Spelling, Named(h, name)
    PROVE  /\ Entry(Response(name, None, {Propstat(200, at[h], at[h])})).path = h
           /\ Classify(Entry(Response(name, None, {Propstat(200, at[h], at[h])}))).etag = at[h]
<1> DEFINE p == Propstat(200, at[h], at[h])
           r == Response(name, None, {p})
           good == {q \in r.propstats : q.code \in Succeeds}
<1>1. r.href = name /\ r.status = None /\ r.propstats = {p} /\ p.code = 200 /\ p.etag = at[h] /\ p.data = at[h]
    BY DEF Response, Propstat
<1>2. 200 \in Succeeds /\ at[h] \in Nat /\ at[h] # None /\ None # 404 /\ None # 410
    BY CardDavAssumptions DEF Succeeds, Typed
<1>3. good = {p}
    BY <1>1, <1>2
<1>4. {q.etag : q \in good} = {at[h]} /\ {q.data : q \in good} = {at[h]}
    <2> HIDE DEF p, good
    <2>1. {q.etag : q \in good} = {at[h]}
        BY <1>1, <1>3
    <2>2. {q.data : q \in good} = {at[h]}
        BY <1>1, <1>3
    <2> QED
        BY <2>1, <2>2
<1>5. Value({at[h]}) = at[h]
    BY <1>2, ValueOfOne
<1>6. Entry(r).path = h /\ Entry(r).status = None /\ Entry(r).etag = at[h] /\ Entry(r).data = at[h]
    <2>1. Entry(r).etag = Value({q.etag : q \in good}) /\ Entry(r).data = Value({q.data : q \in good})
        BY DEF Entry
    <2>2. Entry(r).path = Canonical[r.href] /\ Entry(r).status = r.status
        BY DEF Entry
    <2>3. Entry(r).etag = at[h] /\ Entry(r).data = at[h]
        <3> HIDE DEF r, p, good
        <3> QED
            BY <1>4, <1>5, <2>1
    <2>4. Entry(r).path = h /\ Entry(r).status = None
        <3> HIDE DEF r, p, good
        <3> QED
            BY <1>1, <2>2 DEF Named
    <2> QED
        BY <2>3, <2>4
<1> HIDE DEF r
<1>7. Classify(Entry(r)) = [etag |-> Entry(r).etag, error |-> None]
    BY <1>2, <1>6 DEF Classify
<1>8. Classify(Entry(r)).etag = at[h]
    BY <1>6, <1>7
<1> QED
    BY <1>6, <1>8 DEF r

\* A card asked for and answered as gone is not there.
LEMMA AnswerOfCards ==
    ASSUME Typed, Dated, NEW asked \in SUBSET Href, NEW name \in Names(Href), NEW h \in asked, h \in there
    PROVE  Answer(CardBody(asked, name), asked)[h].etag # 0
<1> DEFINE body == CardBody(asked, name)
           card(g) == Response(name[g], None, {Propstat(200, at[g], at[g])})
           about == {e \in Entries(body) \ Stray(body, asked) : e.path = h}
<1>1. \A g \in Href : /\ name[g] \in Spelling /\ Named(g, name[g])
                      /\ Entry(card(g)).path = g /\ Classify(Entry(card(g))).etag = at[g]
    <2>1. \A g \in Href : name[g] \in Spelling /\ Named(g, name[g])
        BY DEF Names
    <2> QED
        BY <2>1, CardEntry
<1>2. Entries(body) = {Entry(card(g)) : g \in asked \cap there}
    BY DEF Entries, CardBody
<1>3. h \in Href /\ Entry(card(h)) \in about
    BY <1>1, <1>2 DEF Stray
<1>4. about = {Entry(card(h))}
    <2>1. ASSUME NEW e \in about PROVE e = Entry(card(h))
        <3>1. e \in Entries(body) /\ e.path = h
            OBVIOUS
        <3> HIDE DEF card, about, body
        <3>2. PICK g \in asked \cap there : e = Entry(card(g))
            BY <1>2, <3>1
        <3>3. g \in Href
            OBVIOUS
        <3>4. g = h
            BY <1>1, <3>1, <3>2, <3>3
        <3> QED
            BY <3>2, <3>4
    <2> HIDE DEF card, about, body
    <2> QED
        BY <1>3, <2>1
<1>5. Answer(body, asked)[h] = Classify(CHOOSE e \in about : TRUE)
    BY <1>4 DEF Answer
<1>6. at[h] # 0
    BY <1>3 DEF Dated
<1> HIDE DEF about, card
<1>7. (CHOOSE e \in about : TRUE) = Entry(card(h))
    BY <1>4
<1> QED
    BY <1>1, <1>3, <1>5, <1>6, <1>7

\* What is asked for was listed, and nothing is found before.
Asked ==
    /\ pc \notin ScannedSteps \ {"want"} => found = NothingSeen
    /\ pc = "fetch" => todo \subseteq Listed

LEMMA FoundReset ==
    ASSUME IInv, found' = NothingSeen
    PROVE  MissingIsGone'
<1>1. \A h \in Href : found'[h] = None
    BY DEF NothingSeen
<1>2. None # 0
    BY CardDavAssumptions
<1> QED
    BY <1>1, <1>2 DEF MissingIsGone

LEMMA FoundKept ==
    ASSUME IInv, MissingIsGone, UNCHANGED <<supports, found, sent>>,
           \A h \in Href : at'[h] = at[h] \/ (at'[h] \in Nat /\ at'[h] > rev)
    PROVE  MissingIsGone'
BY DEF MissingIsGone, Moved, IInv, Typed, Dated

LEMMA MultigetFinds ==
    ASSUME IInv, Asked, MissingIsGone, Multiget
    PROVE  Asked' /\ MissingIsGone'
<1>1. PICK asked \in SUBSET todo, name \in Names(Href) :
          /\ found' = [h \in Href |->
                          IF h \in asked THEN Answer(CardBody(asked, name), asked)[h].etag ELSE found[h]]
          /\ todo' = todo \ asked
    BY DEF Multiget
<1>2. /\ pc = "fetch" /\ UNCHANGED <<there, at, rev, supports, sent, merged, pc>>
    BY DEF Multiget, server, scan
<1>3. todo \subseteq Listed /\ Listed \subseteq Href
    BY <1>2 DEF Asked, Listed
<1>4. Asked'
    BY <1>1, <1>2, <1>3 DEF Asked, Listed, Entry0, ScannedSteps
<1>5. ASSUME NEW h \in Href, found'[h] = 0, supports
      PROVE  h \in Moved(sent)
    <2>1. CASE h \notin asked
        BY <1>1, <1>5, <2>1 DEF MissingIsGone
    <2>2. CASE h \in asked
        <3>1. h \notin there
            BY <1>1, <1>3, <1>5, <2>2, AnswerOfCards DEF IInv
        <3>2. Entry0(h) # 0 /\ Etag(h) = 0
            BY <1>3, <2>2, <3>1 DEF Listed, Etag
        <3>3. Scanned
            BY <1>2 DEF Scanned
        <3>4. at[h] \in Nat /\ sent \in Nat /\ ~ (at[h] <= sent)
            BY <3>2, <3>3 DEF IInv, Scan, Typed
        <3> QED
            BY <3>4 DEF Moved
    <2> QED
        BY <2>1, <2>2
<1>6. MissingIsGone'
    BY <1>2, <1>5 DEF MissingIsGone, Moved
<1> QED
    BY <1>4, <1>6

LEMMA IdleFinds ==
    ASSUME IInv, Idle
    PROVE  Asked' /\ MissingIsGone'
BY FoundReset DEF Idle, Asked

LEMMA OthersFind ==
    ASSUME IInv, Asked, MissingIsGone, UNCHANGED <<found, sent, merged, supports>>,
           \A h \in Href : at'[h] = at[h] \/ (at'[h] \in Nat /\ at'[h] > rev),
           pc' \notin ScannedSteps \ {"want"} => pc \notin ScannedSteps \ {"want"},
           pc' = "fetch" => todo' \subseteq Listed
    PROVE  Asked' /\ MissingIsGone'
BY FoundKept DEF Asked, Listed, Entry0

LEMMA TouchLater ==
    ASSUME IInv, NEW h \in Href, Touch(h)
    PROVE  supports' = supports /\ \A g \in Href : at'[g] = at[g] \/ (at'[g] \in Nat /\ at'[g] > rev)
BY DEF Touch, IInv, Typed

LEMMA NextFinds ==
    ASSUME IInv, Asked, MissingIsGone, [Next]_vars
    PROVE  Asked' /\ MissingIsGone'
<1>1. CASE Change
    BY <1>1, TouchLater, OthersFind DEF Change, Writes, Removes, scan, work, Asked, IInv, Typed
<1>2. CASE Move \/ UNCHANGED vars
    BY <1>2, OthersFind DEF Move, vars, server, scan, work, Asked
<1>3. CASE pc \in Discovering \cup {"wait"} /\ (Wake \/ Answered \/ NoPrincipal \/ Select)
    <2>1. found = NothingSeen /\ UNCHANGED found /\ pc' \notin ScannedSteps
        BY <1>3 DEF Wake, Answered, NoPrincipal, Goto, Select, work, Asked, ScannedSteps, Discovering
    <2> QED
        BY <2>1, FoundReset DEF Asked, ScannedSteps
<1>4. CASE Redirected
    BY <1>4, IdleFinds, OthersFind DEF Redirected, FailWith, server, scan, work, Asked
<1>5. CASE SyncCollection \/ Propfind \/ TokenInvalid
    <2>1. CASE \E status : FailWith(status)
        BY <2>1, IdleFinds DEF FailWith
    <2>2. CASE UNCHANGED work /\ pc \in Listing /\ pc' \in Listing \cup {"idle", "want"}
        <3>1. found = NothingSeen /\ UNCHANGED found /\ pc' \notin ScannedSteps \ {"want"}
            BY <2>2 DEF work, Asked, Listing, ScannedSteps
        <3> QED
            BY <3>1, FoundReset DEF Asked, ScannedSteps
    <2> QED
        BY <1>5, <2>1, <2>2 DEF SyncCollection, Continue, Complete, Propfind, TokenInvalid, Relist, Listing
<1>6. CASE StoreIdle \/ Finish \/ Left
    BY <1>6, IdleFinds DEF StoreIdle, Finish, Left, FailWith
<1>7. CASE Want
    <2>1. found = NothingSeen /\ UNCHANGED found /\ pc' = "fetch" /\ todo' \in SUBSET Listed
        BY <1>7 DEF Want, Asked, ScannedSteps
    <2>2. UNCHANGED merged
        BY <1>7 DEF Want, scan
    <2> QED
        BY <2>1, <2>2, FoundReset DEF Asked, ScannedSteps, Listed, Entry0
<1>8. CASE Multiget
    BY <1>8, MultigetFinds
<1>9. CASE Choose \/ Probe
    BY <1>9, OthersFind DEF Choose, Probe, Deleted, server, scan, work, ScannedSteps
<1>10. CASE Put \/ Delete
    <2>1. op.href \in Href /\ pc \in {"put", "delete"}
        BY <1>10 DEF Put, Delete, IInv, Typed
    <2>2. supports' = supports /\ \A g \in Href : at'[g] = at[g] \/ (at'[g] \in Nat /\ at'[g] > rev)
        BY <1>10, <2>1, TouchLater DEF Put, Delete, Writes, Removes, server
    <2>3. UNCHANGED <<found, sent, merged>> /\ pc' \in {"finish", "probe"}
        BY <1>10 DEF Put, Delete, Deleted, Probing, scan, work
    <2> QED
        BY <2>1, <2>2, <2>3, OthersFind DEF ScannedSteps
<1>11. CASE Fails
    <2>1. CASE \E status : FailWith(status)
        BY <2>1, IdleFinds DEF FailWith
    <2>2. CASE pc \in {"put", "delete", "probe"} /\ Deleted("refused")
        BY <1>11, <2>2, OthersFind DEF Fails, Deleted, server, scan, work, ScannedSteps
    <2> QED
        BY <1>11, <2>1, <2>2 DEF Fails
<1> QED
    BY <1>1, <1>2, <1>3, <1>4, <1>5, <1>6, <1>7, <1>8, <1>9, <1>10, <1>11
       DEF Next, Daemon, Wake, Answered, NoPrincipal, Select, Discovering

\* A listed card the multiget does not find was changed after the listing,
\* whatever the batches and the spellings (multiget.rs).
THEOREM MissingCardsAreGone == ASSUME Tagless = {} PROVE Spec => []MissingIsGone
<1>1. Init => IInv /\ Asked /\ MissingIsGone
    <2> SUFFICES ASSUME Init PROVE IInv /\ Asked /\ MissingIsGone
        OBVIOUS
    <2>1. found = NothingSeen /\ pc = "wait"
        BY DEF Init
    <2> QED
        BY <2>1, InitStep, CardDavAssumptions DEF Asked, MissingIsGone, NothingSeen
<1>2. IInv /\ Asked /\ MissingIsGone /\ [Next]_vars => (IInv /\ Asked /\ MissingIsGone)'
    BY NextStep, NextFinds
<1> QED
    BY <1>1, <1>2, PTL DEF Spec

(***************************************************************************)
(* Deletions and tokens.                                                   *)
(***************************************************************************)

\* A DELETE that succeeds leaves no card (write::delete).
THEOREM DeletedCardsAreGone == Spec => DeletedIsGone
<1>1. ASSUME [Next]_vars, Here, pc \in {"delete", "probe"}, pc' = "finish", done' = "deleted"
      PROVE  op.href \notin there'
    <2>1. CASE Delete
        BY <1>1, <2>1 DEF Delete, Removes, Probing, server
    <2>2. CASE Probe
        BY <1>1, <2>2 DEF Probe, Deleted, server
    <2>3. ~ (Change \/ Move \/ UNCHANGED vars)
        BY <1>1 DEF Change, Move, vars
    <2>4. ~ (Wake \/ Answered \/ NoPrincipal \/ Redirected \/ Select \/ SyncCollection \/ Propfind
               \/ StoreIdle \/ Want \/ Multiget \/ Choose \/ Put \/ Finish \/ Left \/ TokenInvalid)
        BY <1>1 DEF Wake, Answered, NoPrincipal, Redirected, Select, SyncCollection, Propfind, StoreIdle,
              Want, Multiget, Choose, Put, Finish, Left, TokenInvalid, Discovering, Listing
    <2>5. ~ Fails
        BY <1>1 DEF Fails, Deleted, FailWith, Idle
    <2> QED
        BY <1>1, <2>1, <2>2, <2>3, <2>4, <2>5 DEF Next, Daemon
<1> QED
    BY <1>1, PTL DEF Spec, DeletedIsGone

\* The stored token is of the collection the daemon is bound to.
Homed ==
    /\ bound # None /\ token # NoToken => token.of = bound
    /\ TokensStayHome

LEMMA NextHomed ==
    ASSUME Homed, [Next]_vars
    PROVE  Homed'
<1>1. CASE Wake
    BY <1>1 DEF Wake, Homed, TokensStayHome
<1>2. CASE Select
    <2>1. pc' = "wait" /\ bound' = url /\ token' = IF token.of = url THEN token ELSE NoToken
        BY <1>2 DEF Select, Bind
    <2>2. token'.of = url \/ token' = NoToken
        BY <2>1
    <2> QED
        BY <2>1, <2>2 DEF Homed, TokensStayHome
<1>3. CASE StoreIdle \/ Finish
    <2>1. pc' = "wait" /\ bound' = bound /\ (token' = [of |-> bound, at |-> sent] \/ token' = NoToken)
        BY <1>3 DEF StoreIdle, Finish, Idle
    <2>2. [of |-> bound, at |-> sent].of = bound
        OBVIOUS
    <2> QED
        BY <2>1, <2>2 DEF Homed, TokensStayHome
<1>4. CASE UNCHANGED <<token, bound>> /\ (pc' = "delta" => pc = "delta")
    BY <1>4 DEF Homed, TokensStayHome
<1>5. CASE \E status : FailWith(status)
    BY <1>5 DEF FailWith, Idle, Forgetting, Homed, TokensStayHome
<1>6. Redirected \/ SyncCollection \/ TokenInvalid \/ Left \/ Fails =>
          \/ \E status : FailWith(status)
          \/ UNCHANGED <<token, bound>> /\ (pc' = "delta" => pc = "delta")
    BY DEF Redirected, SyncCollection, Continue, Complete, Relist, TokenInvalid, Left, Fails, Deleted
<1>7. Change \/ Move \/ Answered \/ NoPrincipal \/ Propfind \/ Want \/ Multiget \/ Choose \/ Put \/ Delete
          \/ Probe \/ UNCHANGED vars
          => UNCHANGED <<token, bound>> /\ (pc' = "delta" => pc = "delta")
    BY DEF Change, Move, Answered, NoPrincipal, Goto, Propfind, Want, Multiget, Choose, Put, Delete, Deleted,
           Probing, Probe, vars
<1> QED
    BY <1>1, <1>2, <1>3, <1>4, <1>5, <1>6, <1>7 DEF Next, Daemon

\* A token is only ever sent to the collection it is of, however often the
\* collection moves (upsert_discovery).
THEOREM TokensAreSentHome == Spec => []TokensStayHome
<1>1. Init => Homed
    BY DEF Init, Homed, TokensStayHome
<1>2. Homed /\ [Next]_vars => Homed'
    BY NextHomed
<1>3. Homed => TokensStayHome
    BY DEF Homed
<1> QED
    BY <1>1, <1>2, <1>3, PTL DEF Spec

=============================================================================
