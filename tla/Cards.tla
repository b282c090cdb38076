-------------------------------- MODULE Cards --------------------------------
(***************************************************************************)
(* One contact as the two servers hold it, text by text.  A server may     *)
(* write a card differently whenever it saves it; people edit it in any    *)
(* client; the daemon looks at the hash of its content, pushes text, and   *)
(* must neither take a server's rewriting for an edit nor miss an edit.    *)
(* Requests, ETags and failures are in SyncCycle; photos that are copied   *)
(* on their own account in PhotoCycle.                                     *)
(***************************************************************************)
EXTENDS VCards

CONSTANTS
    Pairs,        \* the texts a run may begin with: records of one text a side,
                  \* <<>> where the side does not hold the contact
    Aliases,      \* Aliases[old]: the UID that pairing put in the place of old
    Labels,       \* the group labels servers number groups with
    Winners,      \* the sides that may be configured to win a conflict
    NewName, NewPhoto,         \* what people may write
    MaxSaves, MaxEdits, MaxUpgrades,  \* bounds on what servers and people do, on
    MaxEvents                         \* releases of the program, and on all three

ASSUME CardsAssumption ==
    /\ Winners \subseteq {"icloud", "fastmail"}
    /\ {MaxSaves, MaxEdits, MaxUpgrades, MaxEvents} \subseteq Nat

VARIABLES
    text,     \* text[s]: the card on side s
    row,      \* the card last synced and its hash, or None
    photo,    \* the photo people mean side s to have
    edited,   \* the sides edited since the daemon last looked
    winner,   \* the side that wins, throughout a run
    budget

vars == <<text, row, photo, edited, winner, budget>>

Side == {"icloud", "fastmail"}
Other(s) == IF s = "icloud" THEN "fastmail" ELSE "icloud"

Init ==
    /\ text \in Pairs
    /\ row = None
    /\ photo = [s \in Side |-> PhotoOf(text[s])]
    /\ edited = {}
    /\ winner \in Winners
    /\ budget = [saves |-> MaxSaves, edits |-> MaxEdits, upgrades |-> MaxUpgrades, events |-> MaxEvents]

\* An event of one kind, within the bounds.
Spend(kind) ==
    /\ budget[kind] > 0 /\ budget.events > 0
    /\ budget' = [budget EXCEPT ![kind] = @ - 1, !.events = @ - 1]

(***************************************************************************)
(* Servers.  Each operator is the set of texts one rewriting may give.     *)
(***************************************************************************)
\* The properties between BEGIN and VERSION, and END.
Inner(raw) == {Properties(raw)[i] : i \in 3 .. Len(Properties(raw)) - 1}

Span(raw, p) == SubSeq(raw, p.first, p.last)

WithHead(raw, p, head) == [raw EXCEPT ![p.first].head = head]

\* Two neighbours change places.
Reordered(raw) ==
    {Replace(Replace(raw, q, Span(raw, p)), p, Span(raw, q)) :
        <<p, q>> \in {<<p, q>> \in Inner(raw) \X Inner(raw) : q.first = p.last + 1}}

GroupsOf(raw) == {p.head.group : p \in Inner(raw)} \ {None}

\* A group gets another label, or two groups change theirs.
Relabelled(raw) ==
    LET Put(new) == [i \in DOMAIN raw |->
            IF raw[i].head = None THEN raw[i]
            ELSE IF raw[i].head.group = None THEN raw[i]
            ELSE [raw[i] EXCEPT !.head.group = new[@]]]
    IN  {Put(new) : new \in {new \in [GroupsOf(raw) -> Labels] :
            \A g, h \in GroupsOf(raw) : Upper(new[g]) = Upper(new[h]) => Upper(g) = Upper(h)}}

\* A value is folded, or joined on one line, with perhaps a blank one left.
Refolded(raw) ==
    {Replace(raw, p, Fold(p.head, p.value, EndingOf(raw, p))) :
        p \in {p \in Inner(raw) : Len(p.value) > 1}}
    \cup {Replace(raw, p, <<Line("first", p.head, p.value, EndingOf(raw, p)),
                            Line("blank", None, <<>>, EndingOf(raw, p))>>) : p \in Inner(raw)}

\* Names and the escaped newline in another spelling, dates without `-`, a
\* TYPE list as one parameter, or in another order.
Respelled(raw) ==
    {WithHead(raw, p, [p.head EXCEPT !.name = Upper(@)]) : p \in Inner(raw)}
    \cup {[raw EXCEPT ![p.first].text = CanonicalValue(@)] : p \in Inner(raw)}
    \cup {[raw EXCEPT ![p.first].text = CanonicalDate(@), ![p.first].head.params = <<>>] :
            p \in {p \in Inner(raw) : Is(p, "BDAY")}}
    \cup {WithHead(raw, p, [p.head EXCEPT !.params = <<Param("type", ParamValues(p, "TYPE"))>>]) :
            p \in {p \in Inner(raw) : Is(p, "TEL")}}
    \cup {WithHead(raw, p, [p.head EXCEPT !.params = Reverse(@)]) : p \in Inner(raw)}

\* A new REV, and no property that the server does not keep.
Stamped(raw) ==
    {Replace(raw, p, <<Line("first", p.head, <<stamp>>, EndingOf(raw, p))>>) :
        p \in ToSet(Named(raw, "REV")), stamp \in {"noon", "midnight"}}
    \cup {Cut(raw, {p \in Inner(raw) : Upper(p.head.name) \in ServerDropped})}

\* A bound: the texts of Pairs are as the servers wrote them until then.
ServerSaves(s) ==
    /\ text[s] # <<>> /\ row # None
    /\ Spend("saves")
    /\ \E new \in Reordered(text[s]) \cup Relabelled(text[s]) \cup Refolded(text[s])
                  \cup Respelled(text[s]) \cup Stamped(text[s]) :
            text' = [text EXCEPT ![s] = new]
    /\ UNCHANGED <<row, photo, edited, winner>>

(***************************************************************************)
(* People.                                                                 *)
(***************************************************************************)
\* Another name, one line less or twice, another type of number, a label
\* moved from one line to another.
Edits(raw) ==
    {Replace(raw, p, <<Line("first", p.head, NewName, EndingOf(raw, p))>>) :
        p \in {p \in ToSet(Named(raw, "FN")) : p.value # NewName}}
    \cup {Cut(raw, {p}) : p \in {p \in Inner(raw) : Is(p, "TEL") \/ Is(p, "X-ABLABEL")}}
    \cup {Replace(raw, p, Span(raw, p) \o Span(raw, p)) : p \in ToSet(Named(raw, "TEL"))}
    \cup {WithHead(raw, p, [p.head EXCEPT !.params = <<Param("TYPE", <<"FAX">>)>>]) :
            p \in ToSet(Named(raw, "TEL"))}
    \cup {WithHead(WithHead(raw, p, [p.head EXCEPT !.group = q.head.group]),
                   q, [q.head EXCEPT !.group = p.head.group]) :
            <<p, q>> \in {<<p, q>> \in ToSet(Named(raw, "X-ABLABEL")) \X ToSet(Named(raw, "X-ABLABEL")) :
                            p.first < q.first}}

MayEdit(s) == text[s] # <<>> /\ Spend("edits")

Edit(s) ==
    /\ MayEdit(s)
    /\ \E new \in Edits(text[s]) : text' = [text EXCEPT ![s] = new]
    /\ edited' = edited \cup {s}
    /\ UNCHANGED <<row, photo, winner>>

EditPhoto(s) ==
    /\ MayEdit(s)
    /\ text' = [text EXCEPT ![s] = WithInlinePhoto(@, NewPhoto)]
    /\ photo' = [photo EXCEPT ![s] = <<"inline", NewPhoto>>]
    /\ UNCHANGED <<row, edited, winner>>

(***************************************************************************)
(* The daemon.                                                             *)
(***************************************************************************)
\* A row keeps the card as it was pushed and its hash (SyncedCard::recorded).
Synced(raw) == [card |-> Recorded(raw), hash |-> ContentHash(raw)]

\* A new release changes CANONICAL_VERSION: hashes of before equal no hash of
\* now.
Outdated == None

Upgrade ==
    /\ row # None
    /\ Spend("upgrades")
    /\ row' = [row EXCEPT !.hash = Outdated]
    /\ UNCHANGED <<text, photo, edited, winner>>

Stale == row.hash = Outdated

\* Baseline::of: the hash the cards are compared with.
BaselineHash == IF Stale THEN ContentHash(row.card) ELSE row.hash

HashWithoutUid(raw) == CanonicalForm(raw, SyncHashWithoutUid)

\* The Fastmail card takes the iCloud card's UID (pairing, passes 1 to 3).
Pair ==
    /\ row = None /\ text["icloud"] # <<>>
    /\ LET i == text["icloud"]
           f == text["fastmail"]
           uid == UidOf(i)
           taken == IF UidOf(f) = uid THEN f ELSE WithUid(f, uid)
           won == IF winner = "icloud" THEN i ELSE taken
       IN  IF HashWithoutUid(i) = HashWithoutUid(f)
           THEN /\ text' = [text EXCEPT !["fastmail"] = taken]
                /\ row' = Synced(i)
           ELSE /\ UidOf(f) = uid \/ IsMatch(MatchKeys(i), MatchKeys(f))
                /\ text' = IF winner = "icloud" THEN [icloud |-> i, fastmail |-> PushBody(i, f)]
                           ELSE [icloud |-> PushBody(taken, i), fastmail |-> taken]
                /\ row' = Synced(won)
    /\ edited' = {}
    /\ UNCHANGED <<photo, winner, budget>>

Changed(s) == ContentHash(text[s]) # BaselineHash

\* A contact changed on one side, or on both; nothing is written where both
\* now hold the same.
Push ==
    /\ row # None
    /\ \E s \in Side :
        /\ Changed(s)
        /\ Changed(Other(s)) => s = winner
        /\ text' = IF ContentHash(text[s]) = ContentHash(text[Other(s)]) THEN text
                   ELSE [text EXCEPT ![Other(s)] = PushBody(text[s], @)]
        /\ row' = Synced(text[s])
    /\ edited' = {}
    /\ UNCHANGED <<photo, winner, budget>>

\* Baseline::rehash: a row no side differs from gets its hash anew.
Rehash ==
    /\ row # None
    /\ Stale /\ \A s \in Side : ~ Changed(s)
    /\ row' = Synced(row.card)
    /\ UNCHANGED <<text, photo, edited, winner, budget>>

\* The contact's photo goes to the other side, within the card.
CopyPhoto ==
    /\ row # None
    /\ \E s \in Side :
        /\ PhotoOf(text[s]) # None /\ PhotoOf(text[Other(s)]) # PhotoOf(text[s])
        /\ PhotoOf(text[s])[1] = "inline"
        /\ text' = [text EXCEPT ![Other(s)] = WithInlinePhoto(@, PhotoOf(text[s])[2])]
        /\ photo' = [photo EXCEPT ![Other(s)] = PhotoOf(text[s])]
    /\ UNCHANGED <<row, edited, winner, budget>>

\* A contact of Fastmail alone is copied; a group that lists UIDs pairing
\* replaced is rewritten there first.
Copy ==
    /\ row = None /\ text["icloud"] = <<>>
    /\ LET f == text["fastmail"]
           rewritten == IF IsGroup(f) THEN WithMemberUids(f, Aliases) ELSE f
       IN  /\ text' = [fastmail |-> rewritten, icloud |-> Recorded(rewritten)]
           /\ row' = Synced(rewritten)
    /\ edited' = {}
    /\ UNCHANGED <<photo, winner, budget>>

Next ==
    \/ \E s \in Side : ServerSaves(s) \/ Edit(s) \/ EditPhoto(s)
    \/ Pair \/ Copy \/ Push \/ CopyPhoto \/ Upgrade \/ Rehash

Spec == Init /\ [][Next]_vars

(***************************************************************************)
(* Properties.                                                             *)
(***************************************************************************)
\* Whatever servers, people and the daemon did to a text, it is a card: the
\* daemon's own rewriting never gives one that VCard::parse would refuse
\* (the expects of rewrite.rs and photo.rs).
AlwaysParses == \A s \in Side : text[s] = <<>> \/ Parses(text[s])

\* A side nobody edited since the daemon looked is not taken for edited,
\* however its server has written the card meanwhile, the daemon's push
\* included, and although a new release hashes cards in another way
\* (canonical_form, SyncedCard::recorded, Baseline::of).
EchoIsQuiet == row # None => \A s \in Side \ edited : ~ Changed(s)

\* An edit always shows: the hash of the content changes with it, and a
\* server's rewriting changes neither the hash nor the keys that pairing and
\* the delete guard compare (match_keys).
OnlyEditsShow ==
    [][\A s \in {s \in Side : text'[s] # text[s]} :
        /\ s \in edited' /\ budget'.edits < budget.edits /\ photo' = photo =>
               ContentHash(text'[s]) # ContentHash(text[s])
        /\ budget'.saves < budget.saves =>
               /\ ContentHash(text'[s]) = ContentHash(text[s])
               /\ MatchKeys(text'[s]) = MatchKeys(text[s])]_vars

\* A side keeps the photo its people gave it, or that was copied there on
\* purpose: no push takes it away or brings another (with_photos_of).
PhotosStay == \A s \in Side : PhotoOf(text[s]) = photo[s]

\* Relinking a group renames the members that have an alias, each once, and
\* nothing else of the card (with_member_uids).
OnlyMembersChange ==
    [][Copy =>
        LET old == text["fastmail"]
            new == text'["fastmail"]
            Rest(raw) == CanonicalForm(raw, {"X-ADDRESSBOOKSERVER-MEMBER"})
        IN  /\ MemberUids(new) = [i \in DOMAIN MemberUids(old) |->
                    IF MemberUids(old)[i] \in DOMAIN Aliases THEN Aliases[MemberUids(old)[i]]
                    ELSE MemberUids(old)[i]]
            /\ Rest(new) = Rest(old)]_vars
=============================================================================
