-------------------------------- MODULE VCards --------------------------------
(***************************************************************************)
(* vCards as text (core/src/contact/vcard): how lines become properties,   *)
(* what of them counts as content, what pairing compares, and how a card   *)
(* is changed without touching the rest of its text.                       *)
(*                                                                         *)
(* A text is a sequence of physical lines.  A "first" line begins a        *)
(* property and carries its head (group, name, parameters); a "fold" line  *)
(* continues the value above it; a "blank" line means nothing; a "junk"    *)
(* line has no colon, or no proper name.  Values are sequences of atoms,   *)
(* the pieces of text that anything here tells apart.                      *)
(***************************************************************************)
EXTENDS Naturals, SequencesExt

CONSTANTS
    Upcase,   \* Upcase[t]: the upper-case form of a token or atom t that has one
    Digits,   \* the atoms of digits
    None

Upper(t) == IF t \in DOMAIN Upcase THEN Upcase[t] ELSE t

Line(kind, head, text, ending) == [kind |-> kind, head |-> head, text |-> text, ending |-> ending]

HeadOf(group, name, params) == [group |-> group, name |-> name, params |-> params]

Param(name, values) == [name |-> name, values |-> values]

(***************************************************************************)
(* Parsing (parser.rs).  A property knows its head and unfolded value, and *)
(* its span: the numbers of its first and last physical line.              *)
(***************************************************************************)
Properties(raw) ==
    LET Read(properties, i) ==
            CASE raw[i].kind = "blank" -> properties
              [] raw[i].kind = "fold" /\ properties # <<>> ->
                    [properties EXCEPT ![Len(properties)] =
                        [@ EXCEPT !.value = @ \o raw[i].text, !.last = i]]
              [] OTHER ->
                    Append(properties, [head |-> raw[i].head, value |-> raw[i].text,
                                        first |-> i, last |-> i])
    IN  FoldLeftDomain(Read, <<>>, raw)

\* Lines that are no property have no head.
Is(p, name) == p.head # None /\ Upper(p.head.name) = name

Named(raw, name) == SelectSeq(Properties(raw), LAMBDA p : Is(p, name))

White == {" ", "CR"}

\* The value without the white space around it.
Trim(value) ==
    LET solid == {i \in DOMAIN value : value[i] \notin White}
    IN  IF solid = {} THEN <<>>
        ELSE SubSeq(value, CHOOSE i \in solid : \A j \in solid : i <= j,
                           CHOOSE i \in solid : \A j \in solid : j <= i)

IsMarker(p, name) ==
    /\ Is(p, name) /\ p.head.group = None
    /\ [i \in DOMAIN Trim(p.value) |-> Upper(Trim(p.value)[i])] = <<"VCARD">>

CheckStructure(properties) ==
    LET ends == {i \in DOMAIN properties : IsMarker(properties[i], "END")}
        versions == SelectSeq(properties, LAMBDA p : Is(p, "VERSION"))
    IN  /\ properties # <<>>
        /\ {i \in DOMAIN properties : IsMarker(properties[i], "BEGIN")} = {1}
        /\ ends = {Len(properties)}
        /\ versions # <<>> /\ Trim(versions[1].value) = <<"3.0">>

UidOf(raw) == Trim(Named(raw, "UID")[1].value)

\* VCard::parse accepts the text.
Parses(raw) ==
    LET properties == Properties(raw) IN
    /\ \A i \in DOMAIN properties : properties[i].head # None
    /\ CheckStructure(properties)
    /\ Named(raw, "UID") # <<>> /\ UidOf(raw) # <<>>

(***************************************************************************)
(* Content (canonical.rs).                                                 *)
(***************************************************************************)
Volatile == {"REV", "PRODID"}

ServerDropped == {"VND-63-SENSITIVE-CONTENT-CONFIG"}

DateProperties == {"BDAY", "ANNIVERSARY"}

CaseInsensitiveParams == {"TYPE", "ENCODING", "VALUE", "CHARSET"}

\* HashOptions, as the names left out beside the volatile ones.
SyncHash == {"PHOTO"}
SyncHashWithoutUid == {"PHOTO", "UID"}

IsExcluded(p, options) == Upper(p.head.name) \in Volatile \cup ServerDropped \cup options

\* Of the escapes, only \N has two spellings.
CanonicalValue(value) ==
    [i \in DOMAIN value |-> IF value[i] = "\\N" THEN "\\n" ELSE value[i]]

\* A date in basic format: without the `-` and `:` that separate its parts.
CanonicalDate(value) ==
    LET time == {i \in DOMAIN value : value[i] = "T"}
        Kept(i) ==
            IF \E j \in time : j < i THEN value[i] # ":"
            ELSE value[i] \notin {"-", "--"} \/ (i = 1 /\ value[i] = "--")
        kept == SelectSeq([i \in DOMAIN value |-> i], Kept)
    IN  IF \A i \in DOMAIN value : value[i] \in Digits \cup {"-", "--", ":", "T", "Z", "+"}
        THEN [n \in DOMAIN kept |-> value[kept[n]]]
        ELSE CanonicalValue(value)

ParamNames(p) ==
    {Upper(q.name) : q \in {q \in ToSet(p.head.params) :
        ~ (/\ Upper(p.head.name) \in DateProperties /\ Upper(q.name) = "VALUE"
           /\ \A v \in ToSet(q.values) : Upper(v) = "DATE")}}

ParamValues(p, name) ==
    FlattenSeq([i \in DOMAIN p.head.params |->
        IF Upper(p.head.params[i].name) = name THEN p.head.params[i].values ELSE <<>>])

CaseInsensitive(name, v) ==
    IF name = "ENCODING" /\ Upper(v) = "BASE64" THEN "B" ELSE Upper(v)

\* Faulty: repeated parameters do not merge.
OneParam(p, name) == CaseInsensitive(name, ParamValues(p, name)[1])

\* Repeated parameters merge; values that ignore case are a set of upper-case
\* words, other values keep their order.
CanonicalParam(p, name) ==
    IF name \in CaseInsensitiveParams
    THEN {CaseInsensitive(name, v) : v \in ToSet(ParamValues(p, name))}
    ELSE ParamValues(p, name)

\* One property without its group.
CanonicalLine(p) ==
    [name |-> Upper(p.head.name),
     params |-> [name \in ParamNames(p) |-> CanonicalParam(p, name)],
     value |-> IF Upper(p.head.name) \in DateProperties THEN CanonicalDate(p.value)
               ELSE CanonicalValue(p.value)]

LinesOf(properties) == ToBag([i \in DOMAIN properties |-> CanonicalLine(properties[i])])

\* Faulty: which line belongs with which is forgotten.
UngroupedForm(raw, options) ==
    LinesOf(SelectSeq(Properties(raw), LAMBDA p : ~ IsExcluded(p, options)))

\* The text that is hashed: lines are sorted, so their order is gone, and
\* groups are numbered by what they hold, so their names are gone.
CanonicalForm(raw, options) ==
    LET kept == SelectSeq(Properties(raw), LAMBDA p : ~ IsExcluded(p, options))
        groups == {Upper(p.head.group) : p \in {p \in ToSet(kept) : p.head.group # None}}
        In(g) == SelectSeq(kept, LAMBDA p : p.head.group # None /\ Upper(p.head.group) = g)
    IN  [lines |-> LinesOf(SelectSeq(kept, LAMBDA p : p.head.group = None)),
         groups |-> ToBag([n \in 1..Len(SetToSeq(groups)) |-> LinesOf(In(SetToSeq(groups)[n]))])]

(***************************************************************************)
(* What pairing and the delete guard compare (identity.rs, text.rs).       *)
(***************************************************************************)
Unescape(value) ==
    LET plain == [n |-> "NEWLINE", comma |-> ",", semicolon |-> ";"]
    IN  [i \in DOMAIN value |->
            CASE value[i] \in {"\\n", "\\N"} -> plain.n
              [] value[i] = "\\," -> plain.comma
              [] value[i] = "\\;" -> plain.semicolon
              [] OTHER -> value[i]]

\* The parts of a structured value, between the `;` that are not escaped.
SplitComponents(value) ==
    LET Cut(parts, atom) ==
            IF atom = ";" THEN Append(parts, <<>>)
            ELSE [parts EXCEPT ![Len(parts)] = Append(@, atom)]
    IN  FoldLeft(Cut, <<<<>>>>, value)

\* Without control characters, and with single spaces.
Collapse(value) ==
    LET printed == Trim(SelectSeq(value, LAMBDA atom : atom \notin {"NEWLINE"}))
        Kept(i) == ~ (printed[i] \in White /\ printed[i - 1] \in White)
        kept == SelectSeq([i \in DOMAIN printed |-> i], LAMBDA i : i = 1 \/ Kept(i))
    IN  [n \in DOMAIN kept |-> printed[kept[n]]]

\* Someone without a name, shown by an email or a phone number.
LooksLikeContactPoint(name) ==
    \/ "@" \in ToSet(name)
    \/ /\ ToSet(name) \cap Digits # {}
       /\ ToSet(name) \subseteq Digits \cup {" ", "+", "-", "(", ")", "."}

\* "Prefix Given Middle Family Suffix".
NameFromN(value) ==
    LET parts == SplitComponents(value)
        Part(i) == IF i \in DOMAIN parts THEN Unescape(parts[i]) \o <<" ">> ELSE <<" ">>
    IN  Collapse(Part(4) \o Part(2) \o Part(3) \o Part(1) \o Part(5))

\* <<>> is no name.
DisplayName(raw) ==
    LET full == SelectSeq([i \in DOMAIN Named(raw, "FN") |->
                    Collapse(Unescape(Named(raw, "FN")[i].value))], LAMBDA v : v # <<>>)
        name == IF full # <<>> THEN full[1]
                ELSE IF Named(raw, "N") # <<>> THEN NameFromN(Named(raw, "N")[1].value) ELSE <<>>
    IN  IF LooksLikeContactPoint(name) THEN <<>> ELSE name

Organization(raw) ==
    IF Named(raw, "ORG") = <<>> THEN <<>>
    ELSE Collapse(Unescape(SplitComponents(Named(raw, "ORG")[1].value)[1]))

LowerCase(value) == [i \in DOMAIN value |-> Upper(value[i])]

\* Digits only, after a leading `+`.
NormalizePhone(value) ==
    LET digits == SelectSeq(value, LAMBDA atom : atom \in Digits)
        plus == Trim(value) # <<>> /\ Trim(value)[1] = "+"
    IN  IF digits # <<>> /\ plus THEN <<"+">> \o digits ELSE digits

MatchKeys(raw) ==
    LET Values(name) == {p.value : p \in ToSet(Named(raw, name))} IN
    [name |-> LowerCase(DisplayName(raw)),
     emails |-> {LowerCase(Trim(Unescape(v))) : v \in Values("EMAIL")} \ {<<>>},
     phones |-> {NormalizePhone(v) : v \in Values("TEL")} \ {<<>>},
     org |-> LowerCase(Organization(raw))]

SharesContactPoint(a, b) == a.emails \cap b.emails # {} \/ a.phones \cap b.phones # {}

HasContactPoints(a) == a.emails # {} \/ a.phones # {}

SameOrg(a, b) ==
    ~ HasContactPoints(a) /\ ~ HasContactPoints(b) /\ a.org # <<>> /\ a.org = b.org

IsMatch(a, b) ==
    /\ a.name # <<>> /\ a.name = b.name
    /\ SharesContactPoint(a, b) \/ SameOrg(a, b)

MayBeSameContact(a, b) ==
    (a.name # <<>> /\ a.name = b.name) \/ SharesContactPoint(a, b) \/ SameOrg(a, b)

(***************************************************************************)
(* Changing a text (rewrite.rs, photo.rs).                                 *)
(***************************************************************************)
\* Every property of `gone` removed with its whole span.
Cut(raw, gone) ==
    LET lines == UNION {p.first .. p.last : p \in gone}
        kept == SelectSeq([i \in DOMAIN raw |-> i], LAMBDA i : i \notin lines)
    IN  [n \in DOMAIN kept |-> raw[kept[n]]]

\* The lines of p replaced by `lines`.
Replace(raw, p, lines) ==
    SubSeq(raw, 1, p.first - 1) \o lines \o SubSeq(raw, p.last + 1, Len(raw))

EndingOf(raw, p) == raw[p.last].ending

\* The UID line written anew, with its group and name and no parameters.
WithUid(raw, uid) ==
    LET p == Named(raw, "UID")[1] IN
    Replace(raw, p, <<Line("first", HeadOf(p.head.group, p.head.name, <<>>), uid, EndingOf(raw, p))>>)

\* A member's UID, and the atoms of the value to keep before it.
Member(p) ==
    LET lead == Cardinality({i \in DOMAIN p.value : \A j \in 1..i : p.value[j] \in White})
        trimmed == Trim(p.value)
    IN  IF Len(trimmed) > 1 /\ Upper(trimmed[1]) = "URN:UUID:"
        THEN [keep |-> lead + 1, uid |-> Tail(trimmed)]
        ELSE None

MemberLines(raw) ==
    SelectSeq(Named(raw, "X-ADDRESSBOOKSERVER-MEMBER"), LAMBDA p : Member(p) # None)

MemberUids(raw) == [i \in DOMAIN MemberLines(raw) |-> Member(MemberLines(raw)[i]).uid]

\* Faulty: aliases are followed one after the other.
Chained(aliases, uid) ==
    IF uid \in DOMAIN aliases /\ aliases[uid] \in DOMAIN aliases
    THEN aliases[aliases[uid]] ELSE IF uid \in DOMAIN aliases THEN aliases[uid] ELSE uid

Renamed(aliases, uid) == IF uid \in DOMAIN aliases THEN aliases[uid] ELSE uid

\* Every member that has an alias named by it, unfolded, all else as it is.
WithMemberUids(raw, aliases) ==
    LET Rewrite(text, p) ==
            LET member == Member(p) IN
            IF member.uid \notin DOMAIN aliases THEN text
            ELSE Replace(text, p, <<Line("first", p.head,
                    SubSeq(p.value, 1, member.keep) \o Renamed(aliases, member.uid),
                    EndingOf(text, p))>>)
    IN  FoldRight(LAMBDA p, text : Rewrite(text, p), MemberLines(raw), raw)

IsGroup(raw) ==
    \E p \in ToSet(Named(raw, "X-ADDRESSBOOKSERVER-KIND")) :
        LowerCase(Trim(p.value)) = <<"GROUP">>

IsEmbeddedPhoto(p) ==
    /\ Is(p, "PHOTO")
    /\ \E q \in ToSet(p.head.params) :
        Upper(q.name) = "ENCODING" /\ \E v \in ToSet(q.values) : Upper(v) \in {"B", "BASE64"}

PhotosIn(raw) == ToSet(Named(raw, "PHOTO"))

WithoutPhotos(raw) == Cut(raw, PhotosIn(raw))

\* Faulty: placed at the end of the text.
AfterEnd(raw, lines) == raw \o lines

\* `lines` placed before the END line.
BeforeEnd(raw, lines) ==
    LET end == Properties(raw)[Len(Properties(raw))] IN
    SubSeq(raw, 1, end.first - 1) \o lines \o SubSeq(raw, end.first, Len(raw))

\* The other card's photo lines, as written there, unless the card has its own.
WithPhotosOf(raw, other) ==
    LET photos == Named(other, "PHOTO")
        lines == FlattenSeq([i \in DOMAIN photos |->
                                SubSeq(other, photos[i].first, photos[i].last)])
    IN  IF photos = <<>> \/ PhotosIn(raw) # {} THEN raw ELSE BeforeEnd(raw, lines)

\* Base64 and addresses, as atoms: the data does not decode, or is no photo.
Undecodable == "not base64"
Address == "https://"

\* What the first photo is; white space in base64 means nothing.
PhotoOf(raw) ==
    LET p == Named(raw, "PHOTO")[1]
        data == SelectSeq(p.value, LAMBDA atom : atom \notin White)
        isUri == \E q \in ToSet(p.head.params) :
                    Upper(q.name) = "VALUE" /\ \E v \in ToSet(q.values) : Upper(v) = "URI"
    IN  CASE Named(raw, "PHOTO") = <<>> -> None
          [] IsEmbeddedPhoto(p) /\ Undecodable \notin ToSet(data) -> <<"inline", data>>
          [] ~ IsEmbeddedPhoto(p) /\ (isUri \/ Trim(p.value)[1] = Address) -> <<"uri", Trim(p.value)>>
          [] OTHER -> <<"unreadable">>

\* A line that is too long, folded after each atom.
Fold(head, text, ending) ==
    [i \in DOMAIN text |->
        IF i = 1 THEN Line("first", head, <<text[i]>>, ending)
        ELSE Line("fold", None, <<text[i]>>, ending)]

\* Every photo replaced by one that is part of the card.
WithInlinePhoto(raw, data) ==
    LET base == WithoutPhotos(raw)
        end == Properties(base)[Len(Properties(base))]
    IN  BeforeEnd(base, Fold(HeadOf(None, "PHOTO", <<Param("ENCODING", <<"b">>)>>), data,
                             IF EndingOf(base, end) = "crlf" THEN "crlf" ELSE "lf"))

(***************************************************************************)
(* What goes to the other side (SyncedCard, plan.rs).                      *)
(***************************************************************************)
Recorded(raw) == WithoutPhotos(raw)

ContentHash(raw) == CanonicalForm(Recorded(raw), SyncHash)

\* Faulty: the target's photos are replaced with the card.
PushRecorded(source, target) == Recorded(source)

\* The bytes to PUT over `target`: its photos stay.
PushBody(source, target) == WithPhotosOf(Recorded(source), target)
=============================================================================
