------------------------------- MODULE Pairing -------------------------------
(***************************************************************************)
(* Pairing the cards no row knows (core/src/sync/pairing.rs): the same     *)
(* UID, then the same content, then the same person by name and contact    *)
(* points; what is left is copied to the other side or skipped.  Pure      *)
(* operators over a set of cards per side; a UID never repeats within one. *)
(***************************************************************************)
EXTENDS Naturals, FiniteSets

CONSTANTS
    Nameless,  \* the name of a card without one
    NoOrg,     \* the company of a card without one
    Winner     \* CARDIGAN_CONFLICT_WINNER

Side == {"icloud", "fastmail"}

Other(s) == IF s = "icloud" THEN "fastmail" ELSE "icloud"

ASSUME WinnerAssumption == Winner \in Side

(***************************************************************************)
(* What pairing compares of a card: its content, which the canonical hash  *)
(* without UID and photos stands for, is a record of a name, the emails    *)
(* and phones ("points"), a company, group members and the rest.           *)
(***************************************************************************)
Named(c) == c.content.name # Nameless

SameContent(c, d) == c.content = d.content

SameName(c, d) == Named(c) /\ c.content.name = d.content.name

SharePoint(c, d) == c.content.points \cap d.content.points # {}

\* MatchKeys::is_match: one name, and a shared contact point or, where
\* neither has any, one company.
IsMatch(c, d) ==
    /\ SameName(c, d)
    /\ IF c.content.points = {} /\ d.content.points = {}
       THEN c.content.org # NoOrg /\ c.content.org = d.content.org
       ELSE SharePoint(c, d)

(***************************************************************************)
(* The passes.  A match is a pair <<iCloud card, Fastmail card>>.          *)
(***************************************************************************)
Candidates(U) == U["icloud"] \X U["fastmail"]

\* Faulty: one direction is enough.
OnlyMatch(M) == {m \in M : \A n \in M : n[1] = m[1] => n = m}

\* Unique in both directions: neither card has another match.
Mutual(M) == {m \in M : \A n \in M : (n[1] = m[1] \/ n[2] = m[2]) => n = m}

\* The card of side s in a match.
End(s, m) == m[IF s = "icloud" THEN 1 ELSE 2]

On(s, M) == {End(s, m) : m \in M}

\* The cards of side s, of those in U[s], that M pairs with none.
Left(U, M) == [s \in Side |-> U[s] \ On(s, M)]

UidPairs(U) == {m \in Candidates(U) : m[1].uid = m[2].uid}

ContentMatches(U) == {m \in Candidates(U) : SameContent(m[1], m[2])}

IdentityMatches(U) == {m \in Candidates(U) : IsMatch(m[1], m[2])}

(***************************************************************************)
(* What becomes of the cards no pass paired (settle_side).  L[s]: those    *)
(* cards; K[s]: every card s is known to hold; contested: the cards that   *)
(* matched by content but not uniquely.                                    *)
(***************************************************************************)

\* Neither card has a name, and they share an email or phone.
NamelessMatch(c, d) == ~ Named(c) /\ ~ Named(d) /\ SharePoint(c, d)

NamelessMatches(U) == {m \in Candidates(U) : NamelessMatch(m[1], m[2])}

\* A card's matches in M; of one that has a single match, that match's own.
CandidateCount(s, c, M) ==
    LET mine == {m \in M : End(s, m) = c}
        theirs == {m \in M : \E n \in mine : End(Other(s), n) = End(Other(s), m)}
    IN  Cardinality(IF Cardinality(mine) = 1 THEN theirs ELSE mine)

\* What the report says of a skipped card.
Skip(c, count) == [card |-> c, candidate_count |-> count]

\* The matches a skipped card's count is of.
MatchesOf(c, L, matches2, contested) ==
    IF c \in contested THEN matches2
    ELSE IF Named(c) THEN IdentityMatches(L) ELSE NamelessMatches(L)

Ambiguous(L, contested, s) ==
    {c \in L[s] :
        \/ c \in contested
        \/ \E d \in L[Other(s)] : SameName(c, d) \/ NamelessMatch(c, d)}

\* A nameless card that shares an email or phone with any card the other
\* side holds, or with a named card that is copied there in this cycle.
LikelyDuplicates(L, K, contested, s) ==
    LET free == L[s] \ Ambiguous(L, contested, s)
    IN  {c \in free :
            /\ ~ Named(c)
            /\ \E d \in K[Other(s)] \cup {d \in free : Named(d)} : SharePoint(c, d)}

Copied(L, K, contested, s) ==
    (L[s] \ Ambiguous(L, contested, s)) \ LikelyDuplicates(L, K, contested, s)

\* The whole of pairing, over the unsynced cards U and the known cards K.
Paired(U, K) ==
    LET pass1 == UidPairs(U)
        left1 == Left(U, pass1)
        matches2 == ContentMatches(left1)
        pass2 == Mutual(matches2)
        left2 == Left(left1, pass2)
        pass3 == Mutual(IdentityMatches(left2))
        left3 == Left(left2, pass3)
        contested == UNION {On(s, matches2) \ On(s, pass2) : s \in Side}
    IN  [byUid |-> pass1, byContent |-> pass2, byIdentity |-> pass3,
         copied |-> [s \in Side |-> Copied(left3, K, contested, s)],
         skips |-> [s \in Side |->
            {Skip(c, CandidateCount(s, c, MatchesOf(c, left3, matches2, contested))) :
                c \in Ambiguous(left3, contested, s)}],
         likely |-> [s \in Side |-> LikelyDuplicates(left3, K, contested, s)]]
=============================================================================
