---------------------------- MODULE Pairing_proofs ----------------------------
(***************************************************************************)
(* Proofs about Pairing, for every two sets of cards: no card is paired    *)
(* twice, a named card with one certain match is not left over, and every  *)
(* card is paired, copied, or skipped for a reason the report names.       *)
(***************************************************************************)
EXTENDS Pairing, FiniteSetTheorems, TLAPS

\* A set of matches in which no card appears twice.
Matching(M) == \A m, n \in M : (n[1] = m[1] \/ n[2] = m[2]) => n = m

\* The cards of a side that M pairs.
Apart(M, N) == \A m \in M, n \in N : m[1] # n[1] /\ m[2] # n[2]

\* What is on both sides, with no UID twice on one of them.
Sides(U) ==
    /\ U = [s \in Side |-> U[s]]
    /\ \A s \in Side : \A c, d \in U[s] : c.uid = d.uid => c = d

LEMMA SideValues == "icloud" \in Side /\ "fastmail" \in Side /\ \A s \in Side : s = "icloud" \/ s = "fastmail"
BY DEF Side

\* Unique in both directions is a matching, whatever the matches.
LEMMA MutualIsMatching ==
    ASSUME NEW M
    PROVE  Mutual(M) \subseteq M /\ Matching(Mutual(M))
BY DEF Mutual, Matching

LEMMA LeftSides ==
    ASSUME NEW U, Sides(U), NEW M
    PROVE  /\ Sides(Left(U, M))
           /\ \A s \in Side : Left(U, M)[s] = U[s] \ On(s, M)
BY DEF Sides, Left

\* What is matched later was not paired before.
LEMMA LaterIsApart ==
    ASSUME NEW U, Sides(U), NEW M, NEW N, N \subseteq Candidates(Left(U, M))
    PROVE  Apart(M, N) /\ N \subseteq Candidates(U)
<1>1. \A s \in Side : Left(U, M)[s] = U[s] \ On(s, M)
    BY LeftSides
<1>2. \A m \in M : m[1] \in On("icloud", M) /\ m[2] \in On("fastmail", M)
    BY DEF On, End
<1>3. \A n \in N : n[1] \in Left(U, M)["icloud"] /\ n[2] \in Left(U, M)["fastmail"] /\ n = <<n[1], n[2]>>
    BY DEF Candidates
<1> QED
    BY <1>1, <1>2, <1>3, SideValues DEF Apart, Candidates

LEMMA UidPairsMatch ==
    ASSUME NEW U, Sides(U)
    PROVE  Matching(UidPairs(U)) /\ UidPairs(U) \subseteq Candidates(U)
<1>1. \A m \in UidPairs(U) : /\ m[1] \in U["icloud"] /\ m[2] \in U["fastmail"]
                             /\ m = <<m[1], m[2]>> /\ m[1].uid = m[2].uid
    BY DEF UidPairs, Candidates
<1>2. \A m, n \in UidPairs(U) : n[1] = m[1] \/ n[2] = m[2] => n[1] = m[1] /\ n[2] = m[2]
    BY <1>1, SideValues DEF Sides
<1> QED
    BY <1>1, <1>2 DEF Matching, UidPairs
(***************************************************************************)
(* The passes by name.                                                     *)
(***************************************************************************)
Left1(U) == Left(U, UidPairs(U))
Pass2(U) == Mutual(ContentMatches(Left1(U)))
Left2(U) == Left(Left1(U), Pass2(U))
Pass3(U) == Mutual(IdentityMatches(Left2(U)))
Left3(U) == Left(Left2(U), Pass3(U))
Contested(U) == UNION {On(s, ContentMatches(Left1(U))) \ On(s, Pass2(U)) : s \in Side}

LEMMA PairedFields ==
    ASSUME NEW U, NEW K
    PROVE  /\ Paired(U, K).byUid = UidPairs(U)
           /\ Paired(U, K).byContent = Pass2(U)
           /\ Paired(U, K).byIdentity = Pass3(U)
           /\ \A s \in Side :
                 /\ Paired(U, K).copied[s] = Copied(Left3(U), K, Contested(U), s)
                 /\ {skip.card : skip \in Paired(U, K).skips[s]} = Ambiguous(Left3(U), Contested(U), s)
                 /\ Paired(U, K).likely[s] = LikelyDuplicates(Left3(U), K, Contested(U), s)
<1> DEFINE skips == [s \in Side |->
               {Skip(c, CandidateCount(s, c, MatchesOf(c, Left3(U), ContentMatches(Left1(U)), Contested(U)))) :
                   c \in Ambiguous(Left3(U), Contested(U), s)}]
<1>1. Paired(U, K) =
         [byUid |-> UidPairs(U), byContent |-> Pass2(U), byIdentity |-> Pass3(U),
          copied |-> [s \in Side |-> Copied(Left3(U), K, Contested(U), s)],
          skips |-> skips,
          likely |-> [s \in Side |-> LikelyDuplicates(Left3(U), K, Contested(U), s)]]
    BY DEF Paired, Left1, Pass2, Left2, Pass3, Left3, Contested
<1>2. \A c, n : Skip(c, n).card = c
    BY DEF Skip
<1>3. \A s \in Side : {skip.card : skip \in skips[s]} = Ambiguous(Left3(U), Contested(U), s)
    BY <1>2
<1> HIDE DEF skips
<1> QED
    BY <1>1, <1>3

LEMMA PassSides ==
    ASSUME NEW U, Sides(U)
    PROVE  Sides(Left1(U)) /\ Sides(Left2(U)) /\ Sides(Left3(U))
BY LeftSides DEF Left1, Left2, Left3

LEMMA PassCandidates ==
    ASSUME NEW U
    PROVE  /\ Pass2(U) \subseteq Candidates(Left1(U))
           /\ Pass3(U) \subseteq Candidates(Left2(U))
BY MutualIsMatching DEF Pass2, Pass3, ContentMatches, IdentityMatches

\* Nobody is paired twice: in each pass a card has one partner, and what one
\* pass paired no later one sees (pair, Pairing::remove, mutual_pairs).
THEOREM NoCardIsPairedTwice ==
    ASSUME NEW U, Sides(U), NEW K
    PROVE  LET p == Paired(U, K) IN
           /\ Matching(p.byUid) /\ Matching(p.byContent) /\ Matching(p.byIdentity)
           /\ Apart(p.byUid, p.byContent) /\ Apart(p.byUid, p.byIdentity)
           /\ Apart(p.byContent, p.byIdentity)
<1>1. Matching(UidPairs(U)) /\ Matching(Pass2(U)) /\ Matching(Pass3(U))
    BY UidPairsMatch, MutualIsMatching DEF Pass2, Pass3
<1>2. Pass3(U) \subseteq Candidates(Left1(U)) /\ Apart(Pass2(U), Pass3(U))
    BY PassSides, PassCandidates, LaterIsApart DEF Left2
<1>3. Apart(UidPairs(U), Pass2(U)) /\ Apart(UidPairs(U), Pass3(U))
    BY <1>2, PassCandidates, LaterIsApart DEF Left1
<1> QED
    BY <1>1, <1>2, <1>3, PairedFields

LEMMA LeftOver ==
    ASSUME NEW U, Sides(U), NEW s \in Side
    PROVE  Left3(U)[s] = ((U[s] \ On(s, UidPairs(U))) \ On(s, Pass2(U))) \ On(s, Pass3(U))
BY PassSides, LeftSides DEF Left1, Left2, Left3

\* No card falls through: each is paired, copied, or in the report as
\* ambiguous or a likely duplicate, and only one of these (settle_side).
THEOREM EveryCardIsSettled ==
    ASSUME NEW U, Sides(U), NEW K, NEW s \in Side, NEW c \in U[s]
    PROVE  LET p == Paired(U, K)
               matched == On(s, p.byUid) \cup On(s, p.byContent) \cup On(s, p.byIdentity)
               skipped == {skip.card : skip \in p.skips[s]}
           IN  /\ c \in matched \cup p.copied[s] \cup skipped \cup p.likely[s]
               /\ matched \cap (p.copied[s] \cup skipped \cup p.likely[s]) = {}
               /\ p.copied[s] \cap (skipped \cup p.likely[s]) = {}
               /\ skipped \cap p.likely[s] = {}
<1> DEFINE L == Left3(U)
           A == Ambiguous(L, Contested(U), s)
           D == LikelyDuplicates(L, K, Contested(U), s)
           matched == On(s, UidPairs(U)) \cup On(s, Pass2(U)) \cup On(s, Pass3(U))
<1>1. L[s] = U[s] \ matched
    BY LeftOver
<1>2. A \subseteq L[s] /\ D \subseteq L[s] \ A /\ Copied(L, K, Contested(U), s) = (L[s] \ A) \ D
    BY DEF Ambiguous, LikelyDuplicates, Copied
<1> HIDE DEF L, A, D, matched
<1>3. /\ c \in matched \cup Copied(L, K, Contested(U), s) \cup A \cup D
      /\ matched \cap (Copied(L, K, Contested(U), s) \cup A \cup D) = {}
      /\ Copied(L, K, Contested(U), s) \cap (A \cup D) = {}
      /\ A \cap D = {}
    BY <1>1, <1>2
<1> QED
    BY <1>3, PairedFields DEF L, A, D, matched

LEMMA CopiedFrom ==
    ASSUME NEW U, Sides(U), NEW K, NEW s \in Side, NEW c \in Copied(Left3(U), K, Contested(U), s)
    PROVE  /\ c \in Left3(U)[s] /\ c \in Left1(U)[s] /\ c \in U[s]
           /\ c \notin On(s, Pass2(U)) /\ c \notin On(s, UidPairs(U))
           /\ c \notin Contested(U)
           /\ \A d \in Left3(U)[Other(s)] : ~ SameName(c, d) /\ ~ NamelessMatch(c, d)
<1>1. c \in Left3(U)[s] /\ c \notin Ambiguous(Left3(U), Contested(U), s)
    BY DEF Copied
<1>2. c \in Left1(U)[s] /\ c \in U[s] /\ c \notin On(s, Pass2(U)) /\ c \notin On(s, UidPairs(U))
    BY <1>1, LeftOver, LeftSides DEF Left1
<1> QED
    BY <1>1, <1>2 DEF Ambiguous

\* Two cards that are copied past each other have different UIDs, different
\* contents, different names, and, without names, no email or phone in
\* common: what might be one contact is never copied both ways, which would
\* leave it twice on both sides (settle_side; "skipped, never both copied").
THEOREM CopiesAreNoMatch ==
    ASSUME NEW U, Sides(U), NEW K,
           NEW c \in Paired(U, K).copied["icloud"], NEW d \in Paired(U, K).copied["fastmail"]
    PROVE  /\ c.uid # d.uid /\ ~ SameContent(c, d) /\ ~ SameName(c, d)
           /\ ~ (~ Named(c) /\ ~ Named(d) /\ SharePoint(c, d))
<1>1. /\ c \in Copied(Left3(U), K, Contested(U), "icloud")
      /\ d \in Copied(Left3(U), K, Contested(U), "fastmail")
    BY PairedFields, SideValues
<1>2. /\ c \in Left3(U)["icloud"] /\ c \in Left1(U)["icloud"] /\ c \in U["icloud"]
      /\ c \notin On("icloud", Pass2(U)) /\ c \notin On("icloud", UidPairs(U))
      /\ c \notin Contested(U)
      /\ \A e \in Left3(U)["fastmail"] : ~ SameName(c, e) /\ ~ NamelessMatch(c, e)
    BY <1>1, CopiedFrom, SideValues DEF Other
<1>3. d \in Left3(U)["fastmail"] /\ d \in Left1(U)["fastmail"] /\ d \in U["fastmail"]
    BY <1>1, CopiedFrom, SideValues
<1>4. c.uid # d.uid
    <2> SUFFICES ASSUME c.uid = d.uid PROVE FALSE
        OBVIOUS
    <2>1. <<c, d>> \in UidPairs(U)
        BY <1>2, <1>3 DEF UidPairs, Candidates
    <2>2. c \in On("icloud", UidPairs(U))
        BY <2>1 DEF On, End
    <2> QED
        BY <1>2, <2>2
<1>5. ~ SameContent(c, d)
    <2> SUFFICES ASSUME SameContent(c, d) PROVE FALSE
        OBVIOUS
    <2>1. <<c, d>> \in ContentMatches(Left1(U))
        BY <1>2, <1>3 DEF ContentMatches, Candidates
    <2>2. c \in On("icloud", ContentMatches(Left1(U)))
        BY <2>1 DEF On, End
    <2>3. c \in Contested(U)
        BY <1>2, <2>2, SideValues DEF Contested
    <2> QED
        BY <1>2, <2>3
<1> QED
    BY <1>2, <1>3, <1>4, <1>5 DEF NamelessMatch

\* A card without a name is not copied beside a card that shares an email or
\* phone with it, whether the other side holds that card or gets it now
\* (settle_side, skip_same_cycle_duplicates).
THEOREM NamelessCopiesAreAlone ==
    ASSUME NEW U, Sides(U), NEW K, NEW s \in Side, NEW c \in Paired(U, K).copied[s], ~ Named(c),
           NEW d \in K[Other(s)] \cup {e \in Paired(U, K).copied[s] : Named(e)}
    PROVE  ~ SharePoint(c, d)
<1> DEFINE free == Left3(U)[s] \ Ambiguous(Left3(U), Contested(U), s)
<1>1. Paired(U, K).copied[s] = free \ LikelyDuplicates(Left3(U), K, Contested(U), s)
    BY PairedFields DEF Copied
<1>2. c \in free /\ c \notin LikelyDuplicates(Left3(U), K, Contested(U), s)
    BY <1>1
<1>3. d \in K[Other(s)] \cup {e \in free : Named(e)}
    BY <1>1
<1> QED
    BY <1>2, <1>3 DEF LikelyDuplicates

\* The matches of a card, and those of the only card it matches.
Mine(s, c, M) == {m \in M : End(s, m) = c}
Theirs(s, c, M) == {m \in M : \E n \in Mine(s, c, M) : End(Other(s), n) = End(Other(s), m)}

\* A count of one is of a match that is the only one of both its cards.
LEMMA CountedOneIsMutual ==
    ASSUME NEW M, IsFiniteSet(M), NEW s \in Side, NEW c, CandidateCount(s, c, M) = 1
    PROVE  \E m \in Mutual(M) : End(s, m) = c
<1>1. CandidateCount(s, c, M) =
        Cardinality(IF Cardinality(Mine(s, c, M)) = 1 THEN Theirs(s, c, M) ELSE Mine(s, c, M))
    BY DEF CandidateCount, Mine, Theirs
<1>2. Cardinality(Mine(s, c, M)) = 1 /\ Cardinality(Theirs(s, c, M)) = 1
    BY <1>1
<1>3. Mine(s, c, M) \in SUBSET M /\ Theirs(s, c, M) \in SUBSET M
    BY DEF Mine, Theirs
<1>4. IsFiniteSet(Mine(s, c, M)) /\ IsFiniteSet(Theirs(s, c, M))
    BY <1>3, FS_Subset
<1>5. PICK m : Mine(s, c, M) = {m}
    BY <1>2, <1>4, FS_Singleton
<1>6. PICK n : Theirs(s, c, M) = {n}
    BY <1>2, <1>4, FS_Singleton
<1>7. m \in M /\ End(s, m) = c /\ \A k \in M : End(s, k) = c => k = m
    BY <1>5 DEF Mine
<1>8. \A k \in M : End(Other(s), k) = End(Other(s), m) => k \in Theirs(s, c, M)
    BY <1>5 DEF Theirs
<1>9. \A k \in M : End(Other(s), k) = End(Other(s), m) => k = m
    BY <1>6, <1>7, <1>8
<1>10. \A k \in M : (k[1] = m[1] \/ k[2] = m[2]) => k = m
    BY <1>7, <1>9, SideValues DEF End, Other
<1> QED
    BY <1>7, <1>10 DEF Mutual

\* Two cards a pass left over match each other uniquely only if they did
\* before the pass: a card the pass paired has no other match.
LEMMA MutualLater ==
    ASSUME NEW U, Sides(U), NEW m \in Mutual(IdentityMatches(Left(U, Mutual(IdentityMatches(U)))))
    PROVE  m \in Mutual(IdentityMatches(U))
<1> DEFINE M == IdentityMatches(U)
           N == IdentityMatches(Left(U, Mutual(M)))
<1>1. m \in N /\ \A n \in N : (n[1] = m[1] \/ n[2] = m[2]) => n = m
    BY DEF Mutual
<1>2. \A s \in Side : Left(U, Mutual(M))[s] = U[s] \ On(s, Mutual(M))
    BY LeftSides
<1>3. \A n : n \in N <=> /\ n \in M
                         /\ n[1] \notin On("icloud", Mutual(M)) /\ n[2] \notin On("fastmail", Mutual(M))
    BY <1>2, SideValues DEF IdentityMatches, Candidates
<1>4. SUFFICES ASSUME NEW n \in M, n[1] = m[1] \/ n[2] = m[2], n # m
               PROVE  FALSE
    BY <1>1, <1>3 DEF Mutual
<1>5. n[1] \in On("icloud", Mutual(M)) \/ n[2] \in On("fastmail", Mutual(M))
    BY <1>1, <1>3, <1>4
<1>6. PICK k \in Mutual(M) : n[1] = k[1] \/ n[2] = k[2]
    BY <1>5 DEF On, End
<1>7. n = k
    BY <1>4, <1>6 DEF Mutual
<1>8. n[1] \in On("icloud", Mutual(M)) /\ n[2] \in On("fastmail", Mutual(M))
    BY <1>6, <1>7 DEF On, End
<1> QED
    BY <1>1, <1>3, <1>4, <1>8

\* Finite address books have finitely many matches.
LEMMA FiniteMatches ==
    ASSUME NEW U, Sides(U), \A s \in Side : IsFiniteSet(U[s])
    PROVE  /\ IsFiniteSet(ContentMatches(Left1(U)))
           /\ IsFiniteSet(IdentityMatches(Left3(U)))
<1>1. ASSUME NEW V, \A s \in Side : V[s] \subseteq U[s]
      PROVE  IsFiniteSet(ContentMatches(V)) /\ IsFiniteSet(IdentityMatches(V))
    <2>1. IsFiniteSet(U["icloud"] \X U["fastmail"])
        BY FS_Product, SideValues
    <2>2. /\ ContentMatches(V) \in SUBSET (U["icloud"] \X U["fastmail"])
          /\ IdentityMatches(V) \in SUBSET (U["icloud"] \X U["fastmail"])
        BY <1>1, SideValues DEF ContentMatches, IdentityMatches, Candidates
    <2> QED
        BY <2>1, <2>2, FS_Subset
<1>2. \A s \in Side : Left1(U)[s] \subseteq U[s] /\ Left3(U)[s] \subseteq U[s]
    BY LeftOver, LeftSides DEF Left1
<1> QED
    BY <1>1, <1>2

\* A named card is never skipped for a single certain match: the count of its
\* skip is of no cards, or of several (Skip::candidate_count, settle_side).
THEOREM SkipsAreNotCertain ==
    ASSUME NEW U, Sides(U), \A s \in Side : IsFiniteSet(U[s]), NEW K,
           NEW s \in Side, NEW skip \in Paired(U, K).skips[s], Named(skip.card)
    PROVE  skip.candidate_count # 1
<1> DEFINE c == skip.card
           M == MatchesOf(c, Left3(U), ContentMatches(Left1(U)), Contested(U))
<1>1. c \in Ambiguous(Left3(U), Contested(U), s) /\ skip.candidate_count = CandidateCount(s, c, M)
    <2>1. Paired(U, K).skips[s] =
            {Skip(d, CandidateCount(s, d, MatchesOf(d, Left3(U), ContentMatches(Left1(U)), Contested(U)))) :
                d \in Ambiguous(Left3(U), Contested(U), s)}
        BY DEF Paired, Left1, Pass2, Left2, Pass3, Left3, Contested
    <2>2. PICK d \in Ambiguous(Left3(U), Contested(U), s) :
            skip = Skip(d, CandidateCount(s, d, MatchesOf(d, Left3(U), ContentMatches(Left1(U)), Contested(U))))
        BY <2>1
    <2>3. \A e, n : Skip(e, n).card = e /\ Skip(e, n).candidate_count = n
        BY DEF Skip
    <2> QED
        BY <2>2, <2>3
<1>2. c \in Left3(U)[s]
    BY <1>1 DEF Ambiguous
<1> SUFFICES ASSUME CandidateCount(s, c, M) = 1 PROVE FALSE
    BY <1>1
<1>3. CASE c \in Contested(U)
    <2>1. M = ContentMatches(Left1(U))
        BY <1>3 DEF MatchesOf
    <2>2. \E m \in Mutual(ContentMatches(Left1(U))) : End(s, m) = c
        BY <2>1, CountedOneIsMutual, FiniteMatches
    <2>3. c \in On(s, Pass2(U))
        BY <2>2 DEF Pass2, On
    <2> QED
        BY <1>2, <2>3, LeftOver
<1>4. CASE c \notin Contested(U)
    <2>1. M = IdentityMatches(Left3(U))
        BY <1>4 DEF MatchesOf
    <2>2. PICK m \in Mutual(IdentityMatches(Left3(U))) : End(s, m) = c
        BY <2>1, CountedOneIsMutual, FiniteMatches
    <2>3. m \in Pass3(U)
        BY <2>2, PassSides, MutualLater DEF Left3, Pass3
    <2>4. c \in On(s, Pass3(U))
        BY <2>2, <2>3 DEF On
    <2> QED
        BY <1>2, <2>4, LeftOver
<1> QED
    BY <1>3, <1>4

(***************************************************************************)
(* What is left when some cards are taken away.  As long as no match has   *)
(* only one of its cards among them, every pass pairs the others as        *)
(* before: pairing afresh is pairing the rest.                             *)
(***************************************************************************)

\* U without the cards X.
Less(U, X) == [s \in Side |-> U[s] \ X[s]]

\* The matches that have nothing to do with X.
Off(M, X) == {m \in M : m[1] \notin X["icloud"] /\ m[2] \notin X["fastmail"]}

\* X has both cards of a match, or none.
ClosedIn(M, X) == \A m \in M : m[1] \in X["icloud"] <=> m[2] \in X["fastmail"]

\* The cards of side s that U leaves alone: no pass paired them, and nobody
\* has their content, nor anybody left over on the other side their name.
Loose(U, s) ==
    {c \in Left3(U)[s] :
        /\ c \notin On(s, ContentMatches(Left1(U)))
        /\ \A d \in Left3(U)[Other(s)] : ~ SameName(c, d)}

Closed(U, X) ==
    /\ ClosedIn(UidPairs(U), X)
    /\ ClosedIn(ContentMatches(Left1(U)), X)
    /\ ClosedIn(IdentityMatches(Left2(U)), X)
    /\ \A c \in Left3(U)["icloud"], d \in Left3(U)["fastmail"] :
          SameName(c, d) => (c \in X["icloud"] <=> d \in X["fastmail"])

LEMMA LessSides ==
    ASSUME NEW U, Sides(U), NEW X
    PROVE  Sides(Less(U, X)) /\ \A s \in Side : Less(U, X)[s] = U[s] \ X[s]
BY DEF Sides, Less

LEMMA CandidatesOff ==
    ASSUME NEW U, NEW X
    PROVE  Candidates(Less(U, X)) = Off(Candidates(U), X)
<1>1. Less(U, X)["icloud"] = U["icloud"] \ X["icloud"] /\ Less(U, X)["fastmail"] = U["fastmail"] \ X["fastmail"]
    BY SideValues DEF Less
<1> QED
    BY <1>1 DEF Candidates, Off

LEMMA MatchesOff ==
    ASSUME NEW U, NEW X
    PROVE  /\ UidPairs(Less(U, X)) = Off(UidPairs(U), X)
           /\ ContentMatches(Less(U, X)) = Off(ContentMatches(U), X)
           /\ IdentityMatches(Less(U, X)) = Off(IdentityMatches(U), X)
BY CandidatesOff DEF UidPairs, ContentMatches, IdentityMatches, Off

LEMMA MutualOff ==
    ASSUME NEW M, NEW X, ClosedIn(M, X)
    PROVE  Mutual(Off(M, X)) = Off(Mutual(M), X)
<1>1. ASSUME NEW m \in Mutual(Off(M, X))
      PROVE  m \in Off(Mutual(M), X)
    <2>1. m \in M /\ m[1] \notin X["icloud"] /\ m[2] \notin X["fastmail"]
        BY <1>1 DEF Mutual, Off
    <2>2. ASSUME NEW n \in M, n[1] = m[1] \/ n[2] = m[2]
          PROVE  n = m
        <3>1. n \in Off(M, X)
            BY <2>1, <2>2 DEF Off, ClosedIn
        <3> QED
            BY <1>1, <2>2, <3>1 DEF Mutual
    <2> QED
        BY <2>1, <2>2 DEF Mutual, Off
<1>2. ASSUME NEW m \in Off(Mutual(M), X)
      PROVE  m \in Mutual(Off(M, X))
    BY <1>2 DEF Mutual, Off
<1> QED
    BY <1>1, <1>2

LEMMA OnOff ==
    ASSUME NEW M, NEW X, ClosedIn(M, X), NEW s \in Side
    PROVE  On(s, Off(M, X)) = On(s, M) \ X[s]
<1>1. CASE s = "icloud"
    BY <1>1 DEF On, End, Off, ClosedIn
<1>2. CASE s = "fastmail"
    BY <1>2 DEF On, End, Off, ClosedIn
<1> QED
    BY <1>1, <1>2, SideValues

LEMMA LeftOff ==
    ASSUME NEW U, NEW M, NEW X, ClosedIn(M, X)
    PROVE  Left(Less(U, X), Off(M, X)) = Less(Left(U, M), X)
<1>1. \A s \in Side : On(s, Off(M, X)) = On(s, M) \ X[s]
    BY OnOff
<1>2. \A s \in Side : Less(U, X)[s] \ On(s, Off(M, X)) = Left(U, M)[s] \ X[s]
    BY <1>1 DEF Less, Left
<1> QED
    BY <1>2 DEF Left, Less

\* The passes, and who is left alone, without X.
LEMMA PassesOff ==
    ASSUME NEW U, NEW X, Closed(U, X)
    PROVE  /\ UidPairs(Less(U, X)) = Off(UidPairs(U), X)
           /\ Pass2(Less(U, X)) = Off(Pass2(U), X)
           /\ Pass3(Less(U, X)) = Off(Pass3(U), X)
           /\ \A s \in Side : Loose(Less(U, X), s) = Loose(U, s) \ X[s]
<1> DEFINE V == Less(U, X)
<1>1. UidPairs(V) = Off(UidPairs(U), X)
    BY MatchesOff
<1>2. Left1(V) = Less(Left1(U), X)
    BY <1>1, LeftOff DEF Left1, Closed
<1>3. ContentMatches(Left1(V)) = Off(ContentMatches(Left1(U)), X)
    BY <1>2, MatchesOff
<1>4. Pass2(V) = Off(Pass2(U), X)
    BY <1>3, MutualOff DEF Pass2, Closed
<1>5. ClosedIn(Pass2(U), X) /\ ClosedIn(Pass3(U), X)
    BY DEF Closed, ClosedIn, Pass2, Pass3, Mutual
<1>6. Left2(V) = Less(Left2(U), X)
    BY <1>2, <1>4, <1>5, LeftOff DEF Left2
<1>7. IdentityMatches(Left2(V)) = Off(IdentityMatches(Left2(U)), X)
    BY <1>6, MatchesOff
<1>8. Pass3(V) = Off(Pass3(U), X)
    BY <1>7, MutualOff DEF Pass3, Closed
<1>9. Left3(V) = Less(Left3(U), X)
    BY <1>5, <1>6, <1>8, LeftOff DEF Left3
<1>10. ASSUME NEW s \in Side
       PROVE  Loose(V, s) = Loose(U, s) \ X[s]
    <2>1. /\ Other(s) \in Side
          /\ s = "icloud" => Other(s) = "fastmail"
          /\ s = "fastmail" => Other(s) = "icloud"
        BY SideValues DEF Other
    <2>2. Left3(V)[s] = Left3(U)[s] \ X[s] /\ Left3(V)[Other(s)] = Left3(U)[Other(s)] \ X[Other(s)]
        BY <1>9, <2>1 DEF Less
    <2>3. On(s, ContentMatches(Left1(V))) = On(s, ContentMatches(Left1(U))) \ X[s]
        BY <1>3, OnOff DEF Closed
    <2>4. \A c, d : SameName(c, d) <=> SameName(d, c)
        BY DEF SameName, Named
    <2>5. \A c \in Left3(U)[s] \ X[s], d \in Left3(U)[Other(s)] : SameName(c, d) => d \notin X[Other(s)]
        BY <2>1, <2>4, SideValues DEF Closed
    <2> HIDE DEF V
    <2> QED
        BY <2>2, <2>3, <2>5 DEF Loose
<1> QED
    BY <1>1, <1>4, <1>8, <1>10

\* The cards of a match, and a card of one side.
Ends(m) == [s \in Side |-> {End(s, m)}]
Alone(s, c) == [t \in Side |-> IF t = s THEN {c} ELSE {}]

LEMMA EndsAre ==
    ASSUME NEW m
    PROVE  Ends(m)["icloud"] = {m[1]} /\ Ends(m)["fastmail"] = {m[2]}
BY SideValues DEF Ends, End

\* A match that is alone in both of its cards has both.
LEMMA MatchingCloses ==
    ASSUME NEW M, NEW m \in M, Matching(M)
    PROVE  ClosedIn(M, Ends(m))
BY EndsAre DEF Matching, ClosedIn

\* Cards that no match has.
LEMMA StrangersClose ==
    ASSUME NEW M, NEW m, \A n \in M : n[1] # m[1] /\ n[2] # m[2]
    PROVE  ClosedIn(M, Ends(m))
BY EndsAre DEF ClosedIn

\* The cards of the later passes, and those left over.
LEMMA PassedOn ==
    ASSUME NEW U, Sides(U)
    PROVE  /\ \A s \in Side : Left3(U)[s] \subseteq Left2(U)[s] /\ Left2(U)[s] \subseteq Left1(U)[s]
           /\ \A s \in Side : \A c \in Left1(U)[s] : c \in U[s] /\ c \notin On(s, UidPairs(U))
           /\ \A s \in Side : \A c \in Left2(U)[s] : c \notin On(s, Pass2(U))
           /\ \A s \in Side : \A c \in Left3(U)[s] : c \notin On(s, Pass3(U))
           /\ \A s \in Side : \A c \in Left1(U)[s] : c \in Left2(U)[s] \/ c \in On(s, Pass2(U))
           /\ \A s \in Side : \A c \in Left2(U)[s] : c \in Left3(U)[s] \/ c \in On(s, Pass3(U))
<1>1. /\ \A s \in Side : Left1(U)[s] = U[s] \ On(s, UidPairs(U))
      /\ \A s \in Side : Left2(U)[s] = Left1(U)[s] \ On(s, Pass2(U))
      /\ \A s \in Side : Left3(U)[s] = Left2(U)[s] \ On(s, Pass3(U))
    BY PassSides, LeftSides DEF Left1, Left2, Left3
<1> QED
    BY <1>1

\* Whose match is whose.
LEMMA OnMeans ==
    ASSUME NEW M
    PROVE  /\ \A c : c \in On("icloud", M) <=> \E m \in M : m[1] = c
           /\ \A c : c \in On("fastmail", M) <=> \E m \in M : m[2] = c
BY DEF On, End

\* The matches of each pass, and their cards.
LEMMA MatchesAre ==
    ASSUME NEW U
    PROVE  /\ \A m \in UidPairs(U) : m[1] \in U["icloud"] /\ m[2] \in U["fastmail"]
           /\ \A m \in ContentMatches(U) :
                 m[1] \in U["icloud"] /\ m[2] \in U["fastmail"] /\ m[1].content = m[2].content
           /\ \A m \in IdentityMatches(U) :
                 m[1] \in U["icloud"] /\ m[2] \in U["fastmail"] /\ IsMatch(m[1], m[2])
           /\ \A c \in U["icloud"], d \in U["fastmail"] :
                 /\ c.content = d.content => <<c, d>> \in ContentMatches(U)
                 /\ IsMatch(c, d) => <<c, d>> \in IdentityMatches(U)
BY DEF UidPairs, ContentMatches, IdentityMatches, Candidates, SameContent

LEMMA UidPairCloses ==
    ASSUME NEW U, Sides(U), NEW m \in UidPairs(U)
    PROVE  Closed(U, Ends(m))
<1>1. ClosedIn(UidPairs(U), Ends(m))
    BY UidPairsMatch, MatchingCloses
<1>2. \A c \in Left1(U)["icloud"] : c # m[1]
    BY PassedOn, OnMeans, SideValues
<1>3. \A c \in Left1(U)["fastmail"] : c # m[2]
    BY PassedOn, OnMeans, SideValues
<1>4. /\ \A n \in ContentMatches(Left1(U)) : n[1] # m[1] /\ n[2] # m[2]
      /\ \A n \in IdentityMatches(Left2(U)) : n[1] # m[1] /\ n[2] # m[2]
    BY <1>2, <1>3, MatchesAre, PassedOn, SideValues
<1>5. \A c \in Left3(U)["icloud"], d \in Left3(U)["fastmail"] : c # m[1] /\ d # m[2]
    BY <1>2, <1>3, PassedOn, SideValues
<1> QED
    BY <1>1, <1>4, <1>5, StrangersClose, EndsAre DEF Closed

\* A card that a later pass sees is in no UID pair.
LEMMA LaterIsStranger ==
    ASSUME NEW U, Sides(U), NEW m, m[1] \in Left1(U)["icloud"], m[2] \in Left1(U)["fastmail"]
    PROVE  \A n \in UidPairs(U) : n[1] # m[1] /\ n[2] # m[2]
BY PassedOn, OnMeans, SideValues

LEMMA ContentPairCloses ==
    ASSUME NEW U, Sides(U), NEW m \in Pass2(U)
    PROVE  Closed(U, Ends(m))
<1>1. m \in ContentMatches(Left1(U)) /\ \A n \in ContentMatches(Left1(U)) : (n[1] = m[1] \/ n[2] = m[2]) => n = m
    BY DEF Pass2, Mutual
<1>2. m[1] \in Left1(U)["icloud"] /\ m[2] \in Left1(U)["fastmail"]
    BY <1>1, MatchesAre
<1>3. ClosedIn(UidPairs(U), Ends(m))
    BY <1>2, LaterIsStranger, StrangersClose
<1>4. ClosedIn(ContentMatches(Left1(U)), Ends(m))
    BY <1>1, EndsAre DEF ClosedIn
<1>5. /\ \A c \in Left2(U)["icloud"] : c # m[1]
      /\ \A c \in Left2(U)["fastmail"] : c # m[2]
    BY PassedOn, OnMeans, SideValues
<1>6. \A n \in IdentityMatches(Left2(U)) : n[1] # m[1] /\ n[2] # m[2]
    BY <1>5, MatchesAre
<1>7. \A c \in Left3(U)["icloud"], d \in Left3(U)["fastmail"] : c # m[1] /\ d # m[2]
    BY <1>5, PassedOn, SideValues
<1> QED
    BY <1>3, <1>4, <1>6, <1>7, StrangersClose, EndsAre DEF Closed

\* Who matches somebody matches everybody with his own content.
LEMMA ContentDecides ==
    ASSUME NEW c, NEW d, IsMatch(c, d), NEW e
    PROVE  /\ e.content = c.content => IsMatch(c, e)
           /\ e.content = d.content => IsMatch(e, d)
<1>1. SameName(c, d)
    BY DEF IsMatch
<1>2. c.content.points # {} \/ (d.content.points = {} /\ c.content.org # NoOrg /\ c.content.org = d.content.org)
    BY DEF IsMatch, SharePoint
<1>3. d.content.points # {} \/ (c.content.points = {} /\ d.content.org # NoOrg /\ c.content.org = d.content.org)
    BY DEF IsMatch, SharePoint
<1>4. ASSUME e.content = c.content
      PROVE  IsMatch(c, e)
    BY <1>1, <1>2, <1>4 DEF IsMatch, SharePoint, SameName, Named
<1>5. ASSUME e.content = d.content
      PROVE  IsMatch(e, d)
    BY <1>1, <1>3, <1>5 DEF IsMatch, SharePoint, SameName, Named
<1> QED
    BY <1>4, <1>5

\* Nobody has the content of a card that is paired by identity.
LEMMA IdentityHasNoTwin ==
    ASSUME NEW U, Sides(U), NEW m \in Pass3(U)
    PROVE  \A n \in ContentMatches(Left1(U)) : n[1] # m[1] /\ n[2] # m[2]
<1> DEFINE M == ContentMatches(Left1(U))
           N == IdentityMatches(Left2(U))
<1>1. m \in N /\ \A n \in N : (n[1] = m[1] \/ n[2] = m[2]) => n = m
    BY DEF Pass3, Mutual
<1>2. m[1] \in Left2(U)["icloud"] /\ m[2] \in Left2(U)["fastmail"] /\ IsMatch(m[1], m[2])
    BY <1>1, MatchesAre
<1>3. m[1] \in Left1(U)["icloud"] /\ m[2] \in Left1(U)["fastmail"]
    BY <1>2, PassedOn, SideValues
<1>4. \A n \in Pass2(U) : n[1] # m[1] /\ n[2] # m[2] /\ n \in M
    <2>1. m[1] \notin On("icloud", Pass2(U)) /\ m[2] \notin On("fastmail", Pass2(U))
        BY <1>2, PassedOn, SideValues
    <2> QED
        BY <2>1, OnMeans DEF Pass2, Mutual
\* Another card with that content is left for the identity pass as well.
<1>5. ASSUME NEW n \in M, n[1] = m[1]
      PROVE  n[2] \in Left2(U)["fastmail"]
    <2>1. n[2] \in Left1(U)["fastmail"]
        BY MatchesAre
    <2>2. \A k \in Pass2(U) : k[2] = n[2] => k = n
        BY DEF Pass2, Mutual
    <2>3. n[2] \notin On("fastmail", Pass2(U))
        BY <1>4, <1>5, <2>2, OnMeans
    <2> QED
        BY <2>1, <2>3, PassedOn, SideValues
<1>6. ASSUME NEW n \in M, n[2] = m[2]
      PROVE  n[1] \in Left2(U)["icloud"]
    <2>1. n[1] \in Left1(U)["icloud"]
        BY MatchesAre
    <2>2. \A k \in Pass2(U) : k[1] = n[1] => k = n
        BY DEF Pass2, Mutual
    <2>3. n[1] \notin On("icloud", Pass2(U))
        BY <1>4, <1>6, <2>2, OnMeans
    <2> QED
        BY <2>1, <2>3, PassedOn, SideValues
\* Such a card would match by identity too, so it is the partner.
<1>7. \A n \in M : n = <<n[1], n[2]>> /\ n[1].content = n[2].content
    BY DEF ContentMatches, Candidates, SameContent
<1>8. ASSUME NEW n \in M, n[1] = m[1]
      PROVE  n[2] = m[2]
    <2>1. IsMatch(m[1], n[2])
        BY <1>2, <1>7, <1>8, ContentDecides
    <2>2. <<m[1], n[2]>> \in N
        BY <1>2, <1>5, <1>8, <2>1, MatchesAre
    <2>3. <<m[1], n[2]>>[1] = m[1] /\ <<m[1], n[2]>>[2] = n[2]
        OBVIOUS
    <2> QED
        BY <1>1, <2>2, <2>3
<1>9. ASSUME NEW n \in M, n[2] = m[2]
      PROVE  n[1] = m[1]
    <2>1. IsMatch(n[1], m[2])
        BY <1>2, <1>7, <1>9, ContentDecides
    <2>2. <<n[1], m[2]>> \in N
        BY <1>2, <1>6, <1>9, <2>1, MatchesAre
    <2>3. <<n[1], m[2]>>[1] = n[1] /\ <<n[1], m[2]>>[2] = m[2]
        OBVIOUS
    <2> QED
        BY <1>1, <2>2, <2>3
<1> HIDE DEF M, N
<1>10. ASSUME NEW n \in M, n[1] = m[1] \/ n[2] = m[2]
       PROVE  FALSE
    <2>1. n[1] = m[1] /\ n[2] = m[2]
        BY <1>8, <1>9, <1>10
    <2>2. \A k \in M : (k[1] = n[1] \/ k[2] = n[2]) => k = n
        BY <1>7, <1>8, <1>9, <2>1
    <2>3. n \in Pass2(U)
        BY <2>2 DEF Pass2, Mutual, M
    <2> QED
        BY <1>4, <2>1, <2>3
<1> QED
    BY <1>10 DEF M

LEMMA IdentityPairCloses ==
    ASSUME NEW U, Sides(U), NEW m \in Pass3(U)
    PROVE  Closed(U, Ends(m))
<1>1. m \in IdentityMatches(Left2(U)) /\ \A n \in IdentityMatches(Left2(U)) : (n[1] = m[1] \/ n[2] = m[2]) => n = m
    BY DEF Pass3, Mutual
<1>2. m[1] \in Left1(U)["icloud"] /\ m[2] \in Left1(U)["fastmail"]
    BY <1>1, MatchesAre, PassedOn, SideValues
<1>3. ClosedIn(UidPairs(U), Ends(m))
    BY <1>2, LaterIsStranger, StrangersClose
<1>4. ClosedIn(ContentMatches(Left1(U)), Ends(m))
    BY IdentityHasNoTwin, StrangersClose
<1>5. ClosedIn(IdentityMatches(Left2(U)), Ends(m))
    BY <1>1, EndsAre DEF ClosedIn
<1>6. \A c \in Left3(U)["icloud"], d \in Left3(U)["fastmail"] : c # m[1] /\ d # m[2]
    BY PassedOn, OnMeans, SideValues
<1> QED
    BY <1>3, <1>4, <1>5, <1>6, EndsAre DEF Closed

LEMMA AloneIs ==
    /\ \A c : Alone("icloud", c)["icloud"] = {c} /\ Alone("icloud", c)["fastmail"] = {}
    /\ \A c : Alone("fastmail", c)["icloud"] = {} /\ Alone("fastmail", c)["fastmail"] = {c}
BY SideValues DEF Alone

\* A card that U leaves alone is in no match.
LEMMA LooseIsNoMatch ==
    ASSUME NEW U, Sides(U), NEW s \in Side, NEW c \in Loose(U, s)
    PROVE  /\ c \notin On(s, UidPairs(U)) /\ c \notin On(s, ContentMatches(Left1(U)))
           /\ c \notin On(s, IdentityMatches(Left2(U)))
<1>1. c \in Left3(U)[s] /\ c \notin On(s, ContentMatches(Left1(U)))
    BY DEF Loose
<1>2. c \in Left1(U)[s] /\ c \notin On(s, Pass3(U)) /\ c \in Left2(U)[s]
    BY <1>1, PassedOn
<1>3. \A k \in Pass3(U) : k \in IdentityMatches(Left2(U))
          /\ \A n \in IdentityMatches(Left2(U)) : (n[1] = k[1] \/ n[2] = k[2]) => n = k
    BY DEF Pass3, Mutual
<1>4. CASE s = "icloud"
    <2>1. \A d \in Left3(U)["fastmail"] : ~ SameName(c, d)
        BY <1>4 DEF Loose, Other
    <2>2. ASSUME NEW n \in IdentityMatches(Left2(U)), n[1] = c
          PROVE  FALSE
        <3>1. n[2] \in Left2(U)["fastmail"] /\ SameName(c, n[2])
            BY <2>2, MatchesAre DEF IsMatch
        <3>2. PICK k \in Pass3(U) : k[2] = n[2]
            BY <2>1, <3>1, PassedOn, OnMeans, SideValues
        <3> QED
            BY <1>2, <1>3, <1>4, <2>2, <3>2, OnMeans
    <2> QED
        BY <1>1, <1>2, <1>4, <2>2, PassedOn, OnMeans
<1>5. CASE s = "fastmail"
    <2>1. \A d \in Left3(U)["icloud"] : ~ SameName(c, d)
        BY <1>5 DEF Loose, Other
    <2>2. ASSUME NEW n \in IdentityMatches(Left2(U)), n[2] = c
          PROVE  FALSE
        <3>1. n[1] \in Left2(U)["icloud"] /\ SameName(c, n[1])
            BY <2>2, MatchesAre DEF IsMatch, SameName, Named
        <3>2. PICK k \in Pass3(U) : k[1] = n[1]
            BY <2>1, <3>1, PassedOn, OnMeans, SideValues
        <3> QED
            BY <1>2, <1>3, <1>5, <2>2, <3>2, OnMeans
    <2> QED
        BY <1>1, <1>2, <1>5, <2>2, PassedOn, OnMeans
<1> QED
    BY <1>4, <1>5, SideValues

LEMMA LooseCloses ==
    ASSUME NEW U, Sides(U), NEW s \in Side, NEW c \in Loose(U, s)
    PROVE  Closed(U, Alone(s, c))
<1>1. /\ c \notin On(s, UidPairs(U)) /\ c \notin On(s, ContentMatches(Left1(U)))
      /\ c \notin On(s, IdentityMatches(Left2(U)))
    BY LooseIsNoMatch
<1>2. \A M : c \notin On(s, M) => ClosedIn(M, Alone(s, c))
    BY AloneIs, OnMeans, SideValues DEF ClosedIn
<1>3. \A d \in Left3(U)[Other(s)] : ~ SameName(c, d) /\ ~ SameName(d, c)
    BY DEF Loose, SameName, Named
<1>4. ASSUME NEW d \in Left3(U)["icloud"], NEW e \in Left3(U)["fastmail"], SameName(d, e)
      PROVE  d \in Alone(s, c)["icloud"] <=> e \in Alone(s, c)["fastmail"]
    <2>1. CASE s = "icloud"
        BY <1>3, <1>4, <2>1, AloneIs DEF Other
    <2>2. CASE s = "fastmail"
        BY <1>3, <1>4, <2>2, AloneIs DEF Other
    <2> QED
        BY <2>1, <2>2, SideValues
<1> QED
    BY <1>1, <1>2, <1>4 DEF Closed
=============================================================================
