---------------------------- MODULE Baseline_proofs ----------------------------
(***************************************************************************)
(* Proofs about Baseline, for every two address books a run may begin      *)
(* with, every content people write and every number of edits and faults.  *)
(*                                                                         *)
(* A version that leaves its card is somewhere else first: in the history, *)
(* on another card, or in a journal entry that the next replay will put    *)
(* back.  IInv says when an entry is one of these (Counts), and what the   *)
(* operations still to run have to do with it (JournalApart).              *)
(*                                                                         *)
(* A card is settled by the plan or waits for its operation, and leaves    *)
(* that with a row or a failure; AInv says where it is meanwhile.          *)
(*                                                                         *)
(* A side gets a card of a name only when each of its own is the           *)
(* counterpart of one on the other side, or when the journal awaits it;    *)
(* NInv counts both.                                                       *)
(*                                                                         *)
(* What is still to run of a plan is what pairing would plan for the rest: *)
(* RInv relates the two through every step.                                *)
(***************************************************************************)
EXTENDS Baseline, Pairing_proofs, FiniteSetTheorems

\* No server rejects a card that is put back from the journal.
ReplaysServed == \A n \in 1 .. Len(Faults) : <<"reject", "replay">> \notin Faults[n]

\* A Recreate is about to delete the only card with its version while somebody
\* else's card is at the href it puts the new one at.
Clash ==
    /\ pc = "delete" /\ cur.archive = {}
    /\ \E w \in cur.then : At(w.side, w.card) # {}

OpSteps == {"archive", "first", "journal", "delete", "then", "save"}

\* A card is what it says it is.
IsCard(c) == c = [uid |-> c.uid, at |-> c.at, content |-> c.content, photo |-> c.photo]

BookSane ==
    /\ book = [s \in Side |-> book[s]]
    /\ \A s \in Side : \A c, d \in book[s] : IsCard(c) /\ (SameHref(c, d) => c = d)

SeenSane ==
    /\ seen = [s \in Side |-> seen[s]]
    /\ \A s \in Side : \A c \in seen[s] : IsCard(c)

\* Whether the history holds a card.
Archived(c, history) == \E r \in history : c = r.icloud \/ c = r.fastmail

\* A PUT over a card stays at its href, and that card is in the history or a
\* group; a PUT that creates goes to the href minted for its contact.
PutSane(op, w) ==
    /\ w.side \in Side /\ IsCard(w.card)
    /\ \A c \in w.over :
          SameHref(c, w.card) /\ (Archived(c, op.archive) \/ c.content.members # {})
    /\ w.over = {} => w.card.uid = op.uid /\ w.card.at = "minted"

\* What a Recreate journals is what it deletes and what it puts there.
Renews(op, j) ==
    /\ op.journal = {j} /\ op.delete = {j.old} /\ op.then = {Put("fastmail", {}, j.new)}
    /\ j.uid = op.uid /\ j.old.uid # op.uid
    /\ IF op.archive = {} THEN Version(j.old) = Version(j.new) ELSE Archived(j.old, op.archive)

OpSane(op) ==
    /\ \A w \in op.first \cup op.then : PutSane(op, w)
    /\ \A w \in op.first : w.over # {}
    /\ IF op.kind = "Recreate" THEN \E j : Renews(op, j)
       ELSE op.journal = {} /\ op.delete = {}

\* The operations still to run, the current one among them.
Pending == todo \cup {op \in {cur} : pc \in OpSteps}

\* The UIDs an operation gives a row or takes away.
Owns(op) == {op.uid} \cup {c.uid : c \in op.delete}

OpsSane ==
    /\ \A op \in Pending : OpSane(op)
    /\ \A p, q \in Pending : p # q => Owns(p) \cap Owns(q) = {}
    /\ pc \in OpSteps => cur \notin todo

\* What the current operation has done by the step it is at.
Control ==
    /\ pc \notin OpSteps \cup {"apply"} => todo = {}
    /\ pc \in OpSteps \ {"save"} => cur[pc] # {}
    /\ pc \in OpSteps \ {"archive"} => cur.archive \subseteq conflicts
    /\ pc \in {"delete", "then", "save"} => cur.journal \subseteq journal
    /\ pc \in {"list fastmail", "list icloud", "replay"} => pending = journal
    /\ pc \in {"read icloud", "read fastmail", "plan"} => journal = {}
    /\ faults \in Nat

\* An entry is of one contact, under two UIDs that no other entry has.
JournalSane ==
    \A j, k \in journal :
        /\ IsCard(j.new) /\ j.new.uid = j.uid /\ j.new.at = "minted"
        /\ j.uid = k.uid => j = k
        /\ j.uid # k.old.uid

\* An operation still to run has nothing to do with an entry, but the one it
\* has written itself.
JournalApart ==
    \A op \in Pending, j \in journal :
        \/ j.uid \notin Owns(op) /\ j.old.uid \notin Owns(op)
        \/ op = cur /\ pc \in {"delete", "then", "save"} /\ op.journal = {j}

\* Until the journal is replayed, what is there was listed.
SeenCovers ==
    pc \in {"list icloud", "replay"} => \A c \in book["fastmail"] : Listed("fastmail", c)

\* Whether an entry holds its version: neither of its cards is there, or was
\* there when the replay looked, and it is not about to go.
Counts(j) ==
    IF pc \in {"list icloud", "replay"}
    THEN ~ Listed("fastmail", j.new) /\ ~ Listed("fastmail", j.old)
    ELSE /\ At("fastmail", j.new) = {} /\ At("fastmail", j.old) = {}
         /\ ~ (pc = "save" /\ cur.kind = "Recreate" /\ cur.uid = j.uid)

Kept(v) ==
    \/ \E s \in Side : \E c \in book[s] : Version(c) = v
    \/ \E r \in conflicts : v = Version(r.icloud) \/ v = Version(r.fastmail)
    \/ \E j \in journal : Counts(j) /\ Version(j.new) = v

OwedKept == \A v \in owed : v[1].members = {} => Kept(v)

IInv ==
    /\ BookSane /\ SeenSane /\ OpsSane /\ Control
    /\ JournalSane /\ JournalApart /\ SeenCovers /\ OwedKept

(***************************************************************************)
(* The operations of a plan.                                               *)
(***************************************************************************)

\* What a Recreate is, field by field.
LEMMA RecreateIs ==
    ASSUME NEW m, NEW content, NEW archive, NEW first
    PROVE  LET op == Recreate(m, content, archive, first)
               j == Journaled(m, Minted(m[1].uid, content, m[2].photo))
           IN  /\ op.kind = "Recreate" /\ op.uid = m[1].uid
               /\ op.archive = archive /\ op.first = first
               /\ op.journal = {j} /\ op.delete = {m[2]} /\ op.then = {Put("fastmail", {}, j.new)}
               /\ j.uid = m[1].uid /\ j.old = m[2]
               /\ j.new = Minted(m[1].uid, content, m[2].photo)
BY DEF Recreate, StateOnly, Journaled

\* What the others are.
LEMMA ConflictIs ==
    ASSUME NEW m
    PROVE  LET op == ConflictOf(m) IN
           /\ op.kind = "Conflict" /\ op.uid = m[1].uid
           /\ op.archive = {VersionsOf(m)} /\ op.first = {} /\ op.journal = {} /\ op.delete = {}
           /\ op.then = {Put(Other(Winner), {Losing(m)}, [Losing(m) EXCEPT !.content = Winning(m).content])}
BY DEF ConflictOf, StateOnly

\* A group is rewritten on Fastmail first, then created on iCloud.
LEMMA CopyGroupIs ==
    ASSUME NEW c, NEW aliases
    PROVE  \E content :
              LET op == CopyGroup(c, aliases) IN
              /\ op.kind = "CopyGroup" /\ op.uid = c.uid
              /\ op.archive = {} /\ op.journal = {} /\ op.delete = {}
              /\ op.first = {Put("fastmail", {c}, [c EXCEPT !.content = content])}
              /\ op.then = {Put("icloud", {}, Minted(c.uid, content, c.photo))}
BY DEF CopyGroup, StateOnly

\* A copy is one PUT.
LEMMA CreateIs ==
    ASSUME NEW s, NEW c
    PROVE  LET op == CreateOf(s, c) IN
           /\ op.kind = "Create" /\ op.uid = c.uid
           /\ op.archive = {} /\ op.first = {} /\ op.journal = {} /\ op.delete = {}
           /\ op.then = {Put(Other(s), {}, Minted(c.uid, c.content, c.photo))}
BY DEF CreateOf, StateOnly

\* An Adopt writes its row only.
LEMMA AdoptIs ==
    ASSUME NEW m
    PROVE  LET op == AdoptOf(m) IN
           /\ op.kind = "Adopt" /\ op.uid = m[1].uid
           /\ op.archive = {} /\ op.first = {} /\ op.journal = {} /\ op.delete = {} /\ op.then = {}
BY DEF AdoptOf, StateOnly

\* A put, a minted card and a rewritten one, field by field.
LEMMA PutIs ==
    ASSUME NEW s, NEW over, NEW c
    PROVE  Put(s, over, c).side = s /\ Put(s, over, c).over = over /\ Put(s, over, c).card = c
BY DEF Put

\* What a minted card is.
LEMMA MintedIs ==
    ASSUME NEW u, NEW content, NEW photo
    PROVE  /\ IsCard(Minted(u, content, photo))
           /\ Minted(u, content, photo).uid = u /\ Minted(u, content, photo).at = "minted"
           /\ Version(Minted(u, content, photo)) = <<content, photo>>
BY DEF Minted, IsCard, Version

\* A rewritten card stays at its href.
LEMMA RewrittenIs ==
    ASSUME NEW c, IsCard(c), NEW content
    PROVE  LET d == [c EXCEPT !.content = content] IN
           IsCard(d) /\ SameHref(c, d) /\ Version(d) = <<content, c.photo>>
<1> DEFINE r == [uid |-> c.uid, at |-> c.at, content |-> c.content, photo |-> c.photo]
           d == [r EXCEPT !.content = content]
<1>1. c = r
  BY DEF IsCard
<1>2. /\ d = [uid |-> c.uid, at |-> c.at, content |-> content, photo |-> c.photo]
      /\ d.uid = c.uid /\ d.at = c.at /\ d.content = content /\ d.photo = c.photo
  OBVIOUS
<1>3. [c EXCEPT !.content = content] = d
  BY <1>1
<1> HIDE DEF r, d
<1> QED BY <1>2, <1>3 DEF IsCard, SameHref, Version

\* The cards the planner pairs: one of a UID on a side.
LEMMA UnsyncedSides ==
    ASSUME SeenSane
    PROVE  /\ Sides(Unsynced(seen))
           /\ \A s \in Side : \A c \in Unsynced(seen)[s] : IsCard(c)
<1> DEFINE U == Unsynced(seen)
<1>1. U = [s \in Side |-> U[s]]
      /\ \A s \in Side : U[s] = {c \in Free(seen, s) : rows[c.uid] = None /\ c.uid \notin Duplicated(seen)}
  BY DEF Unsynced
<1>2. \A s \in Side : Free(seen, s) \subseteq seen[s]
  BY DEF Free
<1>3. ASSUME NEW s \in Side, NEW c \in U[s], NEW d \in U[s], c.uid = d.uid, c # d
      PROVE  FALSE
  <2>1. c \in Free(seen, s) /\ d \in Free(seen, s) /\ c.uid \notin Duplicated(seen)
    BY <1>1
  <2>2. c.uid \in {e.uid : e \in {e \in Free(seen, s) : \E f \in Free(seen, s) : f # e /\ f.uid = e.uid}}
    BY <1>3, <2>1
  <2> QED BY <2>1, <2>2 DEF Duplicated
<1>4. \A s \in Side : \A c \in U[s] : IsCard(c)
  BY <1>1, <1>2 DEF SeenSane
<1>5. Sides(U)
  BY <1>1, <1>3 DEF Sides
<1> QED BY <1>4, <1>5

\* Every match is of cards on each side; the passes have no card in common,
\* and the cards to copy are in none.
LEMMA PassesApart ==
    ASSUME NEW U, Sides(U), NEW K
    PROVE  LET p == Paired(U, K)
               M == p.byUid \cup p.byContent \cup p.byIdentity
           IN  /\ M \subseteq Candidates(U) /\ Matching(M)
               /\ p.byUid = UidPairs(U)
               /\ Apart(p.byUid, p.byContent \cup p.byIdentity) /\ Apart(p.byContent, p.byIdentity)
               /\ \A m \in p.byContent : SameContent(m[1], m[2])
               /\ \A s \in Side : p.copied[s] \subseteq U[s] \ On(s, M)
<1> DEFINE p == Paired(U, K)
           M == p.byUid \cup p.byContent \cup p.byIdentity
<1>1. /\ Matching(p.byUid) /\ Matching(p.byContent) /\ Matching(p.byIdentity)
      /\ Apart(p.byUid, p.byContent) /\ Apart(p.byUid, p.byIdentity)
      /\ Apart(p.byContent, p.byIdentity)
  BY NoCardIsPairedTwice
<1>2. /\ p.byUid = UidPairs(U) /\ p.byContent = Pass2(U) /\ p.byIdentity = Pass3(U)
      /\ \A s \in Side : p.copied[s] = Copied(Left3(U), K, Contested(U), s)
  BY PairedFields
<1>3. p.byUid \subseteq Candidates(U) /\ p.byContent \subseteq Candidates(U)
  <2>1. p.byContent \subseteq Candidates(Left(U, UidPairs(U)))
    BY <1>2, PassCandidates DEF Left1
  <2> QED BY <1>2, <2>1, UidPairsMatch, LaterIsApart
<1>4. p.byIdentity \subseteq Candidates(U)
  <2>1. p.byIdentity \subseteq Candidates(Left(Left1(U), Pass2(U)))
    BY <1>2, PassCandidates DEF Left2
  <2>2. p.byIdentity \subseteq Candidates(Left(U, UidPairs(U)))
    BY <2>1, PassSides, LaterIsApart DEF Left1
  <2> QED BY <2>2, LaterIsApart
<1>5. \A m \in p.byContent : SameContent(m[1], m[2])
  BY <1>2 DEF Pass2, Mutual, ContentMatches
<1>6. ASSUME NEW s \in Side
      PROVE  p.copied[s] \subseteq U[s] \ On(s, M)
  <2>1. p.copied[s] \subseteq Left3(U)[s]
    BY <1>2 DEF Copied
  <2>2. Left3(U)[s] = ((U[s] \ On(s, UidPairs(U))) \ On(s, Pass2(U))) \ On(s, Pass3(U))
    BY LeftOver
  <2> QED BY <1>2, <2>1, <2>2 DEF On
<1>7. Matching(M)
  BY <1>1 DEF Matching, Apart
<1>8. Apart(p.byUid, p.byContent \cup p.byIdentity)
  BY <1>1 DEF Apart
<1>9. M \subseteq Candidates(U)
  BY <1>3, <1>4
<1> HIDE DEF p
<1> QED BY <1>1, <1>2, <1>3, <1>4, <1>5, <1>6, <1>7, <1>8, <1>9 DEF p

\* All matches of the three passes.
Matches(p) == p.byUid \cup p.byContent \cup p.byIdentity

\* Matches and copies have no UID in common.
LEMMA UidsApart ==
    ASSUME NEW U, Sides(U), NEW K
    PROVE  LET p == Paired(U, K) IN
           /\ \A m, n \in Matches(p) :
                 m # n => {m[1].uid, m[2].uid} \cap {n[1].uid, n[2].uid} = {}
           /\ \A m \in Matches(p), s \in Side : \A c \in p.copied[s] :
                 c.uid # m[1].uid /\ c.uid # m[2].uid
           /\ \A s, t \in Side : \A c \in p.copied[s], d \in p.copied[t] :
                 c.uid = d.uid => s = t /\ c = d
<1> DEFINE p == Paired(U, K)
<1>1. /\ \A m \in Matches(p) : m[1] \in U["icloud"] /\ m[2] \in U["fastmail"]
      /\ Matching(Matches(p))
      /\ UidPairs(U) \subseteq Matches(p)
      /\ \A s \in Side : \A c \in p.copied[s] : c \in U[s] /\ c \notin On(s, Matches(p))
  <2>1. /\ Matches(p) \subseteq Candidates(U) /\ Matching(Matches(p)) /\ p.byUid = UidPairs(U)
        /\ \A s \in Side : p.copied[s] \subseteq U[s] \ On(s, Matches(p))
    BY PassesApart DEF Matches
  <2> QED BY <2>1 DEF Candidates, Matches
<1>2. ASSUME NEW i \in U["icloud"], NEW f \in U["fastmail"], i.uid = f.uid
      PROVE  \E m \in Matches(p) : m[1] = i /\ m[2] = f
  <2>1. <<i, f>> \in UidPairs(U)
    BY <1>2 DEF UidPairs, Candidates
  <2> QED BY <1>1, <2>1
<1>3. \A s \in Side : \A c \in p.copied[s] :
          /\ c \in U[s]
          /\ s = "icloud" => \A m \in Matches(p) : m[1] # c
          /\ s = "fastmail" => \A m \in Matches(p) : m[2] # c
  BY <1>1 DEF On, End
<1>4. \A s \in Side : \A c, d \in U[s] : c.uid = d.uid => c = d
  BY DEF Sides
<1> HIDE DEF p
<1>5. ASSUME NEW m \in Matches(p), NEW n \in Matches(p), m # n
      PROVE  {m[1].uid, m[2].uid} \cap {n[1].uid, n[2].uid} = {}
  <2>1. m[1] # n[1] /\ m[2] # n[2]
    BY <1>1, <1>5 DEF Matching
  <2>2. m[1].uid # n[1].uid /\ m[2].uid # n[2].uid
    BY <1>1, <1>4, <2>1, SideValues
  <2>3. m[1].uid # n[2].uid
    <3> SUFFICES ASSUME m[1].uid = n[2].uid PROVE FALSE
      OBVIOUS
    <3>1. PICK k \in Matches(p) : k[1] = m[1] /\ k[2] = n[2]
      BY <1>1, <1>2
    <3> QED BY <1>1, <1>5, <3>1 DEF Matching
  <2>4. n[1].uid # m[2].uid
    <3> SUFFICES ASSUME n[1].uid = m[2].uid PROVE FALSE
      OBVIOUS
    <3>1. PICK k \in Matches(p) : k[1] = n[1] /\ k[2] = m[2]
      BY <1>1, <1>2
    <3> QED BY <1>1, <1>5, <3>1 DEF Matching
  <2> QED BY <2>2, <2>3, <2>4
<1>6. ASSUME NEW m \in Matches(p), NEW s \in Side, NEW c \in p.copied[s]
      PROVE  c.uid # m[1].uid /\ c.uid # m[2].uid
  <2>1. m[1] \in U["icloud"] /\ m[2] \in U["fastmail"] /\ c \in U[s]
    BY <1>1, <1>3
  <2>2. CASE s = "icloud"
    BY <1>2, <1>3, <1>4, <2>1, <2>2
  <2>3. CASE s = "fastmail"
    BY <1>2, <1>3, <1>4, <2>1, <2>3
  <2> QED BY <2>2, <2>3, SideValues
<1>7. ASSUME NEW s \in Side, NEW t \in Side, NEW c \in p.copied[s], NEW d \in p.copied[t], c.uid = d.uid
      PROVE  s = t /\ c = d
  <2>1. c \in U[s] /\ d \in U[t]
    BY <1>3
  <2>2. CASE s = t
    BY <1>4, <1>7, <2>1, <2>2
  <2>3. CASE s # t
    BY <1>2, <1>3, <1>7, <2>1, <2>3, SideValues
  <2> QED BY <2>2, <2>3
<1> QED BY <1>5, <1>6, <1>7 DEF p

\* The operation a match becomes.
OpOf(m, p) ==
    IF m \in p.byUid THEN IF SameContent(m[1], m[2]) THEN AdoptOf(m) ELSE ConflictOf(m)
    ELSE IF m \in p.byContent THEN ContentPair(m) ELSE IdentityPair(m)

\* Where an operation of a plan comes from.
From(op, p, aliases) ==
    \/ \E m \in Matches(p) : op = OpOf(m, p)
    \/ \E s \in Side : \E c \in p.copied[s] : op = CopyOf(s, c, aliases)

\* Every operation of a plan is for a match or a card to copy.
LEMMA PlannedFrom ==
    ASSUME SeenSane
    PROVE  \E aliases : \A op \in CycleOps(seen) : From(op, PairedIn(seen), aliases)
<1> DEFINE p == PairedIn(seen)
           al == renamed \cup {<<m[2].uid, m[1].uid>> : m \in p.byContent \cup p.byIdentity}
<1>1. Apart(p.byUid, p.byContent \cup p.byIdentity) /\ Apart(p.byContent, p.byIdentity)
  BY UnsyncedSides, PassesApart DEF PairedIn
<1>2. ASSUME NEW op \in CycleOps(seen)
      PROVE  From(op, p, al)
  <2> DEFINE copies == UNION {{CopyOf(s, c, al) : c \in p.copied[s]} : s \in Side}
  <2>1. op \in {AdoptOf(m) : m \in {m \in p.byUid : SameContent(m[1], m[2])}}
               \cup {ConflictOf(m) : m \in {m \in p.byUid : ~ SameContent(m[1], m[2])}}
               \cup {ContentPair(m) : m \in p.byContent}
               \cup {IdentityPair(m) : m \in p.byIdentity}
               \cup copies
    BY DEF CycleOps
  <2> HIDE DEF p, al
  <2>2. op \in copies => \E s \in Side : \E c \in p.copied[s] : op = CopyOf(s, c, al)
    OBVIOUS
  <2> HIDE DEF copies
  <2>3. /\ p.byContent \cap p.byUid = {}
        /\ p.byIdentity \cap (p.byUid \cup p.byContent) = {}
    BY <1>1 DEF Apart
  <2> QED BY <2>1, <2>2, <2>3 DEF From, OpOf, Matches
<1> HIDE DEF al
<1> QED BY <1>2

\* A card of each side, as the planner pairs them.
LEMMA RecreateSane ==
    ASSUME NEW m, IsCard(m[1]), IsCard(m[2]), m[1].uid # m[2].uid, NEW content, NEW archive, NEW first,
           \A w \in first : w.over # {} /\ PutSane(Recreate(m, content, archive, first), w),
           archive = {} => content = m[2].content,
           archive # {} => Archived(m[2], archive)
    PROVE  LET op == Recreate(m, content, archive, first) IN
           OpSane(op) /\ Owns(op) \subseteq {m[1].uid, m[2].uid}
<1> DEFINE op == Recreate(m, content, archive, first)
           j == Journaled(m, Minted(m[1].uid, content, m[2].photo))
           new == Minted(m[1].uid, content, m[2].photo)
<1>1. /\ op.kind = "Recreate" /\ op.uid = m[1].uid
      /\ op.archive = archive /\ op.first = first
      /\ op.journal = {j} /\ op.delete = {m[2]} /\ op.then = {Put("fastmail", {}, j.new)}
      /\ j.uid = m[1].uid /\ j.old = m[2] /\ j.new = new
  BY RecreateIs
<1>2. IsCard(new) /\ new.uid = m[1].uid /\ new.at = "minted" /\ Version(new) = <<content, m[2].photo>>
  BY MintedIs
<1> HIDE DEF op, j, new
<1>3. PutSane(op, Put("fastmail", {}, j.new))
  BY <1>1, <1>2, PutIs, SideValues DEF PutSane
<1>4. Renews(op, j)
  BY <1>1, <1>2 DEF Renews, Version
<1>5. \A w \in op.first : w.over # {} /\ PutSane(op, w)
  BY <1>1 DEF op
<1>6. OpSane(op)
  BY <1>1, <1>3, <1>4, <1>5 DEF OpSane
<1>7. Owns(op) \subseteq {m[1].uid, m[2].uid}
  BY <1>1 DEF Owns
<1> QED BY <1>6, <1>7 DEF op

\* Every operation for a match is sane, and is about its two UIDs.
LEMMA MatchedSane ==
    ASSUME NEW U, Sides(U), \A s \in Side : \A c \in U[s] : IsCard(c), NEW K,
           NEW m \in Matches(Paired(U, K))
    PROVE  LET op == OpOf(m, Paired(U, K)) IN
           OpSane(op) /\ Owns(op) \subseteq {m[1].uid, m[2].uid}
<1> DEFINE p == Paired(U, K)
           op == OpOf(m, p)
<1>1. m \in Candidates(U)
      /\ p.byUid = UidPairs(U)
      /\ \A n \in p.byContent : SameContent(n[1], n[2])
  BY PassesApart DEF Matches
<1>2. m[1] \in U["icloud"] /\ m[2] \in U["fastmail"]
  BY <1>1 DEF Candidates
<1>3. IsCard(m[1]) /\ IsCard(m[2])
  BY <1>2, SideValues
<1>4. m \in p.byUid <=> m[1].uid = m[2].uid
  BY <1>1 DEF UidPairs
<1>5. Archived(m[1], {VersionsOf(m)}) /\ Archived(m[2], {VersionsOf(m)})
  BY DEF Archived, VersionsOf
<1> HIDE DEF p
<1>6. CASE m \in p.byUid /\ SameContent(m[1], m[2])
  <2>1. op = AdoptOf(m)
    BY <1>6 DEF OpOf
  <2>2. /\ op.kind = "Adopt" /\ op.uid = m[1].uid
        /\ op.archive = {} /\ op.first = {} /\ op.journal = {} /\ op.delete = {} /\ op.then = {}
    BY <2>1, AdoptIs
  <2> HIDE DEF op
  <2>3. OpSane(op) /\ Owns(op) \subseteq {m[1].uid, m[2].uid}
    BY <2>2 DEF OpSane, Owns
  <2> QED BY <2>3 DEF op, p
<1>7. CASE m \in p.byUid /\ ~ SameContent(m[1], m[2])
  <2>1. op = ConflictOf(m)
    BY <1>7 DEF OpOf
  <2> DEFINE d == [Losing(m) EXCEPT !.content = Winning(m).content]
             w == Put(Other(Winner), {Losing(m)}, d)
  <2>2. /\ op.kind = "Conflict" /\ op.uid = m[1].uid
        /\ op.archive = {VersionsOf(m)} /\ op.first = {} /\ op.journal = {} /\ op.delete = {}
        /\ op.then = {w}
    BY <2>1, ConflictIs
  <2>3. IsCard(Losing(m)) /\ Archived(Losing(m), {VersionsOf(m)})
    BY <1>3, <1>5 DEF Losing
  <2>4. IsCard(d) /\ SameHref(Losing(m), d)
    BY <2>3, RewrittenIs
  <2>5. Other(Winner) \in Side
    BY DEF Other, Side
  <2>6. w.side = Other(Winner) /\ w.over = {Losing(m)} /\ w.card = d
    BY PutIs
  <2> HIDE DEF d, w, op
  <2>7. PutSane(op, w)
    BY <2>2, <2>3, <2>4, <2>5, <2>6 DEF PutSane
  <2>8. OpSane(op) /\ Owns(op) \subseteq {m[1].uid, m[2].uid}
    BY <2>2, <2>7 DEF OpSane, Owns
  <2> QED BY <2>8 DEF op, p
<1>8. CASE m \notin p.byUid /\ m \in p.byContent
  <2>1. op = Recreate(m, m[1].content, {}, {})
    BY <1>8 DEF OpOf, ContentPair
  <2>2. m[1].content = m[2].content
    BY <1>1, <1>8 DEF SameContent, p
  <2> QED BY <2>1, <2>2, <1>3, <1>4, <1>8, RecreateSane DEF p
<1>9. CASE m \notin p.byUid /\ m \notin p.byContent
  <2> DEFINE d == [m[1] EXCEPT !.content = m[2].content]
             w == Put("icloud", {m[1]}, d)
             first == IF Winner = "icloud" THEN {} ELSE {w}
             content == Winning(m).content
  <2>1. op = Recreate(m, content, {VersionsOf(m)}, first)
    BY <1>9 DEF OpOf, IdentityPair
  <2>2. IsCard(d) /\ SameHref(m[1], d)
    BY <1>3, RewrittenIs
  <2>3. op.archive = {VersionsOf(m)}
    BY <2>1, RecreateIs
  <2>4. w.side = "icloud" /\ w.over = {m[1]} /\ w.card = d
    BY PutIs
  <2> HIDE DEF d, w, op, content
  <2>5. PutSane(op, w)
    BY <2>2, <2>3, <2>4, <1>5, SideValues DEF PutSane
  <2>6. \A x \in first : x.over # {} /\ PutSane(op, x)
    BY <2>5, <2>4
  <2> HIDE DEF first
  <2>7. \A x \in first : x.over # {} /\ PutSane(Recreate(m, content, {VersionsOf(m)}, first), x)
    BY <2>6, <2>1
  <2>8. LET o == Recreate(m, content, {VersionsOf(m)}, first) IN
        OpSane(o) /\ Owns(o) \subseteq {m[1].uid, m[2].uid}
    BY <2>7, <1>3, <1>4, <1>5, <1>9, RecreateSane
  <2> QED BY <2>8, <2>1 DEF op, p
<1> QED BY <1>6, <1>7, <1>8, <1>9 DEF p

\* So is every copy, which is about its own.
LEMMA CopiedSane ==
    ASSUME NEW s \in Side, NEW c, IsCard(c), NEW aliases
    PROVE  LET op == CopyOf(s, c, aliases) IN OpSane(op) /\ Owns(op) \subseteq {c.uid}
<1> DEFINE op == CopyOf(s, c, aliases)
<1>0. Other(s) \in Side
  BY DEF Other, Side
<1>1. CASE s = "fastmail" /\ \E a \in aliases : a[1] \in c.content.members
  <2>1. op = CopyGroup(c, aliases)
    BY <1>1 DEF CopyOf
  <2>2. PICK content :
              /\ op.kind = "CopyGroup" /\ op.uid = c.uid
              /\ op.archive = {} /\ op.journal = {} /\ op.delete = {}
              /\ op.first = {Put("fastmail", {c}, [c EXCEPT !.content = content])}
              /\ op.then = {Put("icloud", {}, Minted(c.uid, content, c.photo))}
    <3>1. \E content : LET o == CopyGroup(c, aliases) IN
              /\ o.kind = "CopyGroup" /\ o.uid = c.uid
              /\ o.archive = {} /\ o.journal = {} /\ o.delete = {}
              /\ o.first = {Put("fastmail", {c}, [c EXCEPT !.content = content])}
              /\ o.then = {Put("icloud", {}, Minted(c.uid, content, c.photo))}
      BY CopyGroupIs
    <3> HIDE DEF op
    <3> QED BY <2>1, <3>1
  <2> DEFINE d == [c EXCEPT !.content = content]
             v == Put("fastmail", {c}, d)
             new == Minted(c.uid, content, c.photo)
             w == Put("icloud", {}, new)
  <2>3. IsCard(d) /\ SameHref(c, d)
    BY RewrittenIs
  <2>4. IsCard(new) /\ new.uid = c.uid /\ new.at = "minted"
    BY MintedIs
  <2>5. v.side = "fastmail" /\ v.over = {c} /\ v.card = d /\ w.side = "icloud" /\ w.over = {} /\ w.card = new
    BY PutIs
  <2>6. c.content.members # {}
    BY <1>1
  <2>7. op.first = {v} /\ op.then = {w}
    BY <2>2
  <2> HIDE DEF d, v, new, w, op
  <2>8. PutSane(op, v) /\ PutSane(op, w)
    BY <2>2, <2>3, <2>4, <2>5, <2>6, SideValues DEF PutSane
  <2> QED BY <2>2, <2>5, <2>7, <2>8 DEF OpSane, Owns, op
<1>2. CASE ~ (s = "fastmail" /\ \E a \in aliases : a[1] \in c.content.members)
  <2>1. op = CreateOf(s, c)
    BY <1>2 DEF CopyOf
  <2> DEFINE new == Minted(c.uid, c.content, c.photo)
             w == Put(Other(s), {}, new)
  <2>2. /\ op.kind = "Create" /\ op.uid = c.uid
        /\ op.archive = {} /\ op.first = {} /\ op.journal = {} /\ op.delete = {}
        /\ op.then = {w}
    BY <2>1, CreateIs
  <2>3. IsCard(new) /\ new.uid = c.uid /\ new.at = "minted"
    BY MintedIs
  <2>4. w.side = Other(s) /\ w.over = {} /\ w.card = new
    BY PutIs
  <2> HIDE DEF new, w, op
  <2>5. PutSane(op, w)
    BY <2>2, <2>3, <2>4, <1>0 DEF PutSane
  <2> QED BY <2>2, <2>5 DEF OpSane, Owns, op
<1> QED BY <1>1, <1>2

\* The operations of a plan are sane and about different UIDs.
LEMMA PlannedSane ==
    ASSUME SeenSane
    PROVE  /\ \A op \in CycleOps(seen) : OpSane(op)
           /\ \A p, q \in CycleOps(seen) : p # q => Owns(p) \cap Owns(q) = {}
<1> DEFINE U == Unsynced(seen)
           K == Known(seen)
           P == Paired(U, K)
<1>1. Sides(U) /\ \A s \in Side : \A c \in U[s] : IsCard(c)
  BY UnsyncedSides
<1>2. PICK aliases : \A op \in CycleOps(seen) : From(op, P, aliases)
  BY PlannedFrom DEF PairedIn
<1> HIDE DEF U, K
<1>3. /\ \A m, n \in Matches(P) : m # n => {m[1].uid, m[2].uid} \cap {n[1].uid, n[2].uid} = {}
      /\ \A m \in Matches(P), s \in Side : \A c \in P.copied[s] : c.uid # m[1].uid /\ c.uid # m[2].uid
      /\ \A s, t \in Side : \A c \in P.copied[s], d \in P.copied[t] : c.uid = d.uid => s = t /\ c = d
  BY <1>1, UidsApart
<1>4. \A s \in Side : \A c \in P.copied[s] : IsCard(c)
  BY <1>1, PassesApart
<1>5. \A m \in Matches(P) : OpSane(OpOf(m, P)) /\ Owns(OpOf(m, P)) \subseteq {m[1].uid, m[2].uid}
  BY <1>1, MatchedSane
<1>6. \A s \in Side : \A c \in P.copied[s] :
          OpSane(CopyOf(s, c, aliases)) /\ Owns(CopyOf(s, c, aliases)) \subseteq {c.uid}
  BY <1>4, CopiedSane
<1> HIDE DEF P
<1>7. \A op \in CycleOps(seen) : OpSane(op)
  BY <1>2, <1>5, <1>6 DEF From
<1>8. ASSUME NEW p \in CycleOps(seen), NEW q \in CycleOps(seen), p # q
      PROVE  Owns(p) \cap Owns(q) = {}
  <2>1. From(p, P, aliases) /\ From(q, P, aliases)
    BY <1>2
  <2>2. ASSUME NEW m \in Matches(P), NEW n \in Matches(P), p = OpOf(m, P), q = OpOf(n, P)
        PROVE  Owns(p) \cap Owns(q) = {}
    <3>1. m # n
      BY <1>8, <2>2
    <3> QED BY <1>3, <1>5, <2>2, <3>1
  <2>3. ASSUME NEW m \in Matches(P), NEW s \in Side, NEW c \in P.copied[s], 
               \/ p = OpOf(m, P) /\ q = CopyOf(s, c, aliases)
               \/ q = OpOf(m, P) /\ p = CopyOf(s, c, aliases)
        PROVE  Owns(p) \cap Owns(q) = {}
    <3>1. c.uid # m[1].uid /\ c.uid # m[2].uid
      BY <1>3
    <3> QED BY <1>5, <1>6, <2>3, <3>1
  <2>4. ASSUME NEW s \in Side, NEW c \in P.copied[s], NEW t \in Side, NEW d \in P.copied[t],
               p = CopyOf(s, c, aliases), q = CopyOf(t, d, aliases)
        PROVE  Owns(p) \cap Owns(q) = {}
    <3>1. c.uid # d.uid
      BY <1>3, <1>8, <2>4
    <3> QED BY <1>6, <2>4, <3>1
  <2> QED BY <2>1, <2>2, <2>3, <2>4 DEF From
<1> QED BY <1>7, <1>8

(***************************************************************************)
(* The steps of an operation.                                              *)
(***************************************************************************)
LEMMA OrderIs ==
    /\ Order[1] = "archive" /\ Order[2] = "first" /\ Order[3] = "journal"
    /\ Order[4] = "delete" /\ Order[5] = "then" /\ Order[6] = "save"
BY DEF Order

\* The next step is one the operation has, and it has none before it.
LEMMA StepIs ==
    ASSUME NEW op, NEW k \in 1 .. 6
    PROVE  \E i \in k .. 6 :
              /\ StepOf(op, k) = Order[i]
              /\ i = 6 \/ op[Order[i]] # {}
              /\ \A j \in k .. (i - 1) : op[Order[j]] = {}
<1> DEFINE E(i) == op[Order[i]] # {}
           Ok(n, i) == (i = 6 \/ E(i)) /\ \A j \in n .. (i - 1) : ~ E(j)
<1> HIDE DEF E
<1>1. ASSUME NEW n \in 1 .. 5, \E i \in (n + 1) .. 6 : Ok(n + 1, i)
      PROVE  \E i \in n .. 6 : Ok(n, i)
  <2>1. CASE E(n)
    <3>1. Ok(n, n)
      BY <2>1
    <3> QED BY <3>1
  <2>2. CASE ~ E(n)
    <3>1. PICK i \in (n + 1) .. 6 : Ok(n + 1, i)
      BY <1>1
    <3>2. \A j \in n .. (i - 1) : j = n \/ j \in (n + 1) .. (i - 1)
      OBVIOUS
    <3>3. Ok(n, i) /\ i \in n .. 6
      BY <2>2, <3>1, <3>2
    <3> QED BY <3>3
  <2> QED BY <2>1, <2>2
<1>2. \E i \in 6 .. 6 : Ok(6, i)
  OBVIOUS
<1>3. \E i \in 5 .. 6 : Ok(5, i)
  BY <1>1, <1>2
<1>4. \E i \in 4 .. 6 : Ok(4, i)
  BY <1>1, <1>3
<1>5. \E i \in 3 .. 6 : Ok(3, i)
  BY <1>1, <1>4
<1>6. \E i \in 2 .. 6 : Ok(2, i)
  BY <1>1, <1>5
<1>7. \E i \in 1 .. 6 : Ok(1, i)
  BY <1>1, <1>6
<1>8. \E i \in k .. 6 : Ok(k, i)
  <2>1. k = 1 \/ k = 2 \/ k = 3 \/ k = 4 \/ k = 5 \/ k = 6
    OBVIOUS
  <2> HIDE DEF Ok
  <2> QED BY <2>1, <1>2, <1>3, <1>4, <1>5, <1>6, <1>7
<1> DEFINE i0 == CHOOSE i \in k .. 6 : Ok(k, i)
<1>9. i0 \in k .. 6 /\ Ok(k, i0)
  <2> HIDE DEF Ok
  <2> QED BY <1>8
<1>10. StepOf(op, k) = Order[i0]
  BY DEF StepOf, E
<1> HIDE DEF i0
<1> QED BY <1>9, <1>10 DEF E

\* What is over by the step at or after the k-th.
LEMMA StepFacts ==
    ASSUME NEW op, NEW k \in 1 .. 6
    PROVE  LET s == StepOf(op, k) IN
           /\ s \in OpSteps
           /\ s # "save" => op[s] # {}
           /\ k = 1 /\ s # "archive" => op.archive = {}
           /\ k > 1 => s # "archive"
           /\ k > 3 => s \in {"delete", "then", "save"}
           /\ k <= 3 /\ s \in {"delete", "then", "save"} => op.journal = {}
           /\ k <= 4 /\ s \in {"then", "save"} => op.delete = {}
           /\ k > 4 => s # "delete"
           /\ k <= 5 /\ s = "save" => op.then = {}
           /\ k = 6 => s = "save"
<1> DEFINE s == StepOf(op, k)
<1>1. PICK i \in k .. 6 :
              /\ s = Order[i]
              /\ i = 6 \/ op[Order[i]] # {}
              /\ \A j \in k .. (i - 1) : op[Order[j]] = {}
  BY StepIs
<1> HIDE DEF s
<1>2. i = 1 \/ i = 2 \/ i = 3 \/ i = 4 \/ i = 5 \/ i = 6
  OBVIOUS
<1>3. s \in OpSteps /\ (s # "save" => op[s] # {})
  BY <1>1, <1>2, OrderIs DEF OpSteps
<1>4. /\ s = "archive" <=> i = 1
      /\ s = "delete" <=> i = 4
      /\ s = "save" <=> i = 6
      /\ s \in {"delete", "then", "save"} <=> i > 3
      /\ s \in {"then", "save"} <=> i > 4
  BY <1>1, <1>2, OrderIs
<1>5. /\ 1 \in k .. (i - 1) => op.archive = {}
      /\ 3 \in k .. (i - 1) => op.journal = {}
      /\ 4 \in k .. (i - 1) => op.delete = {}
      /\ 5 \in k .. (i - 1) => op.then = {}
  BY <1>1, OrderIs
<1>6. i \in Nat /\ k \in Nat /\ k <= i /\ 1 <= k /\ i <= 6
  OBVIOUS
<1>7. /\ k = 1 /\ i # 1 => 1 \in k .. (i - 1)
      /\ k > 1 => i # 1
      /\ k > 3 => i > 3
      /\ k <= 3 /\ i > 3 => 3 \in k .. (i - 1)
      /\ k <= 4 /\ i > 4 => 4 \in k .. (i - 1)
      /\ k > 4 => i # 4
      /\ k <= 5 /\ i = 6 => 5 \in k .. (i - 1)
      /\ k = 6 => i = 6
  BY <1>6
<1>8. /\ k = 1 /\ s # "archive" => op.archive = {}
      /\ k > 1 => s # "archive"
      /\ k > 3 => s \in {"delete", "then", "save"}
  BY <1>4, <1>5, <1>7
<1>9. /\ k <= 3 /\ s \in {"delete", "then", "save"} => op.journal = {}
      /\ k <= 4 /\ s \in {"then", "save"} => op.delete = {}
      /\ k > 4 => s # "delete"
      /\ k <= 5 /\ s = "save" => op.then = {}
      /\ k = 6 => s = "save"
  BY <1>4, <1>5, <1>7
<1> QED BY <1>3, <1>8, <1>9 DEF s

\* Where a step leads.
LEMMA ContinueMeans ==
    ASSUME Continue, NEW n \in 1 .. 5, pc = Order[n]
    PROVE  pc' = StepOf(cur, n + 1)
<1>1. \A i \in 1 .. 5 : Order[i] = pc <=> i = n
  BY OrderIs
<1>2. (CHOOSE i \in 1 .. 5 : Order[i] = pc) = n
  BY <1>1
<1>3. 1 + n = n + 1
  OBVIOUS
<1> QED BY <1>2, <1>3 DEF Continue

(***************************************************************************)
(* What keeps the invariant.                                               *)
(***************************************************************************)
\* Being at one href is an equivalence.
LEMMA HrefsEqual ==
    /\ \A c : SameHref(c, c)
    /\ \A c, d : SameHref(c, d) => SameHref(d, c)
    /\ \A c, d, e : SameHref(c, d) /\ SameHref(d, e) => SameHref(c, e)
    /\ \A c, d : c.uid # d.uid => ~ SameHref(c, d)
BY DEF SameHref

\* Who is at an href.
LEMMA NobodyAt ==
    ASSUME NEW s, NEW card
    PROVE  At(s, card) = {} <=> \A c \in book[s] : ~ SameHref(c, card)
BY DEF At, SameHref

\* The same after a step.
LEMMA NobodyAtNext ==
    ASSUME NEW s, NEW card
    PROVE  (At(s, card) = {})' <=> \A c \in book'[s] : ~ SameHref(c, card)
BY DEF At, SameHref

\* The invariant does not look at failures, rows, reports and clocks.
LEMMA IInvLooksAt ==
    ASSUME IInv, UNCHANGED <<book, seen, todo, cur, pc, conflicts, journal, pending, faults, owed>>
    PROVE  IInv'
BY DEF IInv, BookSane, SeenSane, OpsSane, Control, JournalSane, JournalApart, SeenCovers, OwedKept,
       Pending, Counts, Kept, At, Listed

\* What people do, and a clock that goes on, leave the daemon alone.
LEMMA DaemonStays ==
    ASSUME IInv, UNCHANGED <<seen, todo, cur, pc, conflicts, journal, pending, faults>>
    PROVE  SeenSane' /\ OpsSane' /\ Control' /\ JournalSane' /\ JournalApart'
<1>1. SeenSane'
  BY DEF IInv, SeenSane
<1>2. OpsSane'
  BY DEF IInv, OpsSane, Pending
<1>3. Control'
  BY DEF IInv, Control
<1>4. JournalSane'
  BY DEF IInv, JournalSane
<1>5. JournalApart'
  BY DEF IInv, JournalApart, Pending
<1> QED BY <1>1, <1>2, <1>3, <1>4, <1>5

\* Fewer operations are as sane.
LEMMA OpsShrink ==
    ASSUME OpsSane, Pending' \subseteq Pending, pc' \in OpSteps => cur' \notin todo'
    PROVE  OpsSane'
BY DEF OpsSane

\* So are fewer entries.
LEMMA EntriesShrink ==
    ASSUME JournalSane, journal' \subseteq journal
    PROVE  JournalSane'
BY DEF JournalSane

\* A version stays where it was, or goes to the history.
LEMMA KeptGrows ==
    ASSUME NEW v, Kept(v), conflicts \subseteq conflicts',
           \A s \in Side : \A c \in book[s] : Version(c) = v => Kept(v)' \/ c \in book'[s],
           \A j \in journal : Counts(j) /\ Version(j.new) = v =>
              Kept(v)' \/ (j \in journal' /\ Counts(j)')
    PROVE  Kept(v)'
<1>1. ASSUME NEW s \in Side, NEW c \in book[s], Version(c) = v
      PROVE  Kept(v)'
  BY <1>1 DEF Kept
<1>2. ASSUME NEW r \in conflicts, v = Version(r.icloud) \/ v = Version(r.fastmail)
      PROVE  Kept(v)'
  BY <1>2 DEF Kept
<1>3. ASSUME NEW j \in journal, Counts(j), Version(j.new) = v
      PROVE  Kept(v)'
  <2>1. CASE j \in journal' /\ Counts(j)'
    BY <1>3, <2>1 DEF Kept
  <2> QED BY <1>3, <2>1
<1> QED BY <1>1, <1>2, <1>3 DEF Kept

\* What was listed for a replay is all that is there.
LEMMA CountedIsGone ==
    ASSUME IInv, NEW j, Counts(j)
    PROVE  At("fastmail", j.new) = {} /\ At("fastmail", j.old) = {}
<1>1. CASE pc \in {"list icloud", "replay"}
  <2>1. \A c \in book["fastmail"] : \E d \in seen["fastmail"] : SameHref(d, c)
    BY <1>1 DEF IInv, SeenCovers, Listed
  <2>2. \A card : ~ Listed("fastmail", card) => \A c \in book["fastmail"] : ~ SameHref(c, card)
    BY <2>1, HrefsEqual DEF Listed
  <2>3. ~ Listed("fastmail", j.new) /\ ~ Listed("fastmail", j.old)
    BY <1>1 DEF Counts
  <2> QED BY <2>2, <2>3, NobodyAt
<1>2. CASE pc \notin {"list icloud", "replay"}
  BY <1>2 DEF Counts
<1> QED BY <1>1, <1>2

\* An entry whose hrefs are free counts, but where it is about to go.
LEMMA GoneCounts ==
    ASSUME NEW j, (At("fastmail", j.new) = {})', (At("fastmail", j.old) = {})',
           pc' \notin {"list icloud", "replay"},
           pc' = "save" /\ cur'.kind = "Recreate" => cur'.uid # j.uid
    PROVE  Counts(j)'
BY DEF Counts

\* A cycle that ends leaves nothing to do.
LEMMA CutShape ==
    ASSUME IInv, EndCycle, UNCHANGED journal, faults' \in Nat
    PROVE  SeenSane' /\ OpsSane' /\ Control' /\ JournalSane' /\ JournalApart' /\ SeenCovers'
<1>1. /\ pc' = "wait" /\ todo' = {} /\ pending' = {} /\ seen' = [s \in Side |-> {}]
  BY DEF EndCycle
<1>2. Pending' = {}
  BY <1>1 DEF Pending, OpSteps
<1>3. SeenSane'
  BY <1>1 DEF SeenSane
<1>4. OpsSane'
  BY <1>1, <1>2 DEF OpsSane, OpSteps
<1>5. Control'
  BY <1>1 DEF Control, OpSteps
<1>6. JournalSane'
  BY EntriesShrink DEF IInv
<1>7. JournalApart'
  BY <1>2 DEF JournalApart
<1>8. SeenCovers'
  BY <1>1 DEF SeenCovers
<1> QED BY <1>3, <1>4, <1>5, <1>6, <1>7, <1>8

\* A cycle that ends leaving the books alone keeps the invariant.
LEMMA CutKeeps ==
    ASSUME IInv, EndCycle, UNCHANGED <<book, conflicts, journal, owed>>, faults' \in Nat
    PROVE  IInv'
<1>1. SeenSane' /\ OpsSane' /\ Control' /\ JournalSane' /\ JournalApart' /\ SeenCovers'
  BY CutShape
<1>2. BookSane'
  BY DEF IInv, BookSane
<1>3. ASSUME NEW j \in journal, Counts(j)
      PROVE  j \in journal' /\ Counts(j)'
  <2>1. At("fastmail", j.new) = {} /\ At("fastmail", j.old) = {}
    BY <1>3, CountedIsGone
  <2>2. (At("fastmail", j.new) = {})' /\ (At("fastmail", j.old) = {})'
    BY <2>1, NobodyAt, NobodyAtNext
  <2>3. pc' = "wait"
    BY DEF EndCycle
  <2> QED BY <1>3, <2>2, <2>3, GoneCounts
<1>4. OwedKept'
  <2> SUFFICES ASSUME NEW v \in owed, v[1].members = {} PROVE Kept(v)'
    BY DEF OwedKept
  <2>1. Kept(v)
    BY DEF IInv, OwedKept
  <2> QED BY <1>3, <2>1, KeptGrows
<1> QED BY <1>1, <1>2, <1>4 DEF IInv

\* A fault is counted.
LEMMA FaultCounts ==
    ASSUME IInv, NEW kind, Fault(kind)
    PROVE  faults' \in Nat
<1>1. faults \in Nat
  BY DEF IInv, Control
<1>2. faults' = faults + 1
  BY DEF Fault
<1> QED BY <1>1, <1>2

(***************************************************************************)
(* What a PUT and a DELETE do to the address books.                        *)
(***************************************************************************)
\* Who is about to run is one of the operations still to run.
LEMMA CurIsPending ==
    ASSUME pc \in OpSteps
    PROVE  cur \in Pending /\ Pending = todo \cup {cur}
BY DEF Pending

\* Where an entry is of the current operation, that operation wrote it.
LEMMA EntryOfCur ==
    ASSUME IInv, pc \in OpSteps, NEW j \in journal
    PROVE  \/ j.uid # cur.uid /\ j.old.uid # cur.uid
           \/ pc \in {"delete", "then", "save"} /\ Renews(cur, j)
<1>1. cur \in Pending /\ OpSane(cur)
  BY CurIsPending DEF IInv, OpsSane
<1>2. \/ j.uid \notin Owns(cur) /\ j.old.uid \notin Owns(cur)
      \/ pc \in {"delete", "then", "save"} /\ cur.journal = {j}
  BY <1>1 DEF IInv, JournalApart
<1>3. cur.uid \in Owns(cur)
  BY DEF Owns
<1>4. ASSUME cur.journal = {j}
      PROVE  Renews(cur, j)
  <2>1. \E k : Renews(cur, k)
    BY <1>1, <1>4 DEF OpSane
  <2> QED BY <2>1, <1>4 DEF Renews
<1> QED BY <1>2, <1>3, <1>4

\* A card at its minted href is under its contact's UID.
LEMMA NewIs ==
    ASSUME IInv, NEW j \in journal
    PROVE  IsCard(j.new) /\ j.new.uid = j.uid /\ j.new.at = "minted"
BY DEF IInv, JournalSane

\* A PUT keeps every version: what it replaces is in the history, or a group.
LEMMA ServedKeeps ==
    ASSUME IInv, pc \in {"first", "then"}, NEW w \in cur[pc], Accepts(w), Served(w),
           UNCHANGED <<conflicts, journal>>,
           (pc' \in OpSteps /\ cur' = cur) \/ pc' = "wait"
    PROVE  BookSane' /\ \A v : v[1].members = {} /\ Kept(v) => Kept(v)'
<1>1. cur \in Pending /\ OpSane(cur) /\ pc \in OpSteps
  BY CurIsPending DEF IInv, OpsSane, OpSteps
<1>2. w \in cur.first \cup cur.then
  OBVIOUS
<1>3. PutSane(cur, w)
  BY <1>1, <1>2 DEF OpSane
<1>4. /\ w.side \in Side /\ IsCard(w.card)
      /\ \A c \in w.over : SameHref(c, w.card) /\ (Archived(c, cur.archive) \/ c.content.members # {})
      /\ w.over = {} => w.card.uid = cur.uid
  BY <1>3 DEF PutSane
<1>5. book = [s \in Side |-> book[s]]
      /\ \A s \in Side : \A c, d \in book[s] : IsCard(c) /\ (SameHref(c, d) => c = d)
  BY DEF IInv, BookSane
<1>6. /\ book' = [s \in Side |-> book'[s]]
      /\ book'[w.side] = (book[w.side] \ w.over) \cup {w.card}
      /\ \A s \in Side : s # w.side => book'[s] = book[s]
  BY <1>4, <1>5 DEF Served
<1>7. w.over = {} => \A c \in book[w.side] : ~ SameHref(c, w.card)
  BY NobodyAt DEF Accepts
<1>8. w.over # {} => \E o \in book[w.side] : o \in w.over /\ SameHref(o, w.card)
  BY <1>4 DEF Accepts
<1>9. \A c \in book[w.side] \ w.over : ~ SameHref(c, w.card)
  <2> SUFFICES ASSUME NEW c \in book[w.side] \ w.over, SameHref(c, w.card) PROVE FALSE
    OBVIOUS
  <2>1. PICK o \in book[w.side] : o \in w.over /\ SameHref(o, w.card)
    BY <1>7, <1>8
  <2>2. SameHref(c, o)
    BY <2>1, HrefsEqual
  <2> QED BY <1>4, <1>5, <2>1, <2>2
<1>10. BookSane'
  <2>1. ASSUME NEW s \in Side, NEW c \in book'[s], NEW d \in book'[s]
        PROVE  IsCard(c) /\ (SameHref(c, d) => c = d)
    BY <1>4, <1>5, <1>6, <1>9, HrefsEqual
  <2> QED BY <1>6, <2>1 DEF BookSane
<1>11. cur.archive \subseteq conflicts
  BY DEF IInv, Control, OpSteps
<1>12. ASSUME NEW v, v[1].members = {}, Kept(v)
       PROVE  Kept(v)'
  <2>1. ASSUME NEW s \in Side, NEW c \in book[s], Version(c) = v, c \notin book'[s]
        PROVE  Kept(v)'
    <3>1. s = w.side /\ c \in w.over
      BY <1>6, <2>1
    <3>2. c.content.members = {}
      BY <1>12, <2>1 DEF Version
    <3>3. PICK r \in conflicts : c = r.icloud \/ c = r.fastmail
      BY <1>4, <1>11, <3>1, <3>2 DEF Archived
    <3>4. r \in conflicts'
      OBVIOUS
    <3> QED BY <2>1, <3>3, <3>4 DEF Kept
  <2>2. ASSUME NEW j \in journal, Counts(j), Version(j.new) = v
        PROVE  Kept(v)' \/ (j \in journal' /\ Counts(j)')
    <3>1. CASE pc \in {"delete", "then", "save"} /\ Renews(cur, j)
      <4>1. pc = "then"
        BY <3>1
      <4>2. w = Put("fastmail", {}, j.new)
        BY <3>1, <4>1 DEF Renews
      <4>3. j.new \in book'["fastmail"]
        BY <1>6, <4>2, PutIs
      <4> QED BY <2>2, <4>3, SideValues DEF Kept
    <3>2. CASE j.uid # cur.uid /\ j.old.uid # cur.uid
      <4>1. At("fastmail", j.new) = {} /\ At("fastmail", j.old) = {}
        BY <2>2, CountedIsGone
      <4>2. \A c \in book["fastmail"] : ~ SameHref(c, j.new) /\ ~ SameHref(c, j.old)
        BY <4>1, NobodyAt
      <4>3. w.side = "fastmail" => ~ SameHref(w.card, j.new) /\ ~ SameHref(w.card, j.old)
        <5>1. CASE w.over = {}
          <6>1. j.new.uid = j.uid
            BY NewIs
          <6> QED BY <1>4, <3>2, <5>1, <6>1, HrefsEqual
        <5>2. CASE w.over # {}
          BY <1>8, <4>2, <5>2, HrefsEqual
        <5> QED BY <5>1, <5>2
      <4>4. \A c \in book'["fastmail"] : ~ SameHref(c, j.new) /\ ~ SameHref(c, j.old)
        BY <1>6, <4>2, <4>3, SideValues
      <4>5. (At("fastmail", j.new) = {})' /\ (At("fastmail", j.old) = {})'
        BY <4>4, NobodyAtNext
      <4>6. pc' = "save" => cur' = cur
        OBVIOUS
      <4>7. pc' \notin {"list icloud", "replay"}
        BY DEF OpSteps
      <4>8. Counts(j)'
        BY <3>2, <4>5, <4>6, <4>7, GoneCounts
      <4> QED BY <4>8
    <3> QED BY <1>1, <3>1, <3>2, EntryOfCur
  <2>3. conflicts \subseteq conflicts'
    OBVIOUS
  <2> QED BY <1>12, <2>1, <2>2, <2>3, KeptGrows
<1> QED BY <1>10, <1>12

\* A DELETE keeps every version: the card is in the history, or its entry
\* counts from now on.
LEMMA DeleteKeeps ==
    ASSUME IInv, pc = "delete", ~ Clash,
           book' = [book EXCEPT !["fastmail"] = @ \ cur.delete],
           UNCHANGED <<conflicts, journal>>, pc' \in {"then", "wait"}
    PROVE  BookSane' /\ \A v : v[1].members = {} /\ Kept(v) => Kept(v)'
<1>1. cur \in Pending /\ OpSane(cur) /\ pc \in OpSteps
  BY CurIsPending DEF IInv, OpsSane, OpSteps
<1>2. cur.delete # {} /\ cur.archive \subseteq conflicts /\ cur.journal \subseteq journal
  <2>1. cur[pc] # {}
    BY DEF IInv, Control, OpSteps
  <2> QED BY <2>1 DEF IInv, Control, OpSteps
<1>3. PICK k : Renews(cur, k)
  BY <1>1, <1>2 DEF OpSane
<1>4. /\ k \in journal /\ cur.delete = {k.old} /\ cur.then = {Put("fastmail", {}, k.new)}
      /\ IF cur.archive = {} THEN Version(k.old) = Version(k.new) ELSE Archived(k.old, cur.archive)
  BY <1>2, <1>3 DEF Renews
<1>5. book = [s \in Side |-> book[s]]
      /\ \A s \in Side : \A c, d \in book[s] : IsCard(c) /\ (SameHref(c, d) => c = d)
  BY DEF IInv, BookSane
<1>6. /\ book' = [s \in Side |-> book'[s]]
      /\ book'["fastmail"] = book["fastmail"] \ {k.old}
      /\ book'["icloud"] = book["icloud"]
  BY <1>4, <1>5, SideValues
<1>7. \A s \in Side : book'[s] \subseteq book[s]
  BY <1>6, SideValues
<1>8. BookSane'
  BY <1>5, <1>6, <1>7 DEF BookSane
<1>9. ASSUME NEW j, At("fastmail", j.new) = {}, At("fastmail", j.old) = {} \/ (j = k /\ k.old \in book["fastmail"])
      PROVE  Counts(j)'
  <2>1. \A c \in book["fastmail"] : ~ SameHref(c, j.new)
    BY <1>9, NobodyAt
  <2>2. \A c \in book'["fastmail"] : ~ SameHref(c, j.old)
    <3>1. CASE At("fastmail", j.old) = {}
      BY <1>7, <3>1, NobodyAt, SideValues
    <3>2. CASE j = k /\ k.old \in book["fastmail"]
      BY <1>5, <1>6, <3>2, SideValues
    <3> QED BY <1>9, <3>1, <3>2
  <2>3. (At("fastmail", j.new) = {})' /\ (At("fastmail", j.old) = {})'
    BY <1>7, <2>1, <2>2, NobodyAtNext, SideValues
  <2> QED BY <2>3, GoneCounts
<1>10. ASSUME NEW v, v[1].members = {}, Kept(v)
       PROVE  Kept(v)'
  <2>1. ASSUME NEW s \in Side, NEW c \in book[s], Version(c) = v, c \notin book'[s]
        PROVE  Kept(v)'
    <3>1. s = "fastmail" /\ c = k.old
      BY <1>6, <2>1, SideValues
    <3>2. CASE cur.archive # {}
      <4>1. PICK r \in conflicts : c = r.icloud \/ c = r.fastmail
        BY <1>2, <1>4, <3>1, <3>2 DEF Archived
      <4>2. r \in conflicts'
        OBVIOUS
      <4> QED BY <2>1, <4>1, <4>2 DEF Kept
    <3>3. CASE cur.archive = {}
      <4>1. Put("fastmail", {}, k.new) \in cur.then
        BY <1>4
      <4>2. At("fastmail", k.new) = {}
        BY <3>3, <4>1, PutIs DEF Clash
      <4>3. Counts(k)'
        BY <1>9, <2>1, <3>1, <4>2
      <4>4. Version(k.new) = v /\ k \in journal'
        BY <1>4, <2>1, <3>1, <3>3
      <4> QED BY <4>3, <4>4 DEF Kept
    <3> QED BY <3>2, <3>3
  <2>2. ASSUME NEW j \in journal, Counts(j)
        PROVE  j \in journal' /\ Counts(j)'
    BY <1>9, <2>2, CountedIsGone
  <2>3. conflicts \subseteq conflicts'
    OBVIOUS
  <2> QED BY <1>10, <2>1, <2>2, <2>3, KeptGrows
<1> QED BY <1>8, <1>10

(***************************************************************************)
(* People and time.                                                        *)
(***************************************************************************)
\* An edited card stays at its href.
LEMMA UserEditKeeps ==
    ASSUME IInv, UserEdit
    PROVE  IInv'
<1>1. PICK s \in Side, content \in Content : \E c \in book[s] :
          /\ MayEdit(s, c)
          /\ book' = [book EXCEPT ![s] = (@ \ {c}) \cup {[c EXCEPT !.content = content]}]
          /\ owed' = (owed \ {Version(c)}) \cup {<<content, c.photo>>}
  BY DEF UserEdit
<1>2. PICK c \in book[s] :
          /\ MayEdit(s, c)
          /\ book' = [book EXCEPT ![s] = (@ \ {c}) \cup {[c EXCEPT !.content = content]}]
          /\ owed' = (owed \ {Version(c)}) \cup {<<content, c.photo>>}
  BY <1>1
<1> DEFINE d == [c EXCEPT !.content = content]
<1>3. UNCHANGED <<seen, todo, cur, pc, conflicts, journal, pending, faults>>
  BY <1>2 DEF MayEdit, store, cycle, said
<1>4. SeenSane' /\ OpsSane' /\ Control' /\ JournalSane' /\ JournalApart'
  BY <1>3, DaemonStays
<1>5. book = [t \in Side |-> book[t]]
      /\ \A t \in Side : \A e, f \in book[t] : IsCard(e) /\ (SameHref(e, f) => e = f)
  BY DEF IInv, BookSane
<1>6. IsCard(d) /\ SameHref(c, d) /\ SameHref(d, c) /\ Version(d) = <<content, c.photo>>
  BY <1>5, RewrittenIs, HrefsEqual
<1>7. book' = [book EXCEPT ![s] = (@ \ {c}) \cup {d}]
  BY <1>2
<1> HIDE DEF d
<1>8. /\ book' = [t \in Side |-> book'[t]]
      /\ book'[s] = (book[s] \ {c}) \cup {d}
      /\ \A t \in Side : t # s => book'[t] = book[t]
  BY <1>5, <1>7
<1>9. \A t \in Side : \A e \in book'[t] : \E f \in book[t] : SameHref(f, e)
  BY <1>6, <1>8, HrefsEqual
<1>10. BookSane'
  <2>1. \A e \in book[s] \ {c} : ~ SameHref(e, d)
    BY <1>5, <1>6, HrefsEqual
  <2>2. ASSUME NEW t \in Side, NEW e \in book'[t], NEW f \in book'[t]
        PROVE  IsCard(e) /\ (SameHref(e, f) => e = f)
    BY <1>5, <1>6, <1>8, <2>1, HrefsEqual
  <2> QED BY <1>8, <2>2 DEF BookSane
<1>11. ASSUME NEW j, Counts(j)
       PROVE  Counts(j)'
  <2>1. \A card : At("fastmail", card) = {} => (At("fastmail", card) = {})'
    BY <1>9, HrefsEqual, NobodyAt, NobodyAtNext, SideValues
  <2> QED BY <1>3, <1>11, <2>1 DEF Counts, Listed
<1>12. SeenCovers'
  <2> SUFFICES ASSUME pc \in {"list icloud", "replay"}, NEW e \in book'["fastmail"]
               PROVE  \E x \in seen["fastmail"] : SameHref(x, e)
    BY <1>3 DEF SeenCovers, Listed
  <2>1. PICK f \in book["fastmail"] : SameHref(f, e)
    BY <1>9, SideValues
  <2>2. PICK x \in seen["fastmail"] : SameHref(x, f)
    BY DEF IInv, SeenCovers, Listed
  <2> QED BY <2>1, <2>2, HrefsEqual
<1>13. ASSUME NEW v \in owed', v[1].members = {}
       PROVE  Kept(v)'
  <2>1. CASE v = Version(d)
    BY <1>8, <2>1 DEF Kept
  <2>2. CASE v # Version(d)
    <3>1. v \in owed /\ v # Version(c)
      BY <1>2, <1>6, <2>2
    <3>2. Kept(v)
      BY <1>13, <3>1 DEF IInv, OwedKept
    <3>3. \A t \in Side : \A e \in book[t] : Version(e) = v => e \in book'[t]
      BY <1>8, <3>1
    <3>4. \A j \in journal : Counts(j) => j \in journal' /\ Counts(j)'
      BY <1>3, <1>11
    <3>5. conflicts \subseteq conflicts'
      BY <1>3
    <3> QED BY <3>2, <3>3, <3>4, <3>5, KeptGrows
  <2> QED BY <2>1, <2>2
<1>14. OwedKept'
  BY <1>13 DEF OwedKept
<1> QED BY <1>4, <1>10, <1>12, <1>14 DEF IInv

\* A version that is taken back is not owed.
LEMMA UserDeleteKeeps ==
    ASSUME IInv, UserDelete
    PROVE  IInv'
<1>1. PICK s \in Side : \E c \in book[s] :
          /\ MayEdit(s, c) /\ book' = [book EXCEPT ![s] = @ \ {c}] /\ owed' = owed \ {Version(c)}
  BY DEF UserDelete
<1>2. PICK c \in book[s] :
          /\ MayEdit(s, c) /\ book' = [book EXCEPT ![s] = @ \ {c}] /\ owed' = owed \ {Version(c)}
  BY <1>1
<1>3. UNCHANGED <<seen, todo, cur, pc, conflicts, journal, pending, faults>>
  BY <1>2 DEF MayEdit, store, cycle, said
<1>4. SeenSane' /\ OpsSane' /\ Control' /\ JournalSane' /\ JournalApart'
  BY <1>3, DaemonStays
<1>5. book = [t \in Side |-> book[t]]
      /\ \A t \in Side : \A e, f \in book[t] : IsCard(e) /\ (SameHref(e, f) => e = f)
  BY DEF IInv, BookSane
<1>6. /\ book' = [t \in Side |-> book'[t]]
      /\ \A t \in Side : book'[t] \subseteq book[t] /\ \A e \in book[t] : e # c => e \in book'[t]
  BY <1>2, <1>5
<1>7. BookSane'
  BY <1>5, <1>6 DEF BookSane
<1>8. ASSUME NEW j, Counts(j)
      PROVE  Counts(j)'
  <2>1. \A card : At("fastmail", card) = {} => (At("fastmail", card) = {})'
    BY <1>6, NobodyAt, NobodyAtNext, SideValues
  <2> QED BY <1>3, <1>8, <2>1 DEF Counts, Listed
<1>9. SeenCovers'
  <2>1. book'["fastmail"] \subseteq book["fastmail"]
    BY <1>6, SideValues
  <2> QED BY <1>3, <2>1 DEF IInv, SeenCovers, Listed
<1>10. ASSUME NEW v \in owed', v[1].members = {}
       PROVE  Kept(v)'
  <2>1. v \in owed /\ v # Version(c)
    BY <1>2
  <2>2. Kept(v)
    BY <1>10, <2>1 DEF IInv, OwedKept
  <2>3. \A t \in Side : \A e \in book[t] : Version(e) = v => e \in book'[t]
    BY <1>6, <2>1
  <2>4. \A j \in journal : Counts(j) => j \in journal' /\ Counts(j)'
    BY <1>3, <1>8
  <2>5. conflicts \subseteq conflicts'
    BY <1>3
  <2> QED BY <2>2, <2>3, <2>4, <2>5, KeptGrows
<1>11. OwedKept'
  BY <1>10 DEF OwedKept
<1> QED BY <1>4, <1>7, <1>9, <1>11 DEF IInv

\* Time passes.
LEMMA BackoffPassesKeeps ==
    ASSUME IInv, BackoffPasses
    PROVE  IInv'
BY IInvLooksAt DEF BackoffPasses, cycle, said

(***************************************************************************)
(* A cycle until it plans.                                                 *)
(***************************************************************************)
\* Where nothing of a plan is left to run, nothing of it is checked.
LEMMA NothingToRun ==
    ASSUME pc' \notin OpSteps, todo' = {}
    PROVE  Pending' = {} /\ OpsSane' /\ JournalApart'
<1>1. Pending' = {}
  BY DEF Pending
<1> QED BY <1>1 DEF OpsSane, JournalApart

\* Between cycles and before the plan there is nothing to run.
LEMMA NothingPlanned ==
    ASSUME IInv, pc \notin OpSteps \cup {"apply"}
    PROVE  todo = {} /\ faults \in Nat
BY DEF IInv, Control

\* A cycle begins with the replay, unless there is nothing to replay.
LEMMA WakeKeeps ==
    ASSUME IInv, Wake
    PROVE  IInv'
<1>1. /\ pc = "wait"
      /\ pc' = IF journal = {} THEN "read icloud" ELSE "list fastmail"
      /\ pending' = journal
      /\ UNCHANGED <<book, seen, todo, cur, conflicts, journal, faults, owed>>
  BY DEF Wake, store
<1>2. todo' = {} /\ faults' \in Nat
  BY <1>1, NothingPlanned DEF OpSteps
<1>3. pc' \notin OpSteps /\ OpsSane' /\ JournalApart'
  BY <1>1, <1>2, NothingToRun DEF OpSteps
<1>4. Control'
  BY <1>1, <1>2, <1>3 DEF Control, OpSteps
<1>5. SeenCovers'
  BY <1>1 DEF SeenCovers
<1>6. \A j : Counts(j) => Counts(j)'
  BY <1>1 DEF Counts, At
<1>7. OwedKept'
  BY <1>1, <1>6 DEF IInv, OwedKept, Kept
<1>8. BookSane' /\ SeenSane' /\ JournalSane'
  BY <1>1 DEF IInv, BookSane, SeenSane, JournalSane
<1> QED BY <1>3, <1>4, <1>5, <1>7, <1>8 DEF IInv

\* A look at a side, one of four.
LEMMA LookIs ==
    ASSUME Look
    PROVE  \E s \in Side :
              /\ seen' = [seen EXCEPT ![s] = book[s]]
              /\ \/ pc = "list fastmail" /\ pc' = "list icloud" /\ s = "fastmail"
                 \/ pc = "list icloud" /\ pc' = "replay" /\ s = "icloud"
                 \/ pc = "read icloud" /\ pc' = "read fastmail" /\ s = "icloud"
                 \/ pc = "read fastmail" /\ pc' = "plan" /\ s = "fastmail"
<1>1. PICK look \in {<<"list fastmail", "fastmail", "list icloud">>,
                    <<"list icloud", "icloud", "replay">>,
                    <<"read icloud", "icloud", "read fastmail">>,
                    <<"read fastmail", "fastmail", "plan">>} :
        /\ pc = look[1] /\ pc' = look[3]
        /\ seen' = [seen EXCEPT ![look[2]] = book[look[2]]]
  BY DEF Look
<1>2. ASSUME NEW a, NEW b \in Side, NEW c, look = <<a, b, c>>
      PROVE  pc = a /\ pc' = c /\ seen' = [seen EXCEPT ![b] = book[b]]
  BY <1>1, <1>2
<1>3. CASE look = <<"list fastmail", "fastmail", "list icloud">>
  <2>1. pc = "list fastmail" /\ pc' = "list icloud" /\ seen' = [seen EXCEPT !["fastmail"] = book["fastmail"]]
    BY <1>2, <1>3, SideValues
  <2> QED BY <2>1, SideValues
<1>4. CASE look = <<"list icloud", "icloud", "replay">>
  <2>1. pc = "list icloud" /\ pc' = "replay" /\ seen' = [seen EXCEPT !["icloud"] = book["icloud"]]
    BY <1>2, <1>4, SideValues
  <2> QED BY <2>1, SideValues
<1>5. CASE look = <<"read icloud", "icloud", "read fastmail">>
  <2>1. pc = "read icloud" /\ pc' = "read fastmail" /\ seen' = [seen EXCEPT !["icloud"] = book["icloud"]]
    BY <1>2, <1>5, SideValues
  <2> QED BY <2>1, SideValues
<1>6. CASE look = <<"read fastmail", "fastmail", "plan">>
  <2>1. pc = "read fastmail" /\ pc' = "plan" /\ seen' = [seen EXCEPT !["fastmail"] = book["fastmail"]]
    BY <1>2, <1>6, SideValues
  <2> QED BY <2>1, SideValues
<1> QED BY <1>1, <1>3, <1>4, <1>5, <1>6

\* A side is looked at: what is not there was not listed.
LEMMA LookKeeps ==
    ASSUME IInv, Look
    PROVE  IInv'
<1>1. UNCHANGED <<book, pending, todo, cur, conflicts, journal, faults, owed>>
  BY DEF Look, store
<1>2. \E s \in Side :
        /\ seen' = [seen EXCEPT ![s] = book[s]]
        /\ \/ pc = "list fastmail" /\ pc' = "list icloud" /\ s = "fastmail"
           \/ pc = "list icloud" /\ pc' = "replay" /\ s = "icloud"
           \/ pc = "read icloud" /\ pc' = "read fastmail"
           \/ pc = "read fastmail" /\ pc' = "plan"
  BY LookIs
<1>3. PICK s \in Side :
        /\ seen' = [seen EXCEPT ![s] = book[s]]
        /\ \/ pc = "list fastmail" /\ pc' = "list icloud" /\ s = "fastmail"
           \/ pc = "list icloud" /\ pc' = "replay" /\ s = "icloud"
           \/ pc = "read icloud" /\ pc' = "read fastmail"
           \/ pc = "read fastmail" /\ pc' = "plan"
  BY <1>2
<1>4. /\ todo = {} /\ faults \in Nat
      /\ pc' \notin OpSteps /\ pc' # "apply"
  BY <1>3, NothingPlanned DEF OpSteps
<1>5. OpsSane' /\ JournalApart'
  BY <1>1, <1>4, NothingToRun
<1>6. /\ pc \in {"list fastmail", "list icloud"} => pending = journal
      /\ pc \in {"read icloud", "read fastmail"} => journal = {}
  BY DEF IInv, Control
<1>7. Control'
  BY <1>1, <1>3, <1>4, <1>6 DEF Control, OpSteps
<1>8. /\ seen' = [t \in Side |-> seen'[t]]
      /\ seen'[s] = book[s]
      /\ \A t \in Side : t # s => seen'[t] = seen[t]
  BY <1>3 DEF IInv, SeenSane
<1>9. SeenSane'
  <2>1. \A t \in Side : \A c \in seen'[t] : IsCard(c)
    BY <1>8 DEF IInv, SeenSane, BookSane
  <2> QED BY <1>8, <2>1 DEF SeenSane
<1>10. /\ pc = "list fastmail" => seen'["fastmail"] = book["fastmail"]
       /\ pc = "list icloud" => seen'["fastmail"] = seen["fastmail"]
  BY <1>3, <1>8, SideValues
<1>11. SeenCovers'
  <2>1. CASE pc = "list fastmail"
    BY <1>1, <1>10, <2>1, HrefsEqual DEF SeenCovers, Listed
  <2>2. CASE pc = "list icloud"
    BY <1>1, <1>10, <2>2 DEF IInv, SeenCovers, Listed
  <2>3. CASE pc' \notin {"list icloud", "replay"}
    BY <2>3 DEF SeenCovers
  <2> QED BY <1>3, <2>1, <2>2, <2>3
<1>12. ASSUME NEW j \in journal, Counts(j)
       PROVE  Counts(j)'
  <2>1. CASE pc = "list fastmail"
    <3>1. At("fastmail", j.new) = {} /\ At("fastmail", j.old) = {}
      BY <1>12, CountedIsGone
    <3>2. \A c \in seen'["fastmail"] : ~ SameHref(c, j.new) /\ ~ SameHref(c, j.old)
      BY <1>10, <2>1, <3>1, NobodyAt
    <3>3. pc' = "list icloud"
      BY <1>3, <2>1
    <3> QED BY <3>2, <3>3 DEF Counts, Listed
  <2>2. CASE pc = "list icloud"
    <3>1. pc' = "replay"
      BY <1>3, <2>2
    <3> QED BY <1>10, <1>12, <2>2, <3>1 DEF Counts, Listed
  <2>3. CASE pc \notin {"list fastmail", "list icloud"}
    BY <1>3, <1>6, <2>3
  <2> QED BY <2>1, <2>2, <2>3
<1>13. OwedKept'
  BY <1>1, <1>12 DEF IInv, OwedKept, Kept
<1>14. BookSane' /\ JournalSane'
  BY <1>1 DEF IInv, BookSane, JournalSane
<1> QED BY <1>5, <1>7, <1>9, <1>11, <1>13, <1>14 DEF IInv

(***************************************************************************)
(* The replay.                                                             *)
(***************************************************************************)
\* What the replay does to books and entries is of one entry at a time.
LEMMA OtherHrefs ==
    ASSUME IInv, NEW j \in journal, NEW k \in journal, j # k
    PROVE  ~ SameHref(j.new, k.new) /\ ~ SameHref(j.new, k.old)
BY DEF IInv, JournalSane, SameHref

\* An entry is dropped when its card is there, or nobody is owed it.
LEMMA DropEntryKeeps ==
    ASSUME IInv, DropEntry
    PROVE  IInv'
<1>1. PICK j \in pending :
        /\ Finished(j) \/ Abandoned(j)
        /\ journal' = journal \ {j}
        /\ pending' = pending \ {j}
        /\ owed' = IF Abandoned(j) THEN owed \ {Version(j.new)} ELSE owed
  BY DEF DropEntry, NextEntry
<1>2. pc = "replay" /\ UNCHANGED <<book, conflicts, pc, seen, todo, cur, faults>>
  BY DEF DropEntry
<1>3. pending = journal
  BY <1>2 DEF IInv, Control
<1>4. todo' = {} /\ faults' \in Nat
  BY <1>2, NothingPlanned DEF OpSteps
<1>5. OpsSane' /\ JournalApart'
  BY <1>2, <1>4, NothingToRun DEF OpSteps
<1>6. Control'
  BY <1>1, <1>2, <1>3, <1>4 DEF Control, OpSteps
<1>7. JournalSane'
  BY <1>1, EntriesShrink DEF IInv
<1>8. BookSane' /\ SeenSane' /\ SeenCovers'
  BY <1>2 DEF IInv, BookSane, SeenSane, SeenCovers, Listed
<1>9. ASSUME NEW v \in owed', v[1].members = {}
      PROVE  Kept(v)'
  <2>1. v \in owed /\ (Abandoned(j) => v # Version(j.new))
    BY <1>1
  <2>2. Kept(v)
    BY <1>9, <2>1 DEF IInv, OwedKept
  <2>3. ASSUME NEW k \in journal, Counts(k), Version(k.new) = v
        PROVE  k \in journal' /\ Counts(k)'
    <3>1. ~ Finished(k)
      BY <1>2, <2>3 DEF Counts, Finished
    <3>2. k # j
      BY <1>1, <2>1, <2>3, <3>1
    <3>3. Counts(k)'
      BY <1>2, <2>3 DEF Counts, Listed
    <3> QED BY <1>1, <3>2, <3>3
  <2>4. \A s \in Side : \A c \in book[s] : c \in book'[s]
    BY <1>2
  <2>5. conflicts \subseteq conflicts'
    BY <1>2
  <2> QED BY <2>2, <2>3, <2>4, <2>5, KeptGrows
<1>10. OwedKept'
  BY <1>9 DEF OwedKept
<1> QED BY <1>5, <1>6, <1>7, <1>8, <1>10 DEF IInv

\* A card put back, and what it does to the book.
LEMMA PutBack ==
    ASSUME IInv, NEW j \in journal, At("fastmail", j.new) = {},
           book' = [book EXCEPT !["fastmail"] = @ \cup {j.new}]
    PROVE  /\ BookSane'
           /\ book'["fastmail"] = book["fastmail"] \cup {j.new} /\ book'["icloud"] = book["icloud"]
<1>1. book = [s \in Side |-> book[s]]
      /\ \A s \in Side : \A c, d \in book[s] : IsCard(c) /\ (SameHref(c, d) => c = d)
  BY DEF IInv, BookSane
<1>2. /\ book' = [s \in Side |-> book'[s]]
      /\ book'["fastmail"] = book["fastmail"] \cup {j.new}
      /\ book'["icloud"] = book["icloud"]
  BY <1>1, SideValues
<1>3. IsCard(j.new) /\ \A c \in book["fastmail"] : ~ SameHref(c, j.new)
  BY NewIs, NobodyAt
<1>4. ASSUME NEW s \in Side, NEW c \in book'[s], NEW d \in book'[s]
      PROVE  IsCard(c) /\ (SameHref(c, d) => c = d)
  BY <1>1, <1>2, <1>3, HrefsEqual, SideValues
<1> QED BY <1>2, <1>4 DEF BookSane

\* A card that is put back is on its card again.
LEMMA ReplayPutKeeps ==
    ASSUME IInv, ReplayPut
    PROVE  IInv'
<1>1. PICK j \in pending :
        /\ At("fastmail", j.new) = {}
        /\ book' = [book EXCEPT !["fastmail"] = @ \cup {j.new}]
        /\ seen' = [seen EXCEPT !["fastmail"] = @ \cup {j.new}]
  BY DEF ReplayPut
<1>2. pc = "replay" /\ UNCHANGED <<conflicts, journal, pc, pending, todo, cur, faults, owed>>
  BY DEF ReplayPut, store
<1>3. j \in journal
  BY <1>1, <1>2 DEF IInv, Control
<1>4. BookSane' /\ book'["fastmail"] = book["fastmail"] \cup {j.new} /\ book'["icloud"] = book["icloud"]
  BY <1>1, <1>3, PutBack
<1>5. /\ seen' = [s \in Side |-> seen'[s]]
      /\ seen'["fastmail"] = seen["fastmail"] \cup {j.new}
      /\ seen'["icloud"] = seen["icloud"]
  BY <1>1, SideValues DEF IInv, SeenSane
<1>6. SeenSane'
  <2>1. \A s \in Side : \A c \in seen'[s] : IsCard(c)
    BY <1>3, <1>5, NewIs, SideValues DEF IInv, SeenSane
  <2> QED BY <1>5, <2>1 DEF SeenSane
<1>7. todo' = {} /\ faults' \in Nat
  BY <1>2, NothingPlanned DEF OpSteps
<1>8. OpsSane' /\ JournalApart'
  BY <1>2, <1>7, NothingToRun DEF OpSteps
<1>9. Control'
  BY <1>2 DEF IInv, Control
<1>10. JournalSane'
  BY <1>2 DEF IInv, JournalSane
<1>11. SeenCovers'
  <2>1. \A c \in book["fastmail"] : \E d \in seen["fastmail"] : SameHref(d, c)
    BY <1>2 DEF IInv, SeenCovers, Listed
  <2>2. \A c \in book'["fastmail"] : \E d \in seen'["fastmail"] : SameHref(d, c)
    BY <1>4, <1>5, <2>1, HrefsEqual
  <2> QED BY <2>2 DEF SeenCovers, Listed
<1>12. ASSUME NEW v \in owed', v[1].members = {}
       PROVE  Kept(v)'
  <2>1. Kept(v)
    BY <1>2, <1>12 DEF IInv, OwedKept
  <2>2. ASSUME NEW k \in journal, Counts(k), Version(k.new) = v
        PROVE  Kept(v)' \/ (k \in journal' /\ Counts(k)')
    <3>1. CASE k = j
      BY <1>4, <2>2, <3>1, SideValues DEF Kept
    <3>2. CASE k # j
      <4>1. ~ Listed("fastmail", k.new) /\ ~ Listed("fastmail", k.old)
        BY <1>2, <2>2 DEF Counts
      <4>2. \A c \in seen'["fastmail"] : ~ SameHref(c, k.new) /\ ~ SameHref(c, k.old)
        BY <1>3, <1>5, <3>2, <4>1, OtherHrefs DEF Listed
      <4> QED BY <1>2, <4>2 DEF Counts, Listed
    <3> QED BY <3>1, <3>2
  <2>3. \A s \in Side : \A c \in book[s] : c \in book'[s]
    BY <1>4, SideValues
  <2>4. conflicts \subseteq conflicts'
    BY <1>2
  <2> QED BY <2>1, <2>2, <2>3, <2>4, KeptGrows
<1>13. OwedKept'
  BY <1>12 DEF OwedKept
<1> QED BY <1>4, <1>6, <1>8, <1>9, <1>10, <1>11, <1>13 DEF IInv

\* It does not happen: see ReplaysServed.
LEMMA ReplayRejectedKeeps ==
    ASSUME IInv, ReplaysServed, ReplayRejected
    PROVE  IInv'
<1>1. /\ pc = "replay" /\ faults < Len(Faults)
      /\ <<"reject", pc>> \in Faults[faults + 1]
  BY DEF ReplayRejected, Fault
<1>2. faults \in Nat /\ Len(Faults) \in Nat
  BY BaselineBounds DEF IInv, Control
<1>3. faults + 1 \in 1 .. Len(Faults)
  BY <1>1, <1>2
<1>4. <<"reject", "replay">> \in Faults[faults + 1]
  BY <1>1
<1> QED BY <1>3, <1>4 DEF ReplaysServed

\* A replay that is cut off, whether or not the card was put back.
LEMMA ReplayAbortedKeeps ==
    ASSUME IInv, ReplayAborted
    PROVE  IInv'
<1>1. PICK j \in pending :
        \/ Fault("unsent") /\ UNCHANGED book
        \/ /\ Fault("lost") /\ At("fastmail", j.new) = {}
           /\ book' = [book EXCEPT !["fastmail"] = @ \cup {j.new}]
  BY DEF ReplayAborted
<1>2. pc = "replay" /\ EndCycle /\ UNCHANGED <<conflicts, journal, owed>>
  BY DEF ReplayAborted, CutOff, store
<1>3. faults' \in Nat
  BY <1>1, FaultCounts
<1>4. CASE UNCHANGED book
  BY <1>2, <1>3, <1>4, CutKeeps
<1>5. CASE /\ At("fastmail", j.new) = {}
           /\ book' = [book EXCEPT !["fastmail"] = @ \cup {j.new}]
  <2>1. j \in journal
    BY <1>2 DEF IInv, Control
  <2>2. BookSane' /\ book'["fastmail"] = book["fastmail"] \cup {j.new} /\ book'["icloud"] = book["icloud"]
    BY <1>5, <2>1, PutBack
  <2>3. SeenSane' /\ OpsSane' /\ Control' /\ JournalSane' /\ JournalApart' /\ SeenCovers'
    BY <1>2, <1>3, CutShape
  <2>4. ASSUME NEW v \in owed', v[1].members = {}
        PROVE  Kept(v)'
    <3>1. Kept(v)
      BY <1>2, <2>4 DEF IInv, OwedKept
    <3>2. ASSUME NEW k \in journal, Counts(k), Version(k.new) = v
          PROVE  Kept(v)' \/ (k \in journal' /\ Counts(k)')
      <4>1. CASE k = j
        BY <2>2, <3>2, <4>1, SideValues DEF Kept
      <4>2. CASE k # j
        <5>1. \A c \in book["fastmail"] : ~ SameHref(c, k.new) /\ ~ SameHref(c, k.old)
          BY <3>2, CountedIsGone, NobodyAt
        <5>2. \A c \in book'["fastmail"] : ~ SameHref(c, k.new) /\ ~ SameHref(c, k.old)
          BY <2>1, <2>2, <4>2, <5>1, OtherHrefs
        <5>3. (At("fastmail", k.new) = {})' /\ (At("fastmail", k.old) = {})'
          BY <5>2, NobodyAtNext
        <5>4. pc' = "wait"
          BY <1>2 DEF EndCycle
        <5>5. Counts(k)'
          BY <5>3, <5>4, GoneCounts
        <5> QED BY <1>2, <5>5
      <4> QED BY <4>1, <4>2
    <3>3. \A s \in Side : \A c \in book[s] : c \in book'[s]
      BY <2>2, SideValues
    <3>4. conflicts \subseteq conflicts'
      BY <1>2
    <3> QED BY <3>1, <3>2, <3>3, <3>4, KeptGrows
  <2>5. OwedKept'
    BY <2>4 DEF OwedKept
  <2> QED BY <2>2, <2>3, <2>5 DEF IInv
<1> QED BY <1>1, <1>4, <1>5

\* A replay ends with an empty journal.
LEMMA ReplayedKeeps ==
    ASSUME IInv, Replayed
    PROVE  IInv'
<1>1. /\ pc = "replay" /\ pending = {} /\ pc' = "read icloud"
      /\ UNCHANGED <<book, seen, pending, todo, cur, conflicts, journal, faults, owed>>
  BY DEF Replayed, store
<1>2. journal = {}
  BY <1>1 DEF IInv, Control
<1>3. todo' = {} /\ faults' \in Nat
  BY <1>1, NothingPlanned DEF OpSteps
<1>4. OpsSane' /\ JournalApart'
  BY <1>1, <1>3, NothingToRun DEF OpSteps
<1>5. Control'
  BY <1>1, <1>2, <1>3 DEF Control, OpSteps
<1>6. BookSane' /\ SeenSane' /\ JournalSane' /\ SeenCovers'
  BY <1>1 DEF IInv, BookSane, SeenSane, JournalSane, SeenCovers
<1>7. OwedKept'
  BY <1>1, <1>2 DEF IInv, OwedKept, Kept
<1> QED BY <1>4, <1>5, <1>6, <1>7 DEF IInv

(***************************************************************************)
(* Running a plan.                                                         *)
(***************************************************************************)
\* Every entry has been replayed when a cycle plans.
LEMMA PlanKeeps ==
    ASSUME IInv, Plan
    PROVE  IInv'
<1>1. /\ pc = "plan" /\ pc' = "apply" /\ todo' = CycleOps(seen)
      /\ UNCHANGED <<book, seen, pending, cur, conflicts, journal, faults, owed>>
  BY DEF Plan
<1>2. journal = {} /\ faults \in Nat
  BY <1>1 DEF IInv, Control
<1>3. /\ \A op \in todo' : OpSane(op)
      /\ \A p, q \in todo' : p # q => Owns(p) \cap Owns(q) = {}
  BY <1>1, PlannedSane DEF IInv
<1>4. Pending' = todo'
  BY <1>1 DEF Pending, OpSteps
<1>5. OpsSane'
  BY <1>1, <1>3, <1>4 DEF OpsSane, OpSteps
<1>6. JournalApart'
  BY <1>1, <1>2 DEF JournalApart
<1>7. Control'
  BY <1>1, <1>2 DEF Control, OpSteps
<1>8. BookSane' /\ SeenSane' /\ JournalSane' /\ SeenCovers'
  BY <1>1 DEF IInv, BookSane, SeenSane, JournalSane, SeenCovers
<1>9. OwedKept'
  BY <1>1, <1>2 DEF IInv, OwedKept, Kept
<1> QED BY <1>5, <1>6, <1>7, <1>8, <1>9 DEF IInv

\* An operation begins with its first step, and has written no entry yet.
LEMMA StartOpKeeps ==
    ASSUME IInv, StartOp
    PROVE  IInv'
<1>1. PICK op \in todo : todo' = todo \ {op} /\ cur' = op /\ pc' = StepOf(op, 1)
  BY DEF StartOp
<1>2. pc = "apply" /\ UNCHANGED <<book, seen, pending, conflicts, journal, faults, owed>>
  BY DEF StartOp, store
<1> DEFINE s == StepOf(op, 1)
<1>3. /\ s \in OpSteps
      /\ s # "save" => op[s] # {}
      /\ s # "archive" => op.archive = {}
      /\ s \in {"delete", "then", "save"} => op.journal = {}
  BY StepFacts
<1> HIDE DEF s
<1>4. pc' = s /\ pc' \in OpSteps
  BY <1>1, <1>3 DEF s
<1>5. Pending = todo /\ Pending' = todo
  BY <1>1, <1>2, <1>4 DEF Pending, OpSteps
<1>6. OpsSane'
  BY <1>1, <1>5, OpsShrink DEF IInv
<1>7. Control'
  BY <1>1, <1>2, <1>3, <1>4 DEF IInv, Control, OpSteps
<1>8. \A q \in todo, j \in journal : j.uid \notin Owns(q) /\ j.old.uid \notin Owns(q)
  BY <1>2, <1>5 DEF IInv, JournalApart
<1>9. JournalApart'
  BY <1>2, <1>5, <1>8 DEF JournalApart
<1>10. BookSane' /\ SeenSane' /\ JournalSane'
  BY <1>2 DEF IInv, BookSane, SeenSane, JournalSane
<1>11. SeenCovers'
  BY <1>4 DEF SeenCovers, OpSteps
<1>12. ASSUME NEW j \in journal, Counts(j)
       PROVE  Counts(j)'
  <2>1. cur'.uid # j.uid
    BY <1>1, <1>8 DEF Owns
  <2>2. (At("fastmail", j.new) = {})' /\ (At("fastmail", j.old) = {})'
    BY <1>2, <1>12, CountedIsGone, NobodyAt, NobodyAtNext
  <2>3. pc' \notin {"list icloud", "replay"}
    BY <1>4 DEF OpSteps
  <2> QED BY <2>1, <2>2, <2>3, GoneCounts
<1>13. OwedKept'
  BY <1>2, <1>12 DEF IInv, OwedKept, Kept
<1> QED BY <1>6, <1>7, <1>9, <1>10, <1>11, <1>13 DEF IInv

\* A step of an operation keeps what is not about books and entries.
LEMMA StepsOn ==
    ASSUME IInv, pc \in OpSteps, pc' \in OpSteps, UNCHANGED <<seen, todo, cur, pending, faults>>
    PROVE  Pending' = Pending /\ SeenSane' /\ OpsSane' /\ SeenCovers'
<1>1. Pending' = Pending
  BY DEF Pending
<1>2. cur' \notin todo'
  BY DEF IInv, OpsSane
<1>3. OpsSane'
  BY <1>1, <1>2, OpsShrink DEF IInv
<1>4. SeenSane'
  BY DEF IInv, SeenSane
<1>5. SeenCovers'
  BY DEF SeenCovers, OpSteps
<1> QED BY <1>1, <1>3, <1>4, <1>5

\* An entry counts through a step that leaves the books alone.
LEMMA CountsOn ==
    ASSUME IInv, pc \in OpSteps \ {"then", "save"}, pc' \in OpSteps, pc' # "save" \/ cur.journal = {},
           UNCHANGED <<book, cur>>, NEW j \in journal, Counts(j)
    PROVE  Counts(j)'
<1>1. (At("fastmail", j.new) = {})' /\ (At("fastmail", j.old) = {})'
  BY CountedIsGone, NobodyAt, NobodyAtNext
<1>2. pc' \notin {"list icloud", "replay"}
  BY DEF OpSteps
<1>3. ASSUME pc' = "save"
      PROVE  cur'.uid # j.uid
  <2>1. ~ Renews(cur, j)
    BY <1>3 DEF Renews
  <2> QED BY <2>1, EntryOfCur
<1> QED BY <1>1, <1>2, <1>3, GoneCounts

\* What is archived stays where it is.
LEMMA ArchiveKeeps ==
    ASSUME IInv, Archive
    PROVE  IInv'
<1>1. /\ pc = "archive" /\ conflicts' = conflicts \cup cur.archive
      /\ UNCHANGED <<book, seen, todo, cur, journal, pending, faults, owed>>
  BY DEF Archive
<1>2. pc' = StepOf(cur, 2)
  BY <1>1, ContinueMeans, OrderIs DEF Archive
<1> DEFINE s == StepOf(cur, 2)
<1>3. /\ s \in OpSteps /\ s # "archive"
      /\ s # "save" => cur[s] # {}
      /\ s \in {"delete", "then", "save"} => cur.journal = {}
  BY StepFacts
<1>4. s = pc'
  BY <1>2
<1> HIDE DEF s
<1>5. pc \in OpSteps /\ pc' \in OpSteps
  BY <1>1, <1>3, <1>4 DEF OpSteps
<1>6. Pending' = Pending /\ SeenSane' /\ OpsSane' /\ SeenCovers'
  BY <1>1, <1>5, StepsOn
<1>7. Control'
  BY <1>1, <1>3, <1>4 DEF IInv, Control, OpSteps
<1>8. JournalApart'
  BY <1>1, <1>6 DEF IInv, JournalApart
<1>9. BookSane' /\ JournalSane'
  BY <1>1 DEF IInv, BookSane, JournalSane
<1>10. ASSUME NEW v \in owed', v[1].members = {}
       PROVE  Kept(v)'
  <2>1. Kept(v)
    BY <1>1, <1>10 DEF IInv, OwedKept
  <2>2. \A j \in journal : Counts(j) => j \in journal' /\ Counts(j)'
    BY <1>1, <1>3, <1>4, <1>5, CountsOn
  <2>3. \A t \in Side : \A c \in book[t] : c \in book'[t]
    BY <1>1
  <2>4. conflicts \subseteq conflicts'
    BY <1>1
  <2> QED BY <2>1, <2>2, <2>3, <2>4, KeptGrows
<1>11. OwedKept'
  BY <1>10 DEF OwedKept
<1> QED BY <1>6, <1>7, <1>8, <1>9, <1>11 DEF IInv

\* A PUT of the current operation.
LEMMA RunPutKeeps ==
    ASSUME IInv, RunPut
    PROVE  IInv'
<1>1. PICK w \in cur[pc] : Accepts(w) /\ Served(w)
  BY DEF RunPut
<1>2. /\ pc \in {"first", "then"}
      /\ UNCHANGED <<seen, todo, cur, conflicts, journal, pending, faults, owed>>
  BY DEF RunPut, store
<1>3. /\ pc' \in OpSteps /\ pc' # "archive"
      /\ pc' # "save" => cur[pc'] # {}
      /\ pc = "first" /\ pc' \in {"delete", "then", "save"} => cur.journal = {}
      /\ pc = "then" => pc' = "save"
  <2>1. CASE pc = "first"
    <3> DEFINE s == StepOf(cur, 3)
    <3>1. /\ s \in OpSteps /\ s # "archive"
          /\ s # "save" => cur[s] # {}
          /\ s \in {"delete", "then", "save"} => cur.journal = {}
      BY StepFacts
    <3>2. s = pc'
      BY <2>1, ContinueMeans, OrderIs DEF RunPut
    <3> HIDE DEF s
    <3> QED BY <2>1, <3>1, <3>2
  <2>2. CASE pc = "then"
    <3>1. StepOf(cur, 6) = "save"
      BY StepFacts
    <3>2. pc' = StepOf(cur, 6)
      BY <2>2, ContinueMeans, OrderIs DEF RunPut
    <3> QED BY <2>2, <3>1, <3>2 DEF OpSteps
  <2> QED BY <1>2, <2>1, <2>2
<1>4. pc \in OpSteps
  BY <1>2 DEF OpSteps
<1>5. Pending' = Pending /\ SeenSane' /\ OpsSane' /\ SeenCovers'
  BY <1>2, <1>3, <1>4, StepsOn
<1>6. BookSane' /\ \A v : v[1].members = {} /\ Kept(v) => Kept(v)'
  BY <1>1, <1>2, <1>3, ServedKeeps
<1>7. Control'
  BY <1>2, <1>3 DEF IInv, Control, OpSteps
<1>8. JournalApart'
  BY <1>2, <1>3, <1>5 DEF IInv, JournalApart
<1>9. JournalSane'
  BY <1>2 DEF IInv, JournalSane
<1>10. OwedKept'
  BY <1>2, <1>6 DEF IInv, OwedKept
<1> QED BY <1>5, <1>6, <1>7, <1>8, <1>9, <1>10 DEF IInv

\* The entry of a Recreate is of UIDs no other entry has: nothing is replaced.
LEMMA JournalKeeps ==
    ASSUME IInv, Journal
    PROVE  IInv'
<1>1. /\ pc = "journal" /\ journal' = {j \in journal : j.uid # cur.uid} \cup cur.journal
      /\ UNCHANGED <<book, seen, todo, cur, conflicts, pending, faults, owed>>
  BY DEF Journal
<1>2. pc' = StepOf(cur, 4)
  BY <1>1, ContinueMeans, OrderIs DEF Journal
<1> DEFINE s == StepOf(cur, 4)
<1>3. /\ s \in OpSteps /\ s \in {"delete", "then", "save"}
      /\ s # "save" => cur[s] # {}
      /\ s \in {"then", "save"} => cur.delete = {}
  BY StepFacts
<1>4. s = pc'
  BY <1>2
<1> HIDE DEF s
<1>5. pc \in OpSteps /\ pc' \in OpSteps
  BY <1>1, <1>3, <1>4 DEF OpSteps
<1>6. Pending' = Pending /\ SeenSane' /\ OpsSane' /\ SeenCovers'
  BY <1>1, <1>5, StepsOn
<1>7. cur \in Pending /\ OpSane(cur) /\ cur.journal # {} /\ cur.archive \subseteq conflicts
  <2>1. cur[pc] # {} /\ cur.archive \subseteq conflicts
    BY <1>1 DEF IInv, Control, OpSteps
  <2> QED BY <1>1, <1>5, <2>1, CurIsPending DEF IInv, OpsSane
<1>8. PICK k : Renews(cur, k)
  BY <1>7 DEF OpSane
<1>9. /\ cur.journal = {k} /\ cur.delete = {k.old} /\ cur.then = {Put("fastmail", {}, k.new)}
      /\ k.uid = cur.uid /\ k.old.uid # cur.uid
  BY <1>8 DEF Renews
<1>10. IsCard(k.new) /\ k.new.uid = k.uid /\ k.new.at = "minted"
  <2>1. PutSane(cur, Put("fastmail", {}, k.new))
    BY <1>7, <1>9 DEF OpSane
  <2> QED BY <1>9, <2>1, PutIs DEF PutSane
<1>11. Owns(cur) = {k.uid, k.old.uid}
  BY <1>9 DEF Owns
<1>12. \A q \in Pending, j \in journal : j.uid \notin Owns(q) /\ j.old.uid \notin Owns(q)
  BY <1>1 DEF IInv, JournalApart
<1>13. journal' = journal \cup {k}
  BY <1>1, <1>7, <1>9, <1>11, <1>12
<1>14. JournalSane'
  <2>1. \A j \in journal : j.uid # k.uid /\ j.uid # k.old.uid /\ j.old.uid # k.uid
    BY <1>7, <1>11, <1>12
  <2> QED BY <1>9, <1>10, <1>13, <2>1 DEF IInv, JournalSane
<1>15. JournalApart'
  <2>1. ASSUME NEW q \in Pending
        PROVE  (k.uid \notin Owns(q) /\ k.old.uid \notin Owns(q)) \/ q = cur
    <3>1. q # cur => Owns(q) \cap Owns(cur) = {}
      BY <1>7 DEF IInv, OpsSane
    <3> QED BY <1>11, <3>1
  <2> QED BY <1>1, <1>3, <1>4, <1>6, <1>9, <1>12, <1>13, <2>1 DEF JournalApart
<1>16. Control'
  BY <1>1, <1>3, <1>4, <1>7, <1>9, <1>13 DEF IInv, Control, OpSteps
<1>17. BookSane'
  BY <1>1 DEF IInv, BookSane
<1>18. ASSUME NEW v \in owed', v[1].members = {}
       PROVE  Kept(v)'
  <2>1. Kept(v)
    BY <1>1, <1>18 DEF IInv, OwedKept
  <2>2. pc' # "save"
    BY <1>3, <1>4, <1>9
  <2>3. \A j \in journal : Counts(j) => j \in journal' /\ Counts(j)'
    BY <1>1, <1>5, <1>13, <2>2, CountsOn
  <2>4. \A t \in Side : \A c \in book[t] : c \in book'[t]
    BY <1>1
  <2>5. conflicts \subseteq conflicts'
    BY <1>1
  <2> QED BY <2>1, <2>3, <2>4, <2>5, KeptGrows
<1>19. OwedKept'
  BY <1>18 DEF OwedKept
<1> QED BY <1>6, <1>14, <1>15, <1>16, <1>17, <1>19 DEF IInv

\* A DELETE of the current operation.
LEMMA RunDeleteKeeps ==
    ASSUME IInv, ~ Clash, RunDelete
    PROVE  IInv'
<1>1. /\ pc = "delete" /\ book' = [book EXCEPT !["fastmail"] = @ \ cur.delete]
      /\ UNCHANGED <<seen, todo, cur, conflicts, journal, pending, faults, owed>>
  BY DEF RunDelete, store
<1>2. cur[pc] # {} /\ pc \in OpSteps
  BY <1>1 DEF IInv, Control, OpSteps
<1>3. cur \in Pending /\ OpSane(cur) /\ cur.delete # {}
  BY <1>1, <1>2, CurIsPending DEF IInv, OpsSane
<1>4. cur.then # {}
  <2>1. PICK k : Renews(cur, k)
    BY <1>3 DEF OpSane
  <2> QED BY <2>1 DEF Renews
<1> DEFINE s == StepOf(cur, 5)
<1>5. /\ s \in {"delete", "then", "save"} /\ s # "delete"
      /\ s = "save" => cur.then = {}
  BY StepFacts
<1>6. s = pc'
  BY <1>1, ContinueMeans, OrderIs DEF RunDelete
<1> HIDE DEF s
<1>7. pc' = "then" /\ pc' \in OpSteps
  BY <1>4, <1>5, <1>6 DEF OpSteps
<1>8. Pending' = Pending /\ SeenSane' /\ OpsSane' /\ SeenCovers'
  BY <1>1, <1>2, <1>7, StepsOn
<1>9. BookSane' /\ \A v : v[1].members = {} /\ Kept(v) => Kept(v)'
  BY <1>1, <1>7, DeleteKeeps
<1>10. Control'
  BY <1>1, <1>4, <1>7 DEF IInv, Control, OpSteps
<1>11. JournalApart'
  BY <1>1, <1>7, <1>8 DEF IInv, JournalApart
<1>12. JournalSane'
  BY <1>1 DEF IInv, JournalSane
<1>13. OwedKept'
  BY <1>1, <1>9 DEF IInv, OwedKept
<1> QED BY <1>8, <1>9, <1>10, <1>11, <1>12, <1>13 DEF IInv

\* An operation that ends, well or not, leaves the others to run.
LEMMA EndOpKeeps ==
    ASSUME IInv, pc \in OpSteps, EndOp, journal' \subseteq journal,
           \A j \in journal : j \in journal' \/ (pc = "save" /\ cur.kind = "Recreate" /\ cur.uid = j.uid),
           UNCHANGED <<book, conflicts, owed>>, faults' \in Nat
    PROVE  IInv'
<1>1. pc' = "apply" /\ UNCHANGED <<seen, todo, pending>>
  BY DEF EndOp
<1>2. Pending' = todo /\ Pending = todo \cup {cur} /\ cur \notin todo
  BY <1>1, CurIsPending DEF IInv, OpsSane, Pending, OpSteps
<1>3. OpsSane'
  BY <1>1, <1>2, OpsShrink DEF IInv, OpSteps
<1>4. Control'
  BY <1>1 DEF Control, OpSteps
<1>5. JournalSane'
  BY EntriesShrink DEF IInv
<1>6. \A op \in todo, j \in journal : j.uid \notin Owns(op) /\ j.old.uid \notin Owns(op)
  BY <1>2 DEF IInv, JournalApart
<1>7. JournalApart'
  BY <1>2, <1>6 DEF JournalApart
<1>8. BookSane' /\ SeenSane' /\ SeenCovers'
  BY <1>1 DEF IInv, BookSane, SeenSane, SeenCovers
<1>9. ASSUME NEW v \in owed', v[1].members = {}
      PROVE  Kept(v)'
  <2>1. Kept(v)
    BY <1>9 DEF IInv, OwedKept
  <2>2. ASSUME NEW j \in journal, Counts(j)
        PROVE  j \in journal' /\ Counts(j)'
    <3>1. j \in journal'
      BY <2>2 DEF Counts
    <3>2. (At("fastmail", j.new) = {})' /\ (At("fastmail", j.old) = {})'
      BY <2>2, CountedIsGone, NobodyAt, NobodyAtNext
    <3>3. Counts(j)'
      BY <1>1, <3>2, GoneCounts
    <3> QED BY <3>1, <3>3
  <2>3. \A t \in Side : \A c \in book[t] : c \in book'[t]
    OBVIOUS
  <2>4. conflicts \subseteq conflicts'
    OBVIOUS
  <2> QED BY <2>1, <2>2, <2>3, <2>4, KeptGrows
<1>10. OwedKept'
  BY <1>9 DEF OwedKept
<1> QED BY <1>3, <1>4, <1>5, <1>7, <1>8, <1>10 DEF IInv

\* A row that is saved drops the entry of its own Recreate only, whose card is there.
LEMMA SaveKeeps ==
    ASSUME IInv, Save
    PROVE  IInv'
<1>1. /\ pc = "save" /\ EndOp
      /\ journal' = IF cur.kind = "Recreate" THEN {j \in journal : j.uid # cur.uid} ELSE journal
      /\ UNCHANGED <<book, conflicts, owed, faults>>
  BY DEF Save
<1>2. faults' \in Nat
  BY <1>1 DEF IInv, Control
<1>3. /\ journal' \subseteq journal
      /\ \A j \in journal : j \in journal' \/ (pc = "save" /\ cur.kind = "Recreate" /\ cur.uid = j.uid)
  BY <1>1
<1>4. pc \in OpSteps
  BY <1>1 DEF OpSteps
<1> QED BY <1>1, <1>2, <1>3, <1>4, EndOpKeeps

\* A refused write ends its operation; its entry stays.
LEMMA RefusedKeeps ==
    ASSUME IInv, Refused
    PROVE  IInv'
<1>1. pc \in OpSteps /\ EndOp /\ UNCHANGED <<book, conflicts, journal, owed, faults>>
  BY DEF Refused, FailOp, OpSteps
<1>2. faults' \in Nat
  BY <1>1 DEF IInv, Control
<1> QED BY <1>1, <1>2, EndOpKeeps

\* So does a rejected one.
LEMMA RejectedKeeps ==
    ASSUME IInv, Rejected
    PROVE  IInv'
<1>1. pc \in OpSteps /\ EndOp /\ UNCHANGED <<book, conflicts, journal, owed>>
  BY DEF Rejected, FailOp, OpSteps
<1>2. faults' \in Nat
  BY FaultCounts DEF Rejected
<1> QED BY <1>1, <1>2, EndOpKeeps

(***************************************************************************)
(* How a cycle ends.                                                       *)
(***************************************************************************)
LEMMA CrashKeeps ==
    ASSUME IInv, Crash
    PROVE  IInv'
<1>1. EndCycle /\ UNCHANGED <<book, conflicts, journal, owed>>
  BY DEF Crash, CutOff, store
<1>2. faults' \in Nat
  BY FaultCounts DEF Crash
<1> QED BY <1>1, <1>2, CutKeeps

\* The end of a cycle.
LEMMA FinishKeeps ==
    ASSUME IInv, Finish
    PROVE  IInv'
<1>1. EndCycle /\ UNCHANGED <<book, conflicts, journal, owed, faults>>
  BY DEF Finish
<1>2. faults' \in Nat
  BY <1>1 DEF IInv, Control
<1> QED BY <1>1, <1>2, CutKeeps

\* A cycle that is cut off in a step: the server did it or not.
LEMMA AbortedKeeps ==
    ASSUME IInv, ~ Clash, Aborted
    PROVE  IInv'
<1>1. EndCycle /\ pc' = "wait" /\ UNCHANGED <<conflicts, journal, owed>>
  BY DEF Aborted, CutOff, EndCycle, store
<1>2. faults' \in Nat
  BY FaultCounts DEF Aborted
<1>3. SeenSane' /\ OpsSane' /\ Control' /\ JournalSane' /\ JournalApart' /\ SeenCovers'
  BY <1>1, <1>2, CutShape
<1>4. ASSUME BookSane', \A v : v[1].members = {} /\ Kept(v) => Kept(v)'
      PROVE  IInv'
  <2>1. OwedKept'
    BY <1>1, <1>4 DEF IInv, OwedKept
  <2> QED BY <1>3, <1>4, <2>1 DEF IInv
<1>5. CASE UNCHANGED book
  BY <1>1, <1>2, <1>5, CutKeeps
<1>6. CASE pc \in {"first", "then"} /\ \E w \in cur[pc] : Accepts(w) /\ Served(w)
  <2>1. PICK w \in cur[pc] : Accepts(w) /\ Served(w)
    BY <1>6
  <2> QED BY <1>1, <1>4, <1>6, <2>1, ServedKeeps
<1>7. CASE pc = "delete" /\ book' = [book EXCEPT !["fastmail"] = @ \ cur.delete]
  BY <1>1, <1>4, <1>7, DeleteKeeps
<1> QED BY <1>5, <1>6, <1>7 DEF Aborted

(***************************************************************************)
(* The invariant, and what it is for.                                      *)
(***************************************************************************)
LEMMA InitIInv == Init => IInv
<1> SUFFICES ASSUME Init PROVE IInv
  OBVIOUS
<1>1. /\ book \in Books /\ owed = UNION {{Version(c) : c \in book[s]} : s \in Side}
      /\ journal = {} /\ pc = "wait" /\ seen = [s \in Side |-> {}]
      /\ todo = {} /\ faults = 0
  BY DEF Init
<1>2. BookSane
  BY <1>1, BooksAssumption DEF BookSane, IsCard
<1>3. SeenSane
  BY <1>1 DEF SeenSane
<1>4. Pending = {}
  BY <1>1 DEF Pending, OpSteps
<1>5. OpsSane /\ JournalApart
  BY <1>1, <1>4 DEF OpsSane, JournalApart, OpSteps
<1>6. Control
  BY <1>1 DEF Control, OpSteps
<1>7. JournalSane /\ SeenCovers
  BY <1>1 DEF JournalSane, SeenCovers
<1>8. OwedKept
  BY <1>1 DEF OwedKept, Kept
<1> QED BY <1>2, <1>3, <1>5, <1>6, <1>7, <1>8 DEF IInv

\* Every step keeps the invariant.
LEMMA NextIInv ==
    ASSUME IInv, ReplaysServed, ~ Clash, [Next]_vars
    PROVE  IInv'
<1>1. CASE UNCHANGED vars
  BY <1>1, IInvLooksAt DEF vars, store, cycle
<1>2. CASE UserEdit \/ UserDelete \/ BackoffPasses
  BY <1>2, UserEditKeeps, UserDeleteKeeps, BackoffPassesKeeps
<1>3. CASE Wake \/ Look \/ DropEntry \/ ReplayPut \/ Replayed
  BY <1>3, WakeKeeps, LookKeeps, DropEntryKeeps, ReplayPutKeeps, ReplayedKeeps
<1>4. CASE Plan \/ StartOp \/ Archive \/ RunPut \/ Journal \/ RunDelete \/ Save \/ Refused \/ Finish
  BY <1>4, PlanKeeps, StartOpKeeps, ArchiveKeeps, RunPutKeeps, JournalKeeps, RunDeleteKeeps, SaveKeeps,
     RefusedKeeps, FinishKeeps
<1>5. CASE Crash \/ ReplayRejected \/ ReplayAborted \/ Rejected \/ Aborted
  BY <1>5, CrashKeeps, ReplayRejectedKeeps, ReplayAbortedKeeps, RejectedKeeps, AbortedKeeps
<1> QED BY <1>1, <1>2, <1>3, <1>4, <1>5 DEF Next, Daemon, Faulty

\* What is kept is on a card, in the history or in the journal.
LEMMA KeptIsThere == IInv => NoVersionLost
<1> SUFFICES ASSUME IInv, NEW v \in owed, v[1].members = {} PROVE v \in Versions
  BY DEF NoVersionLost
<1>1. Kept(v)
  BY DEF IInv, OwedKept
<1>2. ASSUME NEW s \in Side, NEW c \in book[s], Version(c) = v
      PROVE  v \in Versions
  BY <1>2 DEF Versions
<1>3. ASSUME NEW r \in conflicts, v = Version(r.icloud) \/ v = Version(r.fastmail)
      PROVE  v \in Versions
  BY <1>3 DEF Versions
<1>4. ASSUME NEW j \in journal, Version(j.new) = v
      PROVE  v \in Versions
  BY <1>4 DEF Versions
<1> QED BY <1>1, <1>2, <1>3, <1>4 DEF Kept

\* No version is lost, for every two address books, every number of edits and
\* every list of faults in which no replay is rejected, as long as no Recreate
\* deletes a card whose new href somebody else's card has taken.
THEOREM VersionsAreKept ==
    ASSUME ReplaysServed
    PROVE  Spec /\ [] ~ Clash => [] NoVersionLost
<1>1. Init => IInv
  BY InitIInv
<1>2. IInv /\ ~ Clash /\ [Next]_vars => IInv'
  BY NextIInv
<1>3. IInv => NoVersionLost
  BY KeptIsThere
<1> QED BY <1>1, <1>2, <1>3, PTL DEF Spec

(***************************************************************************)
(* The duplicates listed.                                                  *)
(***************************************************************************)
\* Every set of numbers has a smallest.
LEMMA SmallestIsThere ==
    ASSUME NEW S, S \subseteq Nat, S # {}
    PROVE  \E n \in S : \A m \in S : n <= m
<1> DEFINE upTo(k) == {m \in S : m <= k}
           all == {upTo(k) : k \in S}
<1>0. \A k \in S : k \in Nat
  OBVIOUS
<1>1. ASSUME NEW k \in S
      PROVE  upTo(k) \in FiniteSubsetsOf(Nat)
  <2>1. upTo(k) \subseteq 0 .. k
    <3>1. \A m, n \in Nat : m <= n => m \in 0 .. n
      OBVIOUS
    <3> QED BY <1>0, <3>1
  <2>2. IsFiniteSet(0 .. k)
    BY <1>0, FS_Interval
  <2>3. IsFiniteSet(upTo(k)) /\ upTo(k) \subseteq Nat
    BY <1>0, <2>1, <2>2, FS_Subset
  <2> QED BY <2>3 DEF FiniteSubsetsOf
<1>2. all \subseteq FiniteSubsetsOf(Nat) /\ all # {}
  BY <1>1
<1>3. PICK B \in all : \A C \in all : <<C, B>> \notin StrictSubsetOrdering(Nat)
  <2> HIDE DEF all
  <2> QED BY <1>2, FS_StrictSubsetOrderingWellFounded, WFMin
<1>4. PICK k \in S : B = upTo(k)
  BY <1>3
<1>5. ASSUME NEW m \in S, m < k
      PROVE  FALSE
  <2>1. upTo(m) \subseteq upTo(k) /\ k \in upTo(k) /\ k \notin upTo(m)
    <3>1. \A a, b, c \in Nat : a <= b /\ b < c => a <= c /\ ~ (c <= b) /\ c <= c
      OBVIOUS
    <3>2. m <= m
      BY <1>0
    <3> QED BY <1>0, <1>5, <3>1, <3>2
  <2>2. upTo(m) \in all
    OBVIOUS
  <2> QED BY <1>3, <1>4, <1>1, <2>1, <2>2 DEF StrictSubsetOrdering, FiniteSubsetsOf
<1> QED BY <1>0, <1>5

\* Whoever deletes the first contact of every line of the duplicates listed
\* keeps one that shares a point with one deleted, whatever the rows.  If not,
\* every deleted contact's first like it would be deleted as well; but a line
\* that says what another says already is left out.
LEMMA DuplicatesLeaveOne ==
    ASSUME NEW state, DOMAIN state \subseteq Nat,
           NEW alike, alike # {}, alike \subseteq {m[1] : m \in SyncedDuplicates(state)}
    PROVE  \E i \in alike, j \in (DOMAIN state) \ alike : SharePoint(state[i], state[j])
<1> DEFINE D == DOMAIN state
           Like(i) == {j \in D \ {i} : ~ Named(state[i]) /\ SharePoint(state[i], state[j])}
           First(i) == CHOOSE j \in Like(i) : \A k \in Like(i) : j <= k
<1>1. SyncedDuplicates(state) =
          {<<i, First(i)>> : i \in
              {i \in D : Like(i) # {} /\ ~ (First(i) < i /\ Like(First(i)) # {} /\ First(First(i)) = i)}}
  BY DEF SyncedDuplicates
<1>2. ASSUME NEW i \in alike
      PROVE  /\ i \in D /\ Like(i) # {}
             /\ ~ (First(i) < i /\ Like(First(i)) # {} /\ First(First(i)) = i)
  <2> HIDE DEF First, Like
  <2> QED BY <1>1
<1>3. ASSUME NEW i, Like(i) # {}
      PROVE  First(i) \in Like(i) /\ \A k \in Like(i) : First(i) <= k
  <2>1. Like(i) \subseteq Nat
    OBVIOUS
  <2>2. \E j \in Like(i) : \A k \in Like(i) : j <= k
    <3> HIDE DEF Like
    <3> QED BY <1>3, <2>1, SmallestIsThere
  <2> HIDE DEF Like
  <2> QED BY <2>2
<1>4. \A i, j : j \in Like(i) => j \in D /\ j # i /\ ~ Named(state[i]) /\ SharePoint(state[i], state[j])
  OBVIOUS
<1>5. \A i, j \in D : j # i /\ ~ Named(state[i]) /\ SharePoint(state[i], state[j]) => j \in Like(i)
  OBVIOUS
<1>6. \A c, d : SharePoint(c, d) => SharePoint(d, c)
  BY DEF SharePoint
<1> HIDE DEF Like, First
<1> SUFFICES ASSUME \A i \in alike, j \in D \ alike : ~ SharePoint(state[i], state[j])
             PROVE  FALSE
  OBVIOUS
<1>7. ASSUME NEW i \in alike
      PROVE  First(i) \in alike
  BY <1>2, <1>3, <1>4
<1>8. \A i \in alike : i \in Nat
  BY <1>2
<1>9. PICK m \in alike : \A i \in alike : m <= i
  <2>1. alike \subseteq Nat
    BY <1>8
  <2> QED BY <2>1, SmallestIsThere
<1> DEFINE f == First(m)
<1>10. f \in alike /\ f \in Like(m) /\ f # m
  BY <1>2, <1>3, <1>4, <1>7
<1>11. m \in Like(f)
  <2>1. ~ Named(state[f])
    BY <1>2, <1>4, <1>10
  <2> QED BY <1>2, <1>4, <1>5, <1>6, <1>10, <2>1
<1>12. First(f) \in alike /\ First(f) <= m
  BY <1>3, <1>7, <1>10, <1>11
<1>13. First(f) = m
  <2>1. ASSUME NEW i \in alike, i <= m
        PROVE  i = m
    BY <1>8, <1>9, <2>1
  <2> QED BY <1>12, <2>1
<1>14. m < f /\ Like(m) # {}
  <2>1. ASSUME NEW i \in alike, i # m
        PROVE  m < i
    BY <1>8, <1>9, <2>1
  <2> QED BY <1>10, <2>1
<1> HIDE DEF f
<1>15. First(f) < f /\ Like(First(f)) # {} /\ First(First(f)) = f
  BY <1>13, <1>14 DEF f
<1> QED BY <1>2, <1>10, <1>15

\* DuplicatesKeepOne, whatever the contacts and their rows.
THEOREM DuplicatesLeaveOneHolds ==
    ASSUME IsFiniteSet(Uid)
    PROVE  Spec => [] DuplicatesKeepOne
<1> DEFINE synced == {u \in Uid : rows[u] # None}
<1>1. DuplicatesKeepOne
  <2> DEFINE N == Cardinality(synced)
  <2>1. N \in Nat
    BY FS_Subset, FS_CardinalityType
  <2> HIDE DEF N
  <2> SUFFICES ASSUME NEW order \in [1 .. N -> synced],
                      NEW alike \in SUBSET {m[1] : m \in SyncedDuplicates([i \in DOMAIN order |-> [content |-> rows[order[i]]]])},
                      alike # {}
               PROVE  LET state == [i \in DOMAIN order |-> [content |-> rows[order[i]]]] IN
                      \E i \in alike, j \in (DOMAIN state) \ alike : SharePoint(state[i], state[j])
    BY DEF DuplicatesKeepOne, N
  <2> DEFINE state == [i \in DOMAIN order |-> [content |-> rows[order[i]]]]
  <2>2. DOMAIN state = 1 .. N
    OBVIOUS
  <2>3. DOMAIN state \subseteq Nat
    BY <2>1, <2>2
  <2> HIDE DEF state
  <2>4. \E i \in alike, j \in (DOMAIN state) \ alike : SharePoint(state[i], state[j])
    BY <2>3, DuplicatesLeaveOne DEF state
  <2> QED BY <2>4 DEF state
<1> QED BY <1>1, PTL DEF Spec
(***************************************************************************)
(* What becomes of every card (CycleAccounts).  A plan made of the two     *)
(* address books as they are settles each of their cards or gives it an    *)
(* operation, and running one touches no card of another, so that at the   *)
(* end each is synced, in the report, or in a failure.                     *)
(***************************************************************************)

\* A card of a contact there may be, that says something.
Typed(c) == IsCard(c) /\ c.uid \in Uid /\ IsContent(c.content)

\* So many cards a side, one at an href.
CardsOf(view) ==
    /\ view = [s \in Side |-> view[s]]
    /\ \A s \in Side :
          /\ IsFiniteSet(view[s])
          /\ \A c \in view[s] : Typed(c)
          /\ \A c, d \in view[s] : SameHref(c, d) => c = d

\* The UIDs of the cards an operation is about.
About(op) == {k[2].uid : k \in op.cards}

\* How an operation's cards, the cards it writes and its row belong together.
PutOf(op, w) ==
    /\ w.side \in Side /\ Typed(w.card) /\ w.card.uid = op.uid
    /\ \A c \in w.over : <<w.side, c>> \in op.cards /\ w.over = {c} /\ SameHref(c, w.card)

CardOf(op, k) ==
    /\ k[1] \in Side
    /\ k[2].uid = op.uid \/ (k[1] = "fastmail" /\ k[2] \in op.delete)

OpOwn(op) ==
    /\ op.uid \in Uid /\ IsContent(op.content)
    /\ op.uid \in About(op) /\ \A k \in op.cards : CardOf(op, k)
    /\ \A w \in op.first \cup op.then : PutOf(op, w)
    /\ \A w \in op.first : w.over # {}
    /\ \A c \in op.delete : <<"fastmail", c>> \in op.cards /\ c.uid # op.uid /\ op.delete = {c}
    /\ \A j \in op.journal : Typed(j.new)

\* What an operation creates, a side counts as added, unless it is put in
\* the place of the card it deletes.
OpCounts(op) ==
    /\ op.kind \in {"Adopt", "Conflict", "Recreate", "Create", "CopyGroup"}
    /\ op.kind = "Adopt" => op.then = {}
    /\ op.delete # {} => op.kind = "Recreate"
    /\ op.kind = "Recreate" =>
          op.delete # {} /\ \E w \in op.then : op.then = {w} /\ w.side = "fastmail" /\ w.over = {}
    /\ op.kind = "Conflict" => op.then # {} /\ \A w \in op.then : w.over # {}
    /\ op.kind = "Create" => \E w \in op.then : op.then = {w} /\ w.over = {}
    /\ op.kind = "CopyGroup" => \E w \in op.then : op.then = {w} /\ w.side = "icloud" /\ w.over = {}

Working == pc \in OpSteps \cup {"apply"}

Planned ==
    /\ \A op \in Pending : OpOwn(op) /\ OpCounts(op)
    /\ \A p, q \in Pending : p # q => About(p) \cap About(q) = {}
    /\ pc \in OpSteps => cur \notin todo
    /\ ~ Working => todo = {} /\ summary = CycleSummary

\* What was written for the current operation is of its contact.
Written ==
    /\ \A k \in wrote : k[1] \in Side /\ k[2].uid = cur.uid
    /\ pc \notin OpSteps => wrote = {}

\* What an entry puts back is a card.
Entries == \A j \in journal \cup pending : Typed(j.new)

Bases ==
    /\ CardsOf(book) /\ CardsOf(seen) /\ Entries
    /\ DOMAIN rows = Uid
    /\ Planned /\ Written
    /\ edits \in Nat

\* The card a Recreate deletes goes when it is deleted, and its href stays free.
Deleted ==
    /\ pc \in {"archive", "first", "journal", "delete"} /\ edits = 0 => cur.delete \subseteq book["fastmail"]
    /\ pc \in {"then", "save"} /\ edits = 0 => \A c \in cur.delete : At("fastmail", c) = {}

\* Whoever is looked at is seen as he is.
Reads ==
    /\ pc = "read fastmail" => seen["icloud"] = book["icloud"]
    /\ pc = "plan" => seen = book

Fresh ==
    edits = 0 =>
        /\ Reads
        /\ \A op \in todo : \A k \in op.cards : k[2] \in book[k[1]]

\* A card of the current operation, or one it wrote.
InHand(s, c) ==
    /\ pc \in OpSteps
    /\ \/ \E k \in cur.cards : k[1] = s /\ SameHref(k[2], c)
       \/ <<s, c>> \in wrote

Told(s, c) ==
    \/ rows[c.uid] # None \/ c.uid \in report.held
    \/ c.uid \in report.in_sync /\ summary.state_errors # 0
    \/ c \in {skip.card : skip \in report.skipped[s]} \cup report.likely_duplicates[s]
    \/ \E f \in failures : f.side = s /\ SameHref(f.card, c)

Accounted ==
    Working /\ edits = 0 =>
        \A s \in Side : \A c \in book[s] :
            Told(s, c) \/ InHand(s, c) \/ \E op \in todo : <<s, c>> \in op.cards

\* The counts of a cycle.
IsSummary(sum) ==
    sum \in [toward : [Side -> [added : Nat, updated : Nat, conflicts : Nat, errors : Nat]],
             adopted : Nat, state_errors : Nat]

Reported ==
    Working =>
        /\ \A s \in Side : \A skip \in report.skipped[s] :
              Named(skip.card) => skip.candidate_count # 1
        /\ \A op \in Pending : op.kind = "Adopt" => op.uid \in report.in_sync
        /\ IsSummary(summary)

\* What the current operation has added and not yet counted, and what it has
\* deleted and not yet put back.
Extra(s) == IF pc = "save" /\ cur.kind \in {"Create", "CopyGroup"} /\ (\E w \in cur.then : w.side = s) THEN 1 ELSE 0

Lacking(s) == IF pc = "then" /\ cur.delete # {} /\ s = "fastmail" THEN 1 ELSE 0

Counting ==
    Working /\ edits = 0 /\ failed = {} =>
        \A s \in Side :
            Cardinality(book[s]) + Lacking(s) = Cardinality(seen[s]) + summary.toward[s].added + Extra(s)

AInv == Bases /\ Deleted /\ Fresh /\ Accounted /\ Reported /\ Counting

(***************************************************************************)
(* The operations of a plan own their cards.                               *)
(***************************************************************************)

\* A record with other members is a record.
LEMMA RewrittenContent ==
    ASSUME NEW x, IsContent(x), NEW members
    PROVE  IsContent([x EXCEPT !.members = members])
BY DEF IsContent

\* A minted card and a rewritten one are cards of their contact.
LEMMA MintedTyped ==
    ASSUME NEW u \in Uid, NEW content, IsContent(content), NEW photo
    PROVE  Typed(Minted(u, content, photo)) /\ Minted(u, content, photo).uid = u
BY MintedIs DEF Typed, Minted

\* The same of a rewritten one.
LEMMA RewrittenTyped ==
    ASSUME NEW c, Typed(c), NEW content, IsContent(content)
    PROVE  LET d == [c EXCEPT !.content = content] IN
           Typed(d) /\ d.uid = c.uid /\ SameHref(c, d)
<1> DEFINE d == [c EXCEPT !.content = content]
<1>1. IsCard(d) /\ SameHref(c, d) /\ Version(d) = <<content, c.photo>>
  BY RewrittenIs DEF Typed
<1> HIDE DEF d
<1>2. d.content = content /\ d.uid = c.uid
  BY <1>1 DEF Version, SameHref
<1> QED BY <1>1, <1>2 DEF Typed, d

\* What an operation for two cards or for one is about.
LEMMA RecreateAbout ==
    ASSUME NEW m, NEW content, NEW archive, NEW first
    PROVE  Recreate(m, content, archive, first).cards = Both(m)
           /\ Recreate(m, content, archive, first).content = content
BY DEF Recreate, StateOnly

\* A conflict, an adoption and a copy, likewise.
LEMMA OthersAbout ==
    ASSUME NEW m, NEW s, NEW c
    PROVE  /\ ConflictOf(m).cards = Both(m) /\ ConflictOf(m).content = Winning(m).content
           /\ AdoptOf(m).cards = Both(m) /\ AdoptOf(m).content = m[1].content
           /\ CreateOf(s, c).cards = {<<s, c>>} /\ CreateOf(s, c).content = c.content
BY DEF ConflictOf, AdoptOf, CreateOf, StateOnly

\* A group that is copied, with its members rewritten.
LEMMA CopyGroupAbout ==
    ASSUME NEW c, IsContent(c.content), NEW aliases
    PROVE  \E content :
              LET op == CopyGroup(c, aliases) IN
              /\ IsContent(content)
              /\ op.kind = "CopyGroup" /\ op.uid = c.uid /\ op.content = content
              /\ op.cards = {<<"fastmail", c>>}
              /\ op.archive = {} /\ op.journal = {} /\ op.delete = {}
              /\ op.first = {Put("fastmail", {c}, [c EXCEPT !.content = content])}
              /\ op.then = {Put("icloud", {}, Minted(c.uid, content, c.photo))}
<1> DEFINE New(u) == IF \E a \in aliases : a[1] = u
                     THEN (CHOOSE a \in aliases : a[1] = u)[2] ELSE u
           members == {New(u) : u \in c.content.members}
           content == [c.content EXCEPT !.members = members]
<1>1. CopyGroup(c, aliases) =
        [StateOnly("CopyGroup", c.uid, content, {<<"fastmail", c>>}) EXCEPT
            !.first = {Put("fastmail", {c}, [c EXCEPT !.content = content])},
            !.then = {Put("icloud", {}, Minted(c.uid, content, c.photo))}]
  BY DEF CopyGroup
<1>2. IsContent(content)
  BY RewrittenContent
<1> HIDE DEF content
<1> QED BY <1>1, <1>2 DEF StateOnly

\* The cards of a match.
LEMMA BothIs ==
    ASSUME NEW m
    PROVE  /\ <<"icloud", m[1]>> \in Both(m) /\ <<"fastmail", m[2]>> \in Both(m)
           /\ \A k \in Both(m) : k = <<"icloud", m[1]>> \/ k = <<"fastmail", m[2]>>
BY DEF Both

\* A Recreate owns its two cards.
LEMMA RecreateOwn ==
    ASSUME NEW m, Typed(m[1]), Typed(m[2]), m[1].uid # m[2].uid,
           NEW content, IsContent(content), NEW archive, NEW first,
           \A w \in first : w.over # {} /\ PutOf(Recreate(m, content, archive, first), w)
    PROVE  LET op == Recreate(m, content, archive, first) IN
           OpOwn(op) /\ OpCounts(op) /\ op.cards = Both(m)
<1> DEFINE op == Recreate(m, content, archive, first)
           new == Minted(m[1].uid, content, m[2].photo)
           j == Journaled(m, new)
           w == Put("fastmail", {}, j.new)
<1>1. /\ op.kind = "Recreate" /\ op.uid = m[1].uid
      /\ op.archive = archive /\ op.first = first
      /\ op.journal = {j} /\ op.delete = {m[2]} /\ op.then = {w}
      /\ j.uid = m[1].uid /\ j.old = m[2] /\ j.new = new
  BY RecreateIs
<1>2. op.cards = Both(m) /\ op.content = content
  BY RecreateAbout
<1>3. Typed(new) /\ new.uid = m[1].uid
  BY MintedTyped DEF Typed
<1>4. w.side = "fastmail" /\ w.over = {} /\ w.card = j.new
  BY PutIs
<1>5. /\ <<"icloud", m[1]>> \in op.cards /\ <<"fastmail", m[2]>> \in op.cards
      /\ \A k \in op.cards : k = <<"icloud", m[1]>> \/ k = <<"fastmail", m[2]>>
  BY <1>2, BothIs
<1>6. \A v \in first : v.over # {} /\ PutOf(op, v)
  OBVIOUS
<1> HIDE DEF op, new, j, w
<1>7. PutOf(op, w)
  BY <1>1, <1>3, <1>4, SideValues DEF PutOf
<1>8. \A k \in op.cards : CardOf(op, k)
  BY <1>1, <1>5, SideValues DEF CardOf
<1>9. OpOwn(op)
  BY <1>1, <1>2, <1>3, <1>5, <1>6, <1>7, <1>8 DEF OpOwn, Typed, About
<1>10. OpCounts(op)
  BY <1>1, <1>4 DEF OpCounts
<1> QED BY <1>2, <1>9, <1>10 DEF op

\* The operation for a match owns its two cards.
LEMMA MatchedOwn ==
    ASSUME NEW p, NEW m, Typed(m[1]), Typed(m[2]),
           m \in p.byUid <=> m[1].uid = m[2].uid
    PROVE  LET op == OpOf(m, p) IN
           OpOwn(op) /\ OpCounts(op) /\ op.cards = Both(m)
<1> DEFINE op == OpOf(m, p)
<1>1. /\ <<"icloud", m[1]>> \in Both(m) /\ <<"fastmail", m[2]>> \in Both(m)
      /\ \A k \in Both(m) : k = <<"icloud", m[1]>> \/ k = <<"fastmail", m[2]>>
  BY BothIs
<1>2. CASE m \in p.byUid /\ SameContent(m[1], m[2])
  <2>1. op = AdoptOf(m)
    BY <1>2 DEF OpOf
  <2>2. /\ op.kind = "Adopt" /\ op.uid = m[1].uid /\ op.cards = Both(m) /\ op.content = m[1].content
        /\ op.first = {} /\ op.journal = {} /\ op.delete = {} /\ op.then = {}
    BY <2>1, AdoptIs, OthersAbout
  <2> HIDE DEF op
  <2>3. OpOwn(op)
    BY <1>1, <1>2, <2>2, SideValues DEF OpOwn, CardOf, Typed, About
  <2>4. OpCounts(op)
    BY <2>2 DEF OpCounts
  <2> QED BY <2>2, <2>3, <2>4 DEF op
<1>3. CASE m \in p.byUid /\ ~ SameContent(m[1], m[2])
  <2> DEFINE d == [Losing(m) EXCEPT !.content = Winning(m).content]
             w == Put(Other(Winner), {Losing(m)}, d)
  <2>1. op = ConflictOf(m)
    BY <1>3 DEF OpOf
  <2>2. /\ op.kind = "Conflict" /\ op.uid = m[1].uid /\ op.cards = Both(m)
        /\ op.content = Winning(m).content
        /\ op.first = {} /\ op.journal = {} /\ op.delete = {} /\ op.then = {w}
    BY <2>1, ConflictIs, OthersAbout
  <2>3. /\ Typed(Losing(m)) /\ Typed(Winning(m)) /\ Losing(m).uid = m[1].uid
        /\ Other(Winner) \in Side /\ <<Other(Winner), Losing(m)>> \in Both(m)
    BY <1>1, <1>3, WinnerAssumption, SideValues DEF Losing, Winning, Other
  <2>4. Typed(d) /\ d.uid = m[1].uid /\ SameHref(Losing(m), d)
    BY <2>3, RewrittenTyped DEF Typed
  <2>5. w.side = Other(Winner) /\ w.over = {Losing(m)} /\ w.card = d
    BY PutIs
  <2> HIDE DEF op, d, w
  <2>6. PutOf(op, w)
    BY <2>2, <2>3, <2>4, <2>5 DEF PutOf
  <2>7. OpOwn(op)
    BY <1>1, <1>3, <2>2, <2>3, <2>6, SideValues DEF OpOwn, CardOf, Typed, About
  <2>8. OpCounts(op)
    BY <2>2, <2>5 DEF OpCounts
  <2> QED BY <2>2, <2>7, <2>8 DEF op
<1>4. CASE m \notin p.byUid /\ m \in p.byContent
  <2>1. op = Recreate(m, m[1].content, {}, {})
    BY <1>4 DEF OpOf, ContentPair
  <2> HIDE DEF op
  <2>2. IsContent(m[1].content) /\ m[1].uid # m[2].uid
    BY <1>4 DEF Typed
  <2>3. OpOwn(op) /\ OpCounts(op) /\ op.cards = Both(m)
    BY <2>1, <2>2, RecreateOwn
  <2> QED BY <2>3 DEF op
<1>5. CASE m \notin p.byUid /\ m \notin p.byContent
  <2> DEFINE d == [m[1] EXCEPT !.content = m[2].content]
             w == Put("icloud", {m[1]}, d)
             first == IF Winner = "icloud" THEN {} ELSE {w}
  <2>1. op = Recreate(m, Winning(m).content, {VersionsOf(m)}, first)
    BY <1>5 DEF OpOf, IdentityPair
  <2>2. IsContent(Winning(m).content) /\ m[1].uid # m[2].uid /\ IsContent(m[2].content)
    BY <1>5 DEF Typed, Winning
  <2>3. Typed(d) /\ d.uid = m[1].uid /\ SameHref(m[1], d)
    BY <2>2, RewrittenTyped
  <2>4. w.side = "icloud" /\ w.over = {m[1]} /\ w.card = d
    BY PutIs
  <2>5. op.uid = m[1].uid /\ op.cards = Both(m)
    BY <2>1, RecreateIs, RecreateAbout
  <2> HIDE DEF op, d, w
  <2>6. PutOf(op, w)
    BY <1>1, <2>3, <2>4, <2>5, SideValues DEF PutOf
  <2>7. \A v \in first : v.over # {} /\ PutOf(op, v)
    BY <2>4, <2>6
  <2> HIDE DEF first
  <2>8. OpOwn(op) /\ OpCounts(op) /\ op.cards = Both(m)
    BY <2>1, <2>2, <2>7, RecreateOwn
  <2> QED BY <2>8 DEF op
<1> QED BY <1>2, <1>3, <1>4, <1>5

\* The operation for a card to copy owns it.
LEMMA CopiedOwn ==
    ASSUME NEW s \in Side, NEW c, Typed(c), NEW aliases
    PROVE  LET op == CopyOf(s, c, aliases) IN
           OpOwn(op) /\ OpCounts(op) /\ op.cards = {<<s, c>>}
<1> DEFINE op == CopyOf(s, c, aliases)
<1>1. CASE s = "fastmail" /\ \E a \in aliases : a[1] \in c.content.members
  <2>1. op = CopyGroup(c, aliases)
    BY <1>1 DEF CopyOf
  <2>2. PICK content :
              /\ IsContent(content)
              /\ op.kind = "CopyGroup" /\ op.uid = c.uid /\ op.content = content
              /\ op.cards = {<<"fastmail", c>>}
              /\ op.archive = {} /\ op.journal = {} /\ op.delete = {}
              /\ op.first = {Put("fastmail", {c}, [c EXCEPT !.content = content])}
              /\ op.then = {Put("icloud", {}, Minted(c.uid, content, c.photo))}
    <3>1. \E content : LET o == CopyGroup(c, aliases) IN
              /\ IsContent(content)
              /\ o.kind = "CopyGroup" /\ o.uid = c.uid /\ o.content = content
              /\ o.cards = {<<"fastmail", c>>}
              /\ o.archive = {} /\ o.journal = {} /\ o.delete = {}
              /\ o.first = {Put("fastmail", {c}, [c EXCEPT !.content = content])}
              /\ o.then = {Put("icloud", {}, Minted(c.uid, content, c.photo))}
      BY CopyGroupAbout DEF Typed
    <3> HIDE DEF op
    <3> QED BY <2>1, <3>1
  <2> DEFINE d == [c EXCEPT !.content = content]
             v == Put("fastmail", {c}, d)
             new == Minted(c.uid, content, c.photo)
             w == Put("icloud", {}, new)
  <2>3. Typed(d) /\ d.uid = c.uid /\ SameHref(c, d)
    BY <2>2, RewrittenTyped
  <2>4. Typed(new) /\ new.uid = c.uid
    BY <2>2, MintedTyped DEF Typed
  <2>5. v.side = "fastmail" /\ v.over = {c} /\ v.card = d /\ w.side = "icloud" /\ w.over = {} /\ w.card = new
    BY PutIs
  <2>6. op.first = {v} /\ op.then = {w}
    BY <2>2
  <2> HIDE DEF d, v, new, w, op
  <2>7. PutOf(op, v) /\ PutOf(op, w)
    BY <2>2, <2>3, <2>4, <2>5, SideValues DEF PutOf
  <2>8. OpOwn(op)
    BY <2>2, <2>5, <2>6, <2>7, SideValues DEF OpOwn, CardOf, Typed, About
  <2>9. OpCounts(op)
    BY <2>2, <2>5, <2>6 DEF OpCounts
  <2> QED BY <1>1, <2>2, <2>8, <2>9 DEF op
<1>2. CASE ~ (s = "fastmail" /\ \E a \in aliases : a[1] \in c.content.members)
  <2> DEFINE new == Minted(c.uid, c.content, c.photo)
             w == Put(Other(s), {}, new)
  <2>1. op = CreateOf(s, c)
    BY <1>2 DEF CopyOf
  <2>2. /\ op.kind = "Create" /\ op.uid = c.uid /\ op.cards = {<<s, c>>} /\ op.content = c.content
        /\ op.first = {} /\ op.journal = {} /\ op.delete = {} /\ op.then = {w}
    BY <2>1, CreateIs, OthersAbout
  <2>3. Typed(new) /\ new.uid = c.uid
    BY MintedTyped DEF Typed
  <2>4. w.side = Other(s) /\ w.over = {} /\ w.card = new /\ Other(s) \in Side
    BY PutIs DEF Other, Side
  <2> HIDE DEF new, w, op
  <2>5. PutOf(op, w)
    BY <2>2, <2>3, <2>4 DEF PutOf
  <2>6. OpOwn(op)
    BY <2>2, <2>5 DEF OpOwn, CardOf, Typed, About
  <2>7. OpCounts(op)
    BY <2>2, <2>4 DEF OpCounts
  <2> QED BY <2>2, <2>6, <2>7 DEF op
<1> QED BY <1>1, <1>2

\* What is planned is what the earlier proofs plan.
LEMMA CardsAreSane ==
    ASSUME CardsOf(seen)
    PROVE  SeenSane
BY DEF CardsOf, SeenSane, Typed

\* The cards that may be paired, as they are seen.
LEMMA UnsyncedTyped ==
    ASSUME CardsOf(seen)
    PROVE  /\ Sides(Unsynced(seen))
           /\ \A s \in Side : /\ Unsynced(seen)[s] \subseteq seen[s]
                              /\ IsFiniteSet(Unsynced(seen)[s])
                              /\ \A c \in Unsynced(seen)[s] : Typed(c)
<1>1. Sides(Unsynced(seen))
  BY CardsAreSane, UnsyncedSides
<1>2. \A s \in Side : Unsynced(seen)[s] \subseteq seen[s]
  BY DEF Unsynced, Free
<1>3. \A s \in Side : IsFiniteSet(Unsynced(seen)[s])
  BY <1>2, FS_Subset DEF CardsOf
<1> QED BY <1>1, <1>2, <1>3 DEF CardsOf

\* Each match and each card to copy gets its operation.
LEMMA PlannedAll ==
    ASSUME CardsOf(seen)
    PROVE  LET p == PairedIn(seen) IN
           /\ \A m \in Matches(p) : OpOf(m, p) \in CycleOps(seen)
           /\ \A s \in Side : \A c \in p.copied[s] : \E aliases : CopyOf(s, c, aliases) \in CycleOps(seen)
<1> DEFINE p == PairedIn(seen)
           al == renamed \cup {<<m[2].uid, m[1].uid>> : m \in p.byContent \cup p.byIdentity}
           copies == UNION {{CopyOf(s, c, al) : c \in p.copied[s]} : s \in Side}
<1>1. Apart(p.byUid, p.byContent \cup p.byIdentity) /\ Apart(p.byContent, p.byIdentity)
  BY UnsyncedTyped, PassesApart DEF PairedIn
<1>2. CycleOps(seen) =
          {AdoptOf(m) : m \in {m \in p.byUid : SameContent(m[1], m[2])}}
               \cup {ConflictOf(m) : m \in {m \in p.byUid : ~ SameContent(m[1], m[2])}}
               \cup {ContentPair(m) : m \in p.byContent}
               \cup {IdentityPair(m) : m \in p.byIdentity}
               \cup copies
  BY DEF CycleOps
<1> HIDE DEF p, al
<1>3. \A s \in Side : \A c \in p.copied[s] : CopyOf(s, c, al) \in copies
  OBVIOUS
<1> HIDE DEF copies
<1>4. ASSUME NEW m \in Matches(p)
      PROVE  OpOf(m, p) \in CycleOps(seen)
  <2>1. CASE m \in p.byUid /\ SameContent(m[1], m[2])
    BY <1>2, <2>1 DEF OpOf
  <2>2. CASE m \in p.byUid /\ ~ SameContent(m[1], m[2])
    BY <1>2, <2>2 DEF OpOf
  <2>3. CASE m \notin p.byUid /\ m \in p.byContent
    BY <1>2, <2>3 DEF OpOf
  <2>4. CASE m \notin p.byUid /\ m \notin p.byContent
    BY <1>2, <2>4 DEF OpOf, Matches
  <2> QED BY <2>1, <2>2, <2>3, <2>4
<1>5. \A s \in Side : \A c \in p.copied[s] : \E aliases : CopyOf(s, c, aliases) \in CycleOps(seen)
  BY <1>2, <1>3
<1> QED BY <1>4, <1>5 DEF p

\* The operations of a plan own cards that were seen, each its own; and a
\* card that may be paired has an operation, or is in the report.
LEMMA PlannedOwn ==
    ASSUME CardsOf(seen)
    PROVE  /\ \A op \in CycleOps(seen) : OpOwn(op) /\ OpCounts(op)
           /\ \A op \in CycleOps(seen) : \A k \in op.cards : k[2] \in seen[k[1]]
           /\ \A q, r \in CycleOps(seen) : q # r => About(q) \cap About(r) = {}
           /\ \A s \in Side : \A c \in Unsynced(seen)[s] :
                 \/ \E op \in CycleOps(seen) : <<s, c>> \in op.cards
                 \/ c \in {skip.card : skip \in PairedIn(seen).skips[s]}
                 \/ c \in PairedIn(seen).likely[s]
<1> DEFINE U == Unsynced(seen)
           K == Known(seen)
           P == Paired(U, K)
<1>1. Sides(U) /\ \A s \in Side : U[s] \subseteq seen[s] /\ \A c \in U[s] : Typed(c)
  BY UnsyncedTyped
<1>2. PICK aliases : \A op \in CycleOps(seen) : From(op, P, aliases)
  BY CardsAreSane, PlannedFrom DEF PairedIn
<1>3. /\ \A m \in Matches(P) : OpOf(m, P) \in CycleOps(seen)
      /\ \A s \in Side : \A c \in P.copied[s] : \E al : CopyOf(s, c, al) \in CycleOps(seen)
  BY PlannedAll DEF PairedIn
<1> HIDE DEF U, K
<1>4. /\ \A m, n \in Matches(P) : m # n => {m[1].uid, m[2].uid} \cap {n[1].uid, n[2].uid} = {}
      /\ \A m \in Matches(P), s \in Side : \A c \in P.copied[s] : c.uid # m[1].uid /\ c.uid # m[2].uid
      /\ \A s, t \in Side : \A c \in P.copied[s], d \in P.copied[t] : c.uid = d.uid => s = t /\ c = d
  BY <1>1, UidsApart
<1>5. /\ Matches(P) \subseteq Candidates(U) /\ P.byUid = UidPairs(U)
      /\ \A s \in Side : P.copied[s] \subseteq U[s]
  BY <1>1, PassesApart DEF Matches
<1>6. \A m \in Matches(P) : /\ m[1] \in U["icloud"] /\ m[2] \in U["fastmail"]
                            /\ m \in P.byUid <=> m[1].uid = m[2].uid
  BY <1>5 DEF Candidates, UidPairs
<1>7. ASSUME NEW s \in Side, NEW c \in U[s]
      PROVE  \/ \E m \in Matches(P) : End(s, m) = c
             \/ c \in P.copied[s]
             \/ c \in {skip.card : skip \in P.skips[s]}
             \/ c \in P.likely[s]
  <2>1. c \in On(s, P.byUid) \cup On(s, P.byContent) \cup On(s, P.byIdentity) \cup P.copied[s]
                \cup {skip.card : skip \in P.skips[s]} \cup P.likely[s]
    BY <1>1, EveryCardIsSettled
  <2> HIDE DEF P
  <2> QED BY <2>1 DEF On, Matches
<1> HIDE DEF P
<1>8. \A m \in Matches(P) : LET op == OpOf(m, P) IN OpOwn(op) /\ OpCounts(op) /\ op.cards = Both(m)
  <2> TAKE m \in Matches(P)
  <2>1. Typed(m[1]) /\ Typed(m[2])
    BY <1>1, <1>6, SideValues
  <2> QED BY <1>6, <2>1, MatchedOwn
<1>9. \A s \in Side : \A c \in P.copied[s] : \A al : LET op == CopyOf(s, c, al) IN OpOwn(op) /\ OpCounts(op) /\ op.cards = {<<s, c>>}
  BY <1>1, <1>5, CopiedOwn
<1>10. \A m \in Matches(P) : \A k \in OpOf(m, P).cards : k = <<"icloud", m[1]>> \/ k = <<"fastmail", m[2]>>
  BY <1>8, BothIs
<1>11. \A m \in Matches(P) : About(OpOf(m, P)) \subseteq {m[1].uid, m[2].uid}
  BY <1>10 DEF About
<1>12. \A s \in Side : \A c \in P.copied[s] : About(CopyOf(s, c, aliases)) = {c.uid}
  <2> TAKE s \in Side
  <2> TAKE c \in P.copied[s]
  <2>1. CopyOf(s, c, aliases).cards = {<<s, c>>}
    BY <1>9
  <2> QED BY <2>1 DEF About
<1>13. \A op \in CycleOps(seen) : OpOwn(op) /\ OpCounts(op)
  BY <1>2, <1>8, <1>9 DEF From
<1>14. ASSUME NEW op \in CycleOps(seen), NEW k \in op.cards
       PROVE  k[2] \in seen[k[1]]
  <2>1. From(op, P, aliases)
    BY <1>2
  <2>2. ASSUME NEW m \in Matches(P), op = OpOf(m, P)
        PROVE  k[2] \in seen[k[1]]
    <3>1. k = <<"icloud", m[1]>> \/ k = <<"fastmail", m[2]>>
      BY <1>10, <2>2
    <3> QED BY <1>1, <1>6, <3>1, SideValues
  <2>3. ASSUME NEW s \in Side, NEW c \in P.copied[s], op = CopyOf(s, c, aliases)
        PROVE  k[2] \in seen[k[1]]
    <3>1. k = <<s, c>>
      BY <1>9, <2>3
    <3> QED BY <1>1, <1>5, <3>1
  <2> QED BY <2>1, <2>2, <2>3 DEF From
<1>15. ASSUME NEW q \in CycleOps(seen), NEW r \in CycleOps(seen), q # r
       PROVE  About(q) \cap About(r) = {}
  <2>1. From(q, P, aliases) /\ From(r, P, aliases)
    BY <1>2
  <2>2. ASSUME NEW m \in Matches(P), NEW n \in Matches(P), q = OpOf(m, P), r = OpOf(n, P)
        PROVE  About(q) \cap About(r) = {}
    <3>1. m # n
      BY <1>15, <2>2
    <3> QED BY <1>4, <1>11, <2>2, <3>1
  <2>3. ASSUME NEW m \in Matches(P), NEW s \in Side, NEW c \in P.copied[s],
               \/ q = OpOf(m, P) /\ r = CopyOf(s, c, aliases)
               \/ r = OpOf(m, P) /\ q = CopyOf(s, c, aliases)
        PROVE  About(q) \cap About(r) = {}
    <3>1. c.uid # m[1].uid /\ c.uid # m[2].uid
      BY <1>4
    <3> QED BY <1>11, <1>12, <2>3, <3>1
  <2>4. ASSUME NEW s \in Side, NEW c \in P.copied[s], NEW t \in Side, NEW d \in P.copied[t],
               q = CopyOf(s, c, aliases), r = CopyOf(t, d, aliases)
        PROVE  About(q) \cap About(r) = {}
    <3>1. c.uid # d.uid
      BY <1>4, <1>15, <2>4
    <3> QED BY <1>12, <2>4, <3>1
  <2> QED BY <2>1, <2>2, <2>3, <2>4 DEF From
<1>16. ASSUME NEW s \in Side, NEW c \in U[s]
       PROVE  \/ \E op \in CycleOps(seen) : <<s, c>> \in op.cards
              \/ c \in {skip.card : skip \in P.skips[s]}
              \/ c \in P.likely[s]
  <2>1. ASSUME NEW m \in Matches(P), End(s, m) = c
        PROVE  \E op \in CycleOps(seen) : <<s, c>> \in op.cards
    <3>1. OpOf(m, P) \in CycleOps(seen) /\ OpOf(m, P).cards = Both(m)
      BY <1>3, <1>8
    <3>2. <<s, c>> \in Both(m)
      BY <2>1, BothIs, SideValues DEF End
    <3> QED BY <3>1, <3>2
  <2>2. ASSUME c \in P.copied[s]
        PROVE  \E op \in CycleOps(seen) : <<s, c>> \in op.cards
    <3>1. PICK al : CopyOf(s, c, al) \in CycleOps(seen)
      BY <1>3, <2>2
    <3>2. CopyOf(s, c, al).cards = {<<s, c>>}
      BY <1>9, <2>2
    <3> QED BY <3>1, <3>2
  <2> QED BY <1>7, <2>1, <2>2
<1> QED BY <1>13, <1>14, <1>15, <1>16 DEF P, U, K, PairedIn

(***************************************************************************)
(* Cards put in and taken out.                                             *)
(***************************************************************************)

\* One side's cards.
OneSide(S) ==
    /\ IsFiniteSet(S) /\ \A c \in S : Typed(c)
    /\ \A c, d \in S : SameHref(c, d) => c = d

\* A card put over the one at its href, or where there is none.
LEMMA PutInto ==
    ASSUME NEW S, OneSide(S), NEW card, Typed(card), NEW over,
           over = {} => \A c \in S : ~ SameHref(c, card),
           over # {} => \E c \in S : over = {c} /\ SameHref(c, card)
    PROVE  LET T == (S \ over) \cup {card} IN
           /\ OneSide(T)
           /\ Cardinality(S) \in Nat
           /\ over = {} => Cardinality(T) = Cardinality(S) + 1
           /\ over # {} => Cardinality(T) = Cardinality(S)
<1> DEFINE T == (S \ over) \cup {card}
<1>0. Cardinality(S) \in Nat
  BY FS_CardinalityType DEF OneSide
<1>1. CASE over = {}
  <2>1. card \notin S
    BY <1>1, HrefsEqual
  <2>2. T = S \cup {card}
    BY <1>1
  <2>3. IsFiniteSet(T) /\ Cardinality(T) = Cardinality(S) + 1
    BY <2>1, <2>2, FS_AddElement DEF OneSide
  <2>4. \A c, d \in T : SameHref(c, d) => c = d
    BY <1>1, <2>2, HrefsEqual DEF OneSide
  <2> QED BY <1>0, <1>1, <2>2, <2>3, <2>4 DEF OneSide
<1>2. CASE over # {}
  <2>1. PICK c \in S : over = {c} /\ SameHref(c, card)
    BY <1>2
  <2>2. card \notin S \ {c}
    BY <2>1 DEF OneSide
  <2>3. IsFiniteSet(S \ {c}) /\ Cardinality(S \ {c}) = Cardinality(S) - 1
    BY FS_RemoveElement DEF OneSide
  <2>4. T = (S \ {c}) \cup {card}
    BY <2>1
  <2>5. IsFiniteSet(T) /\ Cardinality(T) = Cardinality(S \ {c}) + 1
    BY <2>2, <2>3, <2>4, FS_AddElement
  <2>6. Cardinality(T) = Cardinality(S)
    BY <1>0, <2>3, <2>5
  <2>7. \A d \in S \ {c} : ~ SameHref(d, card)
    BY <2>1, HrefsEqual DEF OneSide
  <2>8. \A d, e \in T : SameHref(d, e) => d = e
    BY <2>4, <2>7, HrefsEqual DEF OneSide
  <2> QED BY <1>0, <1>2, <2>4, <2>5, <2>6, <2>8 DEF OneSide
<1> QED BY <1>1, <1>2

\* A card taken out.
LEMMA TakenOut ==
    ASSUME NEW S, OneSide(S), NEW c
    PROVE  /\ OneSide(S \ {c}) /\ Cardinality(S) \in Nat
           /\ c \in S => Cardinality(S \ {c}) + 1 = Cardinality(S)
<1>1. Cardinality(S) \in Nat
  BY FS_CardinalityType DEF OneSide
<1>2. /\ IsFiniteSet(S \ {c})
      /\ Cardinality(S \ {c}) = IF c \in S THEN Cardinality(S) - 1 ELSE Cardinality(S)
  BY FS_RemoveElement DEF OneSide
<1> QED BY <1>1, <1>2 DEF OneSide

\* The cards of each side.
LEMMA CardsBySide ==
    ASSUME NEW view
    PROVE  CardsOf(view) <=> view = [s \in Side |-> view[s]] /\ \A s \in Side : OneSide(view[s])
BY DEF CardsOf, OneSide

\* The same with one side changed.
LEMMA OneSideChanged ==
    ASSUME NEW view, CardsOf(view), NEW s \in Side, NEW S, OneSide(S)
    PROVE  /\ CardsOf([view EXCEPT ![s] = S])
           /\ [view EXCEPT ![s] = S][s] = S
           /\ \A t \in Side \ {s} : [view EXCEPT ![s] = S][t] = view[t]
<1> DEFINE next == [view EXCEPT ![s] = S]
<1>1. view = [t \in Side |-> view[t]] /\ \A t \in Side : OneSide(view[t])
  BY CardsBySide
<1>2. next = [t \in Side |-> IF t = s THEN S ELSE view[t]]
  BY <1>1
<1> HIDE DEF next
<1>3. next[s] = S /\ \A t \in Side \ {s} : next[t] = view[t]
  BY <1>2
<1>4. next = [t \in Side |-> next[t]]
  BY <1>2
<1>5. \A t \in Side : OneSide(next[t])
  BY <1>1, <1>3
<1> QED BY <1>3, <1>4, <1>5, CardsBySide DEF next

\* What serving a PUT does to the address books.
LEMMA ServedCards ==
    ASSUME CardsOf(book), NEW op, NEW w, PutOf(op, w), Accepts(w), Served(w)
    PROVE  /\ CardsOf(book)'
           /\ book'[w.side] = (book[w.side] \ w.over) \cup {w.card}
           /\ \A t \in Side \ {w.side} : book'[t] = book[t]
           /\ \A s \in Side : Cardinality(book[s]) \in Nat
           /\ \A s \in Side : Cardinality(book'[s]) =
                 Cardinality(book[s]) + IF s = w.side /\ w.over = {} THEN 1 ELSE 0
<1> DEFINE S == book[w.side]
           T == (S \ w.over) \cup {w.card}
<1>1. w.side \in Side /\ Typed(w.card)
  BY DEF PutOf
<1>2. OneSide(S) /\ \A s \in Side : OneSide(book[s])
  BY <1>1, CardsBySide
<1>3. w.over = {} => \A c \in S : ~ SameHref(c, w.card)
  BY NobodyAt DEF Accepts
<1>4. w.over # {} => \E c \in S : w.over = {c} /\ SameHref(c, w.card)
  BY DEF Accepts, PutOf
<1>5. book' = [book EXCEPT ![w.side] = T]
  BY DEF Served
<1> HIDE DEF S
<1>6. /\ OneSide(T)
      /\ Cardinality(S) \in Nat
      /\ w.over = {} => Cardinality(T) = Cardinality(S) + 1
      /\ w.over # {} => Cardinality(T) = Cardinality(S)
  BY <1>1, <1>2, <1>3, <1>4, PutInto
<1> HIDE DEF T
<1>7. /\ CardsOf(book') /\ book'[w.side] = T
      /\ \A t \in Side \ {w.side} : book'[t] = book[t]
  <2> DEFINE next == [book EXCEPT ![w.side] = T]
  <2>1. /\ CardsOf(next) /\ next[w.side] = T
        /\ \A t \in Side \ {w.side} : next[t] = book[t]
    BY <1>1, <1>6, OneSideChanged
  <2>2. book' = next
    BY <1>5
  <2> HIDE DEF next
  <2> QED BY <2>1, <2>2
<1>8. \A s \in Side : Cardinality(book[s]) \in Nat
  BY <1>2, FS_CardinalityType DEF OneSide
<1>9. \A s \in Side : Cardinality(book'[s]) =
                 Cardinality(book[s]) + IF s = w.side /\ w.over = {} THEN 1 ELSE 0
  BY <1>1, <1>6, <1>7, <1>8 DEF S
<1> QED BY <1>7, <1>8, <1>9 DEF S, T

(***************************************************************************)
(* The steps between plans.                                                *)
(***************************************************************************)

\* Where nothing is planned there is little to keep.
LEMMA OutsideKeeps ==
    ASSUME pc' \notin OpSteps \cup {"apply"}, todo' = {}, wrote' = {}, summary' = CycleSummary,
           CardsOf(book)', CardsOf(seen)', Entries', DOMAIN rows' = Uid, edits' \in Nat,
           edits' = 0 => Reads'
    PROVE  AInv'
<1>1. Pending' = {}
  BY DEF Pending
<1>2. Planned' /\ Written'
  BY <1>1 DEF Planned, Written, Working
<1>3. Bases'
  BY <1>2 DEF Bases
<1>4. Deleted'
  BY DEF Deleted, OpSteps
<1>5. Fresh'
  BY DEF Fresh
<1>6. Accounted' /\ Reported' /\ Counting'
  BY DEF Accounted, Reported, Counting, Working
<1> QED BY <1>3, <1>4, <1>5, <1>6 DEF AInv

\* A cycle that ends, however it does.
LEMMA EndKeeps ==
    ASSUME EndCycle, CardsOf(book)', Entries \/ journal' = {}, journal' \subseteq journal,
           DOMAIN rows' = Uid, edits' \in Nat
    PROVE  AInv'
<1>1. pc' = "wait" /\ seen' = [s \in Side |-> {}] /\ pending' = {} /\ todo' = {} /\ wrote' = {} /\ summary' = CycleSummary
  BY DEF EndCycle
<1>2. CardsOf(seen)'
  <2>1. \A s \in Side : seen'[s] = {}
    BY <1>1
  <2>2. seen' = [s \in Side |-> seen'[s]]
    BY <1>1
  <2>3. CardsOf(seen')
    BY <2>1, <2>2, FS_EmptySet DEF CardsOf
  <2> QED BY <2>3
<1>3. Entries'
  BY <1>1 DEF Entries
<1>4. Reads'
  BY <1>1 DEF Reads
<1> QED BY <1>1, <1>2, <1>3, <1>4, OutsideKeeps DEF OpSteps

\* Nothing is planned yet.
LEMMA Idle ==
    ASSUME AInv, pc \notin OpSteps \cup {"apply"}
    PROVE  todo = {} /\ wrote = {} /\ summary = CycleSummary
BY DEF AInv, Bases, Planned, Written, Working

\* People make the rest irrelevant, but what they write are cards.
LEMMA EditedKeeps ==
    ASSUME AInv, edits' = edits + 1, CardsOf(book)', UNCHANGED <<store, cycle>>
    PROVE  AInv'
<1>1. UNCHANGED <<rows, journal, failures, pc, seen, pending, todo, cur, wrote, failed, report, summary>>
  BY DEF store, cycle, said
<1>2. edits' \in Nat /\ edits' # 0
  BY DEF AInv, Bases
<1>3. Bases'
  BY <1>1, <1>2 DEF AInv, Bases, CardsOf, Entries, Planned, Pending, Working, Written
<1>4. Reported'
  BY <1>1 DEF AInv, Reported, Pending, Working
<1>5. Deleted' /\ Fresh' /\ Accounted' /\ Counting'
  BY <1>2 DEF Deleted, Fresh, Accounted, Counting
<1> QED BY <1>3, <1>4, <1>5 DEF AInv

\* Somebody rewrites a card.
LEMMA UserEditAccounts ==
    ASSUME AInv, UserEdit
    PROVE  AInv'
<1>1. PICK s \in Side, content \in Content : \E c \in book[s] :
            /\ MayEdit(s, c)
            /\ book' = [book EXCEPT ![s] = (@ \ {c}) \cup {[c EXCEPT !.content = content]}]
  BY DEF UserEdit
<1>2. PICK c \in book[s] :
            /\ MayEdit(s, c)
            /\ book' = [book EXCEPT ![s] = (@ \ {c}) \cup {[c EXCEPT !.content = content]}]
  BY <1>1
<1> DEFINE d == [c EXCEPT !.content = content]
           S == book[s]
           T == (S \ {c}) \cup {d}
<1>3. CardsOf(book) /\ OneSide(S) /\ Typed(c)
  BY CardsBySide DEF AInv, Bases, OneSide
<1>4. IsContent(content)
  BY ContentAssumption
<1>5. Typed(d) /\ SameHref(c, d)
  BY <1>3, <1>4, RewrittenTyped
<1>6. book' = [book EXCEPT ![s] = T]
  BY <1>2
<1>7. c \in S
  OBVIOUS
<1> HIDE DEF S, d
<1>8. OneSide(T)
  BY <1>3, <1>5, <1>7, PutInto
<1> HIDE DEF T
<1>9. CardsOf([book EXCEPT ![s] = T])
  BY <1>3, <1>8, OneSideChanged
<1>10. CardsOf(book)'
  BY <1>6, <1>9
<1>11. edits' = edits + 1 /\ UNCHANGED <<store, cycle>>
  BY <1>2 DEF MayEdit
<1> QED BY <1>10, <1>11, EditedKeeps

\* Somebody deletes a card.
LEMMA UserDeleteAccounts ==
    ASSUME AInv, UserDelete
    PROVE  AInv'
<1>1. PICK s \in Side : \E c \in book[s] :
            MayEdit(s, c) /\ book' = [book EXCEPT ![s] = @ \ {c}]
  BY DEF UserDelete
<1>2. PICK c \in book[s] : MayEdit(s, c) /\ book' = [book EXCEPT ![s] = @ \ {c}]
  BY <1>1
<1> DEFINE T == book[s] \ {c}
<1>3. CardsOf(book) /\ OneSide(book[s])
  BY CardsBySide DEF AInv, Bases
<1>4. OneSide(T)
  BY <1>3, TakenOut
<1>5. book' = [book EXCEPT ![s] = T]
  BY <1>2
<1> HIDE DEF T
<1>6. CardsOf([book EXCEPT ![s] = T])
  BY <1>3, <1>4, OneSideChanged
<1>7. CardsOf(book)'
  BY <1>5, <1>6
<1>8. edits' = edits + 1 /\ UNCHANGED <<store, cycle>>
  BY <1>2 DEF MayEdit
<1> QED BY <1>7, <1>8, EditedKeeps

\* Time passes between cycles.
LEMMA BackoffAccounts ==
    ASSUME AInv, BackoffPasses
    PROVE  AInv'
<1>1. pc = "wait" /\ UNCHANGED <<book, rows, journal, pc, seen, pending, todo, wrote, summary, edits>>
  BY DEF BackoffPasses, cycle, said
<1>2. todo = {} /\ wrote = {} /\ summary = CycleSummary
  BY <1>1, Idle DEF OpSteps
<1> QED BY <1>1, <1>2, OutsideKeeps DEF OpSteps, AInv, Bases, CardsOf, Entries, Reads

\* A cycle begins.
LEMMA WakeAccounts ==
    ASSUME AInv, Wake
    PROVE  AInv'
<1>1. /\ pc = "wait" /\ pc' \in {"read icloud", "list fastmail"} /\ pending' = journal
      /\ UNCHANGED <<book, rows, journal, seen, todo, wrote, summary, edits>>
  BY DEF Wake, store, said
<1>2. todo = {} /\ wrote = {} /\ summary = CycleSummary
  BY <1>1, Idle DEF OpSteps
<1>3. Entries'
  BY <1>1 DEF AInv, Bases, Entries
<1> QED BY <1>1, <1>2, <1>3, OutsideKeeps DEF OpSteps, AInv, Bases, CardsOf, Reads

\* A side is listed: what was looked at last is what is there.
LEMMA LookAccounts ==
    ASSUME AInv, Look
    PROVE  AInv'
<1>1. UNCHANGED <<book, rows, journal, pending, todo, wrote, summary, edits>>
  BY DEF Look, store, said
<1>2. PICK s \in Side :
        /\ seen' = [seen EXCEPT ![s] = book[s]]
        /\ \/ pc = "list fastmail" /\ pc' = "list icloud" /\ s = "fastmail"
           \/ pc = "list icloud" /\ pc' = "replay" /\ s = "icloud"
           \/ pc = "read icloud" /\ pc' = "read fastmail" /\ s = "icloud"
           \/ pc = "read fastmail" /\ pc' = "plan" /\ s = "fastmail"
  BY LookIs
<1> DEFINE S == book[s]
<1>3. pc \notin OpSteps \cup {"apply"} /\ pc' \notin OpSteps \cup {"apply"}
  BY <1>2 DEF OpSteps
<1>4. todo = {} /\ wrote = {} /\ summary = CycleSummary
  BY <1>3, Idle
<1>5. CardsOf(book) /\ CardsOf(seen) /\ OneSide(S)
  BY <1>3, CardsBySide DEF AInv, Bases
<1>6. seen' = [seen EXCEPT ![s] = S]
  BY <1>2
<1> HIDE DEF S
<1>7. /\ CardsOf([seen EXCEPT ![s] = S])
      /\ [seen EXCEPT ![s] = S][s] = S
      /\ \A t \in Side \ {s} : [seen EXCEPT ![s] = S][t] = seen[t]
  BY <1>3, <1>5, OneSideChanged
<1>8. CardsOf(seen)' /\ seen'[s] = book[s] /\ \A t \in Side \ {s} : seen'[t] = seen[t]
  BY <1>6, <1>7 DEF S
<1>9. ASSUME edits = 0
      PROVE  Reads'
  <2>1. CASE pc' = "read fastmail" /\ s = "icloud"
    BY <1>1, <1>2, <1>8, <2>1 DEF Reads
  <2>2. CASE pc = "read fastmail" /\ pc' = "plan" /\ s = "fastmail"
    <3>1. seen["icloud"] = book["icloud"]
      BY <1>2, <1>9, <2>2 DEF AInv, Fresh, Reads
    <3>2. \A t \in Side : seen'[t] = book[t]
      BY <1>8, <2>2, <3>1, SideValues
    <3>3. book = [t \in Side |-> book[t]] /\ seen' = [t \in Side |-> seen'[t]]
      BY <1>5, <1>8 DEF CardsOf
    <3>4. seen' = book
      BY <3>2, <3>3
    <3> QED BY <1>1, <1>2, <2>2, <3>4 DEF Reads
  <2>3. CASE pc' \in {"list icloud", "replay"}
    BY <2>3 DEF Reads
  <2> QED BY <1>2, <2>1, <2>2, <2>3
<1>10. CardsOf(book)' /\ Entries' /\ DOMAIN rows' = Uid /\ edits' \in Nat
  BY <1>1 DEF AInv, Bases, CardsOf, Entries
<1> QED BY <1>1, <1>3, <1>4, <1>8, <1>9, <1>10, OutsideKeeps

\* An entry that is done with.
LEMMA DropEntryAccounts ==
    ASSUME AInv, DropEntry
    PROVE  AInv'
<1>1. /\ pc = "replay" /\ journal' \subseteq journal /\ pending' \subseteq pending
      /\ UNCHANGED <<book, rows, pc, seen, todo, wrote, summary, edits>>
  BY DEF DropEntry, NextEntry, said
<1>2. todo = {} /\ wrote = {} /\ summary = CycleSummary
  BY <1>1, Idle DEF OpSteps
<1>3. Entries'
  BY <1>1 DEF AInv, Bases, Entries
<1> QED BY <1>1, <1>2, <1>3, OutsideKeeps DEF OpSteps, AInv, Bases, CardsOf, Reads

\* A journaled card put back at a free href.
LEMMA PutBackCards ==
    ASSUME AInv, NEW j \in pending, At("fastmail", j.new) = {},
           book' = [book EXCEPT !["fastmail"] = @ \cup {j.new}]
    PROVE  CardsOf(book)'
<1> DEFINE S == book["fastmail"]
           T == (S \ {}) \cup {j.new}
<1>1. CardsOf(book) /\ OneSide(S) /\ Typed(j.new)
  BY CardsBySide, SideValues DEF AInv, Bases, Entries
<1>2. \A c \in S : ~ SameHref(c, j.new)
  BY NobodyAt
<1>3. book' = [book EXCEPT !["fastmail"] = T]
  OBVIOUS
<1> HIDE DEF S
<1>4. OneSide(T)
  BY <1>1, <1>2, PutInto
<1> HIDE DEF T
<1>5. CardsOf([book EXCEPT !["fastmail"] = T])
  BY <1>1, <1>4, OneSideChanged, SideValues
<1> QED BY <1>3, <1>5

\* The listing is kept up with what replaying puts back.
LEMMA ReplayPutAccounts ==
    ASSUME AInv, ReplayPut
    PROVE  AInv'
<1>1. PICK j \in pending :
        /\ ~ Finished(j) /\ At("fastmail", j.new) = {}
        /\ book' = [book EXCEPT !["fastmail"] = @ \cup {j.new}]
        /\ seen' = [seen EXCEPT !["fastmail"] = @ \cup {j.new}]
  BY DEF ReplayPut
<1>2. pc = "replay" /\ UNCHANGED <<rows, journal, pc, pending, todo, wrote, summary, edits>>
  BY DEF ReplayPut, store, said
<1>3. todo = {} /\ wrote = {} /\ summary = CycleSummary
  BY <1>2, Idle DEF OpSteps
<1>4. CardsOf(book)'
  BY <1>1, PutBackCards
<1> DEFINE S == seen["fastmail"]
           T == (S \ {}) \cup {j.new}
<1>5. CardsOf(seen) /\ OneSide(S) /\ Typed(j.new)
  BY CardsBySide, SideValues DEF AInv, Bases, Entries
<1>6. \A c \in S : ~ SameHref(c, j.new)
  BY <1>1 DEF Finished, Listed
<1>7. seen' = [seen EXCEPT !["fastmail"] = T]
  BY <1>1
<1> HIDE DEF S
<1>8. OneSide(T)
  BY <1>5, <1>6, PutInto
<1> HIDE DEF T
<1>9. CardsOf([seen EXCEPT !["fastmail"] = T])
  BY <1>5, <1>8, OneSideChanged, SideValues
<1>10. CardsOf(seen)'
  BY <1>7, <1>9
<1>11. Entries' /\ Reads'
  BY <1>2 DEF AInv, Bases, Entries, Reads
<1> QED BY <1>2, <1>3, <1>4, <1>10, <1>11, OutsideKeeps DEF OpSteps, AInv, Bases

\* An entry whose card the server rejects.
LEMMA ReplayRejectedAccounts ==
    ASSUME AInv, ReplayRejected
    PROVE  AInv'
<1>1. /\ pc = "replay" /\ pending' \subseteq pending
      /\ UNCHANGED <<book, rows, journal, pc, seen, todo, wrote, summary, edits>>
  BY DEF ReplayRejected, NextEntry, store, said
<1>2. todo = {} /\ wrote = {} /\ summary = CycleSummary
  BY <1>1, Idle DEF OpSteps
<1>3. Entries'
  BY <1>1 DEF AInv, Bases, Entries
<1> QED BY <1>1, <1>2, <1>3, OutsideKeeps DEF OpSteps, AInv, Bases, CardsOf, Reads

\* Replaying is over.
LEMMA ReplayedAccounts ==
    ASSUME AInv, Replayed
    PROVE  AInv'
<1>1. /\ pc = "replay" /\ pc' = "read icloud"
      /\ UNCHANGED <<book, rows, journal, pending, seen, todo, wrote, summary, edits>>
  BY DEF Replayed, store, said
<1>2. todo = {} /\ wrote = {} /\ summary = CycleSummary
  BY <1>1, Idle DEF OpSteps
<1> QED BY <1>1, <1>2, OutsideKeeps DEF OpSteps, AInv, Bases, CardsOf, Entries, Reads

\* A cycle-fatal error while replaying.
LEMMA ReplayAbortedAccounts ==
    ASSUME AInv, ReplayAborted
    PROVE  AInv'
<1>1. EndCycle /\ UNCHANGED <<rows, journal, edits>>
  BY DEF ReplayAborted, CutOff, store
<1>2. CardsOf(book)'
  <2>1. PICK j \in pending :
            \/ UNCHANGED book
            \/ /\ At("fastmail", j.new) = {}
               /\ book' = [book EXCEPT !["fastmail"] = @ \cup {j.new}]
    BY DEF ReplayAborted
  <2>2. CASE UNCHANGED book
    BY <2>2 DEF AInv, Bases, CardsOf
  <2> QED BY <2>1, <2>2, PutBackCards
<1> QED BY <1>1, <1>2, EndKeeps DEF AInv, Bases

\* The process stops.
LEMMA CrashAccounts ==
    ASSUME AInv, Crash
    PROVE  AInv'
<1>1. EndCycle /\ UNCHANGED <<book, rows, journal, edits>>
  BY DEF Crash, CutOff, store
<1> QED BY <1>1, EndKeeps DEF AInv, Bases, CardsOf

\* A cycle is over.
LEMMA FinishAccounts ==
    ASSUME AInv, Finish
    PROVE  AInv'
<1>1. EndCycle /\ UNCHANGED <<book, rows, journal, edits>>
  BY DEF Finish
<1> QED BY <1>1, EndKeeps DEF AInv, Bases, CardsOf

(***************************************************************************)
(* Planning.                                                               *)
(***************************************************************************)

\* What the report of a plan says, of what is used here.
LEMMA ReportIs ==
    ASSUME NEW ops, NEW paired, NEW known, NEW twice
    PROVE  LET r == BaselineReport(ops, paired, known, twice) IN
           /\ r.in_sync = Uids(ops, "Adopt") /\ r.skipped = paired.skips
           /\ r.likely_duplicates = paired.likely /\ r.held = twice
BY DEF BaselineReport

\* The counts a cycle begins with.
LEMMA SummaryIs ==
    /\ IsSummary(CycleSummary) /\ CycleSummary.state_errors = 0
    /\ \A s \in Side : CycleSummary.toward[s].added = 0
BY DEF CycleSummary, DirectionCounts, IsSummary

\* A card that is held has a failure, also once the plan's are recorded.
LEMMA HeldHasFailure ==
    ASSUME NEW s, NEW c, NEW h \in HeldCards(seen), h[1] = s, SameHref(h[2], c), NEW twins,
           failures' = Without(twins) \cup {Failure(k[2].uid, k[1], k[2]) : k \in twins}
    PROVE  \E f \in failures' : f.side = s /\ SameHref(f.card, c)
<1>1. PICK f \in failures : f.side = s /\ SameHref(f.card, c)
  <2>1. PICK f \in failures : h = <<f.side, f.card>>
    BY DEF HeldCards
  <2> QED BY <2>1
<1>2. CASE f \in Without(twins)
  BY <1>1, <1>2
<1>3. CASE f \notin Without(twins)
  <2>1. PICK k \in twins : k[1] = f.side /\ SameHref(k[2], f.card)
    BY <1>3 DEF Without
  <2> DEFINE g == Failure(k[2].uid, k[1], k[2])
  <2>2. g.side = k[1] /\ g.card = k[2]
    BY DEF Failure
  <2>3. g \in failures'
    OBVIOUS
  <2> HIDE DEF g
  <2> QED BY <1>1, <2>1, <2>2, <2>3, HrefsEqual
<1> QED BY <1>2, <1>3

\* A plan settles each card it sees, or gives it an operation.
LEMMA PlanAccounts ==
    ASSUME AInv, Plan
    PROVE  AInv'
<1>1. /\ pc = "plan" /\ pc' = "apply" /\ todo' = CycleOps(seen)
      /\ UNCHANGED <<book, rows, journal, seen, pending, cur, wrote, summary, edits>>
  BY DEF Plan
<1>2. todo = {} /\ wrote = {} /\ summary = CycleSummary
  BY <1>1, Idle DEF OpSteps
<1>3. CardsOf(seen) /\ CardsOf(book) /\ edits \in Nat
  BY DEF AInv, Bases
<1>4. /\ \A op \in todo' : OpOwn(op) /\ OpCounts(op)
      /\ \A op \in todo' : \A k \in op.cards : k[2] \in seen[k[1]]
      /\ \A q, r \in todo' : q # r => About(q) \cap About(r) = {}
      /\ \A s \in Side : \A c \in Unsynced(seen)[s] :
            \/ \E op \in todo' : <<s, c>> \in op.cards
            \/ c \in {skip.card : skip \in PairedIn(seen).skips[s]}
            \/ c \in PairedIn(seen).likely[s]
  BY <1>1, <1>3, PlannedOwn
<1>5. /\ report'.in_sync = Uids(todo', "Adopt") /\ report'.skipped = PairedIn(seen).skips
      /\ report'.likely_duplicates = PairedIn(seen).likely /\ report'.held = Duplicated(seen)
  <2>1. report' = BaselineReport(CycleOps(seen), PairedIn(seen),
                    {u \in Uid : rows[u] # None} \cup {c.uid : c \in Free(seen, "icloud")},
                    Duplicated(seen))
    BY DEF Plan
  <2> QED BY <1>1, <2>1, ReportIs
<1>6. Pending' = todo'
  BY <1>1 DEF Pending, OpSteps
<1>7. Planned' /\ Written'
  BY <1>1, <1>2, <1>4, <1>6 DEF Planned, Written, Working, OpSteps
<1>8. Bases'
  BY <1>1, <1>7 DEF AInv, Bases, CardsOf, Entries
<1>9. Deleted'
  BY <1>1 DEF Deleted
<1>10. edits = 0 => seen = book
  BY <1>1 DEF AInv, Fresh, Reads
<1>11. Fresh'
  BY <1>1, <1>4, <1>10 DEF Fresh, Reads
<1>12. Reported'
  <2>1. ASSUME NEW s \in Side, NEW skip \in report'.skipped[s], Named(skip.card)
        PROVE  skip.candidate_count # 1
    <3>1. skip \in Paired(Unsynced(seen), Known(seen)).skips[s]
      BY <1>5 DEF PairedIn
    <3> QED BY <1>3, <2>1, <3>1, UnsyncedTyped, SkipsAreNotCertain
  <2>2. \A op \in Pending' : op.kind = "Adopt" => op.uid \in report'.in_sync
    BY <1>5, <1>6 DEF Uids
  <2>3. IsSummary(summary')
    BY <1>1, <1>2, SummaryIs
  <2> QED BY <2>1, <2>2, <2>3 DEF Reported
<1>13. ASSUME edits = 0, NEW s \in Side, NEW c \in book[s]
       PROVE  Told(s, c)' \/ \E op \in todo' : <<s, c>> \in op.cards
  <2>1. c \in seen[s]
    BY <1>10, <1>13
  <2>2. CASE \E h \in HeldCards(seen) : h[1] = s /\ SameHref(h[2], c)
    <3>1. \E twins : failures' = Without(twins) \cup {Failure(k[2].uid, k[1], k[2]) : k \in twins}
      BY DEF Plan
    <3>2. \E f \in failures' : f.side = s /\ SameHref(f.card, c)
      BY <2>2, <3>1, HeldHasFailure
    <3> QED BY <3>2 DEF Told
  <2>3. CASE ~ \E h \in HeldCards(seen) : h[1] = s /\ SameHref(h[2], c)
    <3>1. c \in Free(seen, s)
      BY <2>1, <2>3 DEF Free
    <3>2. CASE rows[c.uid] # None
      BY <1>1, <3>2 DEF Told
    <3>3. CASE c.uid \in Duplicated(seen)
      BY <1>5, <3>3 DEF Told
    <3>4. CASE rows[c.uid] = None /\ c.uid \notin Duplicated(seen)
      <4>1. c \in Unsynced(seen)[s]
        BY <3>1, <3>4 DEF Unsynced
      <4> QED BY <1>4, <1>5, <4>1 DEF Told
    <3> QED BY <3>2, <3>3, <3>4
  <2> QED BY <2>2, <2>3
<1>14. Accounted'
  BY <1>1, <1>13 DEF Accounted
<1>15. ASSUME edits = 0, NEW s \in Side
       PROVE  (Cardinality(book[s]) + Lacking(s) = Cardinality(seen[s]) + summary.toward[s].added + Extra(s))'
  <2>1. Lacking(s)' = 0 /\ Extra(s)' = 0
    BY <1>1 DEF Lacking, Extra
  <2>2. Cardinality(seen'[s]) = Cardinality(book'[s]) /\ Cardinality(book'[s]) \in Nat
    BY <1>1, <1>3, <1>10, <1>15, FS_CardinalityType DEF CardsOf
  <2>3. summary'.toward[s].added = 0
    BY <1>1, <1>2, SummaryIs
  <2> QED BY <2>1, <2>2, <2>3
<1>16. Counting'
  BY <1>1, <1>15 DEF Counting
<1> QED BY <1>8, <1>9, <1>11, <1>12, <1>14, <1>16 DEF AInv

(***************************************************************************)
(* The steps of an operation.                                              *)
(***************************************************************************)

\* What the current operation is.
LEMMA CurOwn ==
    ASSUME AInv, pc \in OpSteps
    PROVE  /\ cur \in Pending /\ Pending = todo \cup {cur} /\ cur \notin todo
           /\ OpOwn(cur) /\ OpCounts(cur)
           /\ \A op \in todo : OpOwn(op) /\ About(op) \cap About(cur) = {}
<1>1. cur \in Pending /\ Pending = todo \cup {cur}
  BY CurIsPending
<1>2. cur \notin todo
  BY DEF AInv, Bases, Planned
<1> QED BY <1>1, <1>2 DEF AInv, Bases, Planned

\* A step leaves the plan as it is.
LEMMA WorkGoesOn ==
    ASSUME AInv, pc \in OpSteps, pc' \in OpSteps, UNCHANGED <<todo, cur, report, summary>>
    PROVE  Planned' /\ Reported' /\ Pending' = Pending
<1>1. Pending' = Pending
  BY DEF Pending
<1>2. Planned'
  BY <1>1 DEF AInv, Bases, Planned, Working
<1>3. Reported'
  BY <1>1 DEF AInv, Reported, Working
<1> QED BY <1>1, <1>2, <1>3

\* A step loses no card: what it writes is in hand.
LEMMA StillAccounted ==
    ASSUME AInv, pc \in OpSteps, pc' \in OpSteps,
           UNCHANGED <<rows, report, summary, failures, todo, cur, edits>>, wrote \subseteq wrote',
           \A s \in Side : \A c \in book'[s] : c \in book[s] \/ <<s, c>> \in wrote'
    PROVE  Accounted'
<1> SUFFICES ASSUME edits = 0, NEW s \in Side, NEW c \in book'[s]
             PROVE  (Told(s, c) \/ InHand(s, c) \/ \E op \in todo : <<s, c>> \in op.cards)'
  BY DEF Accounted
<1>1. CASE c \in book[s]
  <2>1. Told(s, c) \/ InHand(s, c) \/ \E op \in todo : <<s, c>> \in op.cards
    BY <1>1 DEF AInv, Accounted, Working
  <2>2. Told(s, c) => Told(s, c)'
    BY DEF Told
  <2>3. InHand(s, c) => InHand(s, c)'
    BY DEF InHand
  <2> QED BY <2>1, <2>2, <2>3
<1>2. CASE <<s, c>> \in wrote'
  BY <1>2 DEF InHand
<1> QED BY <1>1, <1>2

\* Until the card is deleted nothing is lacking, and nothing is extra before
\* the last PUT.
LEMMA EarlyStep ==
    ASSUME NEW op, NEW k \in 1 .. 4, pc' = StepOf(op, k), cur' = op
    PROVE  /\ pc' \in OpSteps
           /\ pc' \in {"then", "save"} => op.delete = {}
           /\ \A s \in Side : Lacking(s)' = 0 /\ Extra(s)' = 0
<1>1. LET s == StepOf(op, k) IN
      /\ s \in OpSteps
      /\ s \in {"then", "save"} => op.delete = {}
      /\ s = "save" => op.then = {}
  BY StepFacts
<1>2. \A s \in Side : Lacking(s)' = 0 /\ Extra(s)' = 0
  BY <1>1 DEF Lacking, Extra
<1> QED BY <1>1, <1>2

\* Where the steps before a DELETE lead.
LEMMA NextStep ==
    ASSUME Continue, pc \in {"archive", "first", "journal"}
    PROVE  \E k \in 1 .. 4 : pc' = StepOf(cur, k)
<1>1. CASE pc = "archive"
  BY <1>1, ContinueMeans, OrderIs
<1>2. CASE pc = "first"
  BY <1>2, ContinueMeans, OrderIs
<1>3. CASE pc = "journal"
  BY <1>3, ContinueMeans, OrderIs
<1> QED BY <1>1, <1>2, <1>3

\* An operation takes its cards in hand.
LEMMA StartOpAccounts ==
    ASSUME AInv, StartOp
    PROVE  AInv'
<1>1. PICK op \in todo : todo' = todo \ {op} /\ cur' = op /\ pc' = StepOf(op, 1)
  BY DEF StartOp
<1>2. pc = "apply" /\ UNCHANGED <<book, rows, journal, failures, seen, pending, wrote, failed, report, summary, edits>>
  BY DEF StartOp, store, said
<1>3. /\ pc' \in OpSteps
      /\ pc' \in {"then", "save"} => op.delete = {}
      /\ \A s \in Side : Lacking(s)' = 0 /\ Extra(s)' = 0
  BY <1>1, EarlyStep
<1>4. Pending = todo /\ Pending' = todo
  BY <1>1, <1>2, <1>3 DEF Pending, OpSteps
<1>5. Working /\ Working'
  BY <1>2, <1>3 DEF Working
<1>6. Planned'
  BY <1>1, <1>3, <1>4, <1>5 DEF AInv, Bases, Planned
<1>7. wrote = {}
  BY <1>2 DEF AInv, Bases, Written, OpSteps
<1>8. Bases'
  BY <1>2, <1>6, <1>7 DEF AInv, Bases, CardsOf, Entries, Written
<1>9. OpOwn(op)
  BY <1>4 DEF AInv, Bases, Planned
<1>10. Deleted'
  <2>1. ASSUME edits = 0, NEW c \in op.delete
        PROVE  c \in book["fastmail"]
    <3>1. <<"fastmail", c>> \in op.cards
      BY <1>9 DEF OpOwn
    <3>2. \A k \in op.cards : k[2] \in book[k[1]]
      BY <2>1 DEF AInv, Fresh
    <3>3. <<"fastmail", c>>[2] \in book[<<"fastmail", c>>[1]]
      BY <3>1, <3>2
    <3> QED BY <3>3
  <2> QED BY <1>1, <1>2, <1>3, <2>1 DEF Deleted
<1>11. Fresh'
  BY <1>1, <1>2, <1>3 DEF AInv, Fresh, Reads, OpSteps
<1>12. Reported'
  BY <1>2, <1>4, <1>5 DEF AInv, Reported
<1>13. Accounted'
  <2> SUFFICES ASSUME edits = 0, NEW s \in Side, NEW c \in book[s]
               PROVE  (Told(s, c) \/ InHand(s, c) \/ \E q \in todo : <<s, c>> \in q.cards)'
    BY <1>2 DEF Accounted
  <2>1. Told(s, c) \/ \E q \in todo : <<s, c>> \in q.cards
    BY <1>2, <1>5 DEF AInv, Accounted, InHand, OpSteps
  <2>2. Told(s, c) => Told(s, c)'
    BY <1>2 DEF Told
  <2>3. ASSUME NEW q \in todo, <<s, c>> \in q.cards, q \notin todo'
        PROVE  InHand(s, c)'
    <3>1. q = cur'
      BY <1>1, <2>3
    <3> QED BY <1>3, <2>3, <3>1, HrefsEqual DEF InHand
  <2> QED BY <2>1, <2>2, <2>3
<1>14. \A s \in Side : Lacking(s) = 0 /\ Extra(s) = 0
  BY <1>2 DEF Lacking, Extra
<1>15. Counting'
  BY <1>2, <1>3, <1>5, <1>14 DEF AInv, Counting
<1> QED BY <1>8, <1>10, <1>11, <1>12, <1>13, <1>15 DEF AInv

\* A step before the DELETE that writes no card.
LEMMA QuietStep ==
    ASSUME AInv, pc \in {"archive", "journal"}, Continue,
           UNCHANGED <<book, rows, failures, seen, pending, todo, cur, wrote, failed, report, summary, edits>>,
           Entries'
    PROVE  AInv'
<1>1. PICK k \in 1 .. 4 : pc' = StepOf(cur, k)
  BY NextStep
<1>2. /\ pc' \in OpSteps
      /\ pc' \in {"then", "save"} => cur.delete = {}
      /\ \A s \in Side : Lacking(s)' = 0 /\ Extra(s)' = 0
  BY <1>1, EarlyStep
<1>3. pc \in OpSteps
  BY DEF OpSteps
<1>4. Planned' /\ Reported'
  BY <1>2, <1>3, WorkGoesOn
<1>5. Accounted'
  BY <1>2, <1>3, StillAccounted
<1>6. Bases'
  BY <1>2, <1>3, <1>4 DEF AInv, Bases, CardsOf, Written
<1>7. Deleted'
  BY <1>2 DEF AInv, Deleted
<1>8. Fresh'
  BY <1>2 DEF AInv, Fresh, Reads, OpSteps
<1>9. \A s \in Side : Lacking(s) = 0 /\ Extra(s) = 0
  BY DEF Lacking, Extra
<1>10. Counting'
  BY <1>2, <1>3, <1>9 DEF AInv, Counting, Working
<1> QED BY <1>4, <1>5, <1>6, <1>7, <1>8, <1>10 DEF AInv

\* The two versions go to the history.
LEMMA ArchiveAccounts ==
    ASSUME AInv, Archive
    PROVE  AInv'
<1>1. UNCHANGED <<book, rows, failures, journal, seen, pending, todo, cur, wrote, failed, report, summary, edits>>
  BY DEF Archive, said
<1>2. Entries'
  BY <1>1 DEF AInv, Bases, Entries
<1> QED BY <1>1, <1>2, QuietStep DEF Archive

\* The entry keeps the card that replaces the deleted one.
LEMMA JournalAccounts ==
    ASSUME AInv, Journal
    PROVE  AInv'
<1>1. /\ UNCHANGED <<book, rows, failures, seen, pending, todo, cur, wrote, failed, report, summary, edits>>
      /\ journal' = {j \in journal : j.uid # cur.uid} \cup cur.journal
  BY DEF Journal, said
<1>2. pc \in OpSteps
  BY DEF Journal, OpSteps
<1>3. \A j \in cur.journal : Typed(j.new)
  BY <1>2, CurOwn DEF OpOwn
<1>4. Entries'
  BY <1>1, <1>3 DEF AInv, Bases, Entries
<1> QED BY <1>1, <1>4, QuietStep DEF Journal

\* What another operation owns, a step of this one does not touch.
LEMMA OthersUntouched ==
    ASSUME AInv, pc \in OpSteps, edits = 0,
           \A s \in Side : \A c \in book[s] : c \in book'[s] \/ c.uid \in About(cur)
    PROVE  \A op \in todo : \A k \in op.cards : k[2] \in book'[k[1]]
<1> SUFFICES ASSUME NEW op \in todo, NEW k \in op.cards
             PROVE  k[2] \in book'[k[1]]
  OBVIOUS
<1>1. k[2] \in book[k[1]]
  BY DEF AInv, Fresh
<1>2. k[1] \in Side /\ k[2].uid \in About(op) /\ About(op) \cap About(cur) = {}
  BY CurOwn DEF OpOwn, CardOf, About
<1> QED BY <1>1, <1>2

\* A PUT of the current operation.
LEMMA PutStep ==
    ASSUME AInv, pc \in {"first", "then"}, NEW w \in cur[pc], Accepts(w), Served(w)
    PROVE  /\ PutOf(cur, w)
           /\ \A s \in Side : \A c \in book'[s] : c \in book[s] \/ (s = w.side /\ c = w.card)
           /\ \A s \in Side : \A c \in book[s] : c \in book'[s] \/ c.uid = cur.uid
           /\ cur.uid \in About(cur)
<1>1. pc \in OpSteps
  BY DEF OpSteps
<1>2. OpOwn(cur)
  BY <1>1, CurOwn
<1>3. w \in cur.first \cup cur.then
  OBVIOUS
<1>4. PutOf(cur, w) /\ cur.uid \in About(cur)
  BY <1>2, <1>3 DEF OpOwn
<1>5. CardsOf(book)
  BY DEF AInv, Bases
<1>6. /\ book'[w.side] = (book[w.side] \ w.over) \cup {w.card}
      /\ \A t \in Side \ {w.side} : book'[t] = book[t]
  BY <1>4, <1>5, ServedCards
<1>7. \A c \in w.over : c.uid = cur.uid
  BY <1>4 DEF PutOf, SameHref
<1> QED BY <1>4, <1>6, <1>7

\* A card is written: it is in hand, and counted once the row is stored.
LEMMA RunPutAccounts ==
    ASSUME AInv, RunPut
    PROVE  AInv'
<1>1. PICK w \in cur[pc] : Accepts(w) /\ Served(w) /\ wrote' = wrote \cup {<<w.side, w.card>>}
  BY DEF RunPut
<1>2. /\ pc \in {"first", "then"} /\ pc \in OpSteps /\ Continue
      /\ UNCHANGED <<rows, journal, failures, seen, pending, todo, cur, failed, report, summary, edits>>
  BY DEF RunPut, store, said, OpSteps
<1>3. OpOwn(cur) /\ OpCounts(cur)
  BY <1>2, CurOwn
<1>4. /\ PutOf(cur, w)
      /\ \A s \in Side : \A c \in book'[s] : c \in book[s] \/ (s = w.side /\ c = w.card)
      /\ \A s \in Side : \A c \in book[s] : c \in book'[s] \/ c.uid = cur.uid
      /\ cur.uid \in About(cur)
  BY <1>1, <1>2, PutStep
<1>5. CardsOf(book) /\ w.side \in Side /\ w.card.uid = cur.uid
  BY <1>4 DEF AInv, Bases, PutOf
<1>6. /\ CardsOf(book)'
      /\ \A s \in Side : Cardinality(book[s]) \in Nat
      /\ \A s \in Side : Cardinality(book'[s]) =
            Cardinality(book[s]) + IF s = w.side /\ w.over = {} THEN 1 ELSE 0
  BY <1>1, <1>4, <1>5, ServedCards
<1>7. pc = "then" => pc' = "save"
  <2> SUFFICES ASSUME pc = "then" PROVE pc' = "save"
    OBVIOUS
  <2>1. pc' = StepOf(cur, 6)
    BY <1>2, ContinueMeans, OrderIs
  <2> QED BY <2>1, StepFacts
<1>8. pc = "first" => /\ pc' \in OpSteps /\ w.over # {}
                      /\ pc' \in {"then", "save"} => cur.delete = {}
                      /\ \A s \in Side : Lacking(s)' = 0 /\ Extra(s)' = 0
  <2> SUFFICES ASSUME pc = "first"
               PROVE  /\ pc' \in OpSteps /\ w.over # {}
                      /\ pc' \in {"then", "save"} => cur.delete = {}
                      /\ \A s \in Side : Lacking(s)' = 0 /\ Extra(s)' = 0
    OBVIOUS
  <2>1. PICK k \in 1 .. 4 : pc' = StepOf(cur, k)
    BY <1>2, NextStep
  <2>2. w.over # {}
    BY <1>1, <1>3 DEF OpOwn
  <2> QED BY <1>2, <2>1, <2>2, EarlyStep
<1>9. pc' \in OpSteps
  BY <1>2, <1>7, <1>8 DEF OpSteps
<1>10. Planned' /\ Reported'
  BY <1>2, <1>9, WorkGoesOn
<1>11. Accounted'
  BY <1>1, <1>2, <1>4, <1>9, StillAccounted
<1>12. Written'
  BY <1>1, <1>2, <1>5, <1>9 DEF AInv, Bases, Written
<1>13. Bases'
  BY <1>2, <1>6, <1>10, <1>12 DEF AInv, Bases, CardsOf, Entries
<1>14. Deleted'
  <2>1. \A c \in cur.delete : c.uid # cur.uid
    BY <1>3 DEF OpOwn
  <2>2. CASE pc = "first"
    <3>1. edits = 0 => cur.delete \subseteq book["fastmail"]
      BY <2>2 DEF AInv, Deleted
    <3>2. edits = 0 => cur.delete \subseteq book'["fastmail"]
      BY <1>4, <2>1, <3>1, SideValues
    <3> QED BY <1>2, <1>8, <2>2, <3>2 DEF Deleted
  <2>3. CASE pc = "then"
    <3>1. ASSUME edits = 0, NEW c \in cur.delete
          PROVE  (At("fastmail", c) = {})'
      <4>1. \A d \in book["fastmail"] : ~ SameHref(d, c)
        BY <2>3, <3>1, NobodyAt DEF AInv, Deleted
      <4>2. ~ SameHref(w.card, c)
        BY <1>5, <2>1, HrefsEqual
      <4>3. \A d \in book'["fastmail"] : ~ SameHref(d, c)
        BY <1>4, <4>1, <4>2, SideValues
      <4> QED BY <4>3, NobodyAtNext
    <3> QED BY <1>2, <1>7, <2>3, <3>1 DEF Deleted
  <2> QED BY <1>2, <2>2, <2>3
<1>15. Fresh'
  <2>1. edits = 0 => \A op \in todo : \A k \in op.cards : k[2] \in book'[k[1]]
    BY <1>2, <1>4, OthersUntouched
  <2> QED BY <1>2, <1>9, <2>1 DEF Fresh, Reads, OpSteps
<1>16. ASSUME edits = 0, failed = {}, NEW s \in Side
       PROVE  (Cardinality(book[s]) + Lacking(s) = Cardinality(seen[s]) + summary.toward[s].added + Extra(s))'
  <2>1. Cardinality(book[s]) + Lacking(s) = Cardinality(seen[s]) + summary.toward[s].added + Extra(s)
    BY <1>2, <1>16 DEF AInv, Counting, Working
  <2>2. /\ Cardinality(book[s]) \in Nat /\ summary.toward[s].added \in Nat
        /\ Cardinality(seen[s]) \in Nat
    BY <1>2, <1>6, FS_CardinalityType DEF AInv, Reported, Working, Bases, CardsOf, IsSummary
  <2>3. Cardinality(book'[s]) = Cardinality(book[s]) + IF s = w.side /\ w.over = {} THEN 1 ELSE 0
    BY <1>6
  <2>4. CASE pc = "first"
    <3>1. Lacking(s) = 0 /\ Extra(s) = 0 /\ Lacking(s)' = 0 /\ Extra(s)' = 0 /\ w.over # {}
      BY <1>8, <2>4 DEF Lacking, Extra
    <3> QED BY <1>2, <2>1, <2>2, <2>3, <3>1
  <2>5. CASE pc = "then"
    <3>1. Lacking(s)' = 0 /\ Extra(s) = 0
      BY <1>7, <2>5 DEF Lacking, Extra
    <3>2. Lacking(s) = IF cur.delete # {} /\ s = "fastmail" THEN 1 ELSE 0
      BY <2>5 DEF Lacking
    <3>3. Extra(s)' = IF cur.kind \in {"Create", "CopyGroup"} /\ (\E v \in cur.then : v.side = s) THEN 1 ELSE 0
      BY <1>2, <1>7, <2>5 DEF Extra
    <3>4. w \in cur.then
      BY <2>5
    <3>5. (IF s = w.side /\ w.over = {} THEN 1 ELSE 0) = Lacking(s) + Extra(s)'
      <4>1. CASE cur.kind = "Recreate"
        <5>1. cur.delete # {} /\ w.side = "fastmail" /\ w.over = {}
          BY <1>3, <3>4, <4>1 DEF OpCounts
        <5> QED BY <3>2, <3>3, <4>1, <5>1
      <4>2. CASE cur.kind = "Conflict"
        <5>1. cur.delete = {} /\ w.over # {}
          BY <1>3, <3>4, <4>2 DEF OpCounts
        <5> QED BY <3>2, <3>3, <4>2, <5>1
      <4>3. CASE cur.kind \in {"Create", "CopyGroup"}
        <5>1. cur.delete = {} /\ w.over = {} /\ cur.then = {w}
          BY <1>3, <3>4, <4>3 DEF OpCounts
        <5>2. (\E v \in cur.then : v.side = s) <=> s = w.side
          BY <5>1
        <5> QED BY <3>2, <3>3, <4>3, <5>1, <5>2
      <4>4. CASE cur.kind = "Adopt"
        BY <1>3, <3>4, <4>4 DEF OpCounts
      <4> QED BY <1>3, <4>1, <4>2, <4>3, <4>4 DEF OpCounts
    <3>6. Lacking(s) \in Nat /\ Extra(s)' \in Nat
      BY <3>2, <3>3
    <3> QED BY <1>2, <2>1, <2>2, <2>3, <3>1, <3>5, <3>6
  <2> QED BY <1>2, <2>4, <2>5
<1>17. Counting'
  BY <1>2, <1>16 DEF Counting
<1> QED BY <1>10, <1>11, <1>13, <1>14, <1>15, <1>17 DEF AInv

\* A card is deleted, and its href is free.
LEMMA RunDeleteAccounts ==
    ASSUME AInv, RunDelete
    PROVE  AInv'
<1>1. /\ pc = "delete" /\ pc \in OpSteps /\ Continue
      /\ \A c \in cur.delete : c \in book["fastmail"] \/ At("fastmail", c) = {}
      /\ book' = [book EXCEPT !["fastmail"] = @ \ cur.delete]
      /\ UNCHANGED <<rows, journal, failures, seen, pending, todo, cur, wrote, failed, report, summary, edits>>
  BY DEF RunDelete, store, said, OpSteps
<1>2. OpOwn(cur) /\ OpCounts(cur)
  BY <1>1, CurOwn
<1>3. CardsOf(book)
  BY DEF AInv, Bases
<1> DEFINE S == book["fastmail"]
           T == S \ cur.delete
<1>4. OneSide(S)
  BY <1>3, CardsBySide, SideValues
<1>5. /\ OneSide(T) /\ Cardinality(S) \in Nat
      /\ cur.delete = {} => Cardinality(T) = Cardinality(S)
      /\ cur.delete # {} /\ cur.delete \subseteq S => Cardinality(T) + 1 = Cardinality(S)
  <2>1. CASE cur.delete = {}
    BY <1>4, <2>1, FS_CardinalityType DEF OneSide
  <2>2. CASE cur.delete # {}
    <3>1. PICK c : cur.delete = {c}
      BY <1>2, <2>2 DEF OpOwn
    <3> QED BY <1>4, <2>2, <3>1, TakenOut
  <2> QED BY <2>1, <2>2
<1>6. book' = [book EXCEPT !["fastmail"] = T]
  BY <1>1
<1> HIDE DEF T
<1>7. CardsOf(book)' /\ book'["fastmail"] = T /\ book'["icloud"] = book["icloud"]
  <2> DEFINE next == [book EXCEPT !["fastmail"] = T]
  <2>1. CardsOf(next) /\ next["fastmail"] = T /\ \A t \in Side \ {"fastmail"} : next[t] = book[t]
    BY <1>3, <1>5, SideValues, OneSideChanged
  <2>2. book' = next
    BY <1>6
  <2> HIDE DEF next
  <2> QED BY <2>1, <2>2, SideValues
<1>8. /\ pc' \in {"then", "save"}
      /\ pc' = "save" => cur.then = {}
  <2>1. pc' = StepOf(cur, 5)
    BY <1>1, ContinueMeans, OrderIs
  <2> QED BY <2>1, StepFacts DEF OpSteps
<1>9. pc' \in OpSteps
  BY <1>8 DEF OpSteps
<1>10. Planned' /\ Reported'
  BY <1>1, <1>9, WorkGoesOn
<1>11. \A s \in Side : \A c \in book'[s] : c \in book[s]
  BY <1>7, SideValues DEF T
<1>12. Accounted'
  BY <1>1, <1>9, <1>11, StillAccounted
<1>13. Bases'
  BY <1>1, <1>7, <1>9, <1>10 DEF AInv, Bases, CardsOf, Entries, Written
<1>14. Deleted'
  <2>1. ASSUME NEW c \in cur.delete
        PROVE  (At("fastmail", c) = {})'
    <3>1. cur.delete = {c}
      BY <1>2 DEF OpOwn
    <3>2. \A d \in S \ {c} : ~ SameHref(d, c)
      BY <1>1, <1>4, NobodyAt DEF OneSide
    <3>3. \A d \in book'["fastmail"] : ~ SameHref(d, c)
      BY <1>7, <3>1, <3>2 DEF T
    <3> QED BY <3>3, NobodyAtNext
  <2> QED BY <1>1, <1>8, <2>1 DEF Deleted
<1>15. Fresh'
  <2>1. \A c \in cur.delete : c.uid \in About(cur)
    <3> TAKE c \in cur.delete
    <3>1. <<"fastmail", c>> \in cur.cards
      BY <1>2 DEF OpOwn
    <3>2. <<"fastmail", c>>[2].uid \in About(cur)
      BY <3>1 DEF About
    <3> QED BY <3>2
  <2>2. \A s \in Side : \A c \in book[s] : c \in book'[s] \/ c.uid \in About(cur)
    BY <1>7, <2>1, SideValues DEF T
  <2>3. edits = 0 => \A op \in todo : \A k \in op.cards : k[2] \in book'[k[1]]
    BY <1>1, <2>2, OthersUntouched
  <2> QED BY <1>1, <1>8, <2>3 DEF Fresh, Reads
<1>16. ASSUME edits = 0, failed = {}, NEW s \in Side
       PROVE  (Cardinality(book[s]) + Lacking(s) = Cardinality(seen[s]) + summary.toward[s].added + Extra(s))'
  <2>1. Cardinality(book[s]) + Lacking(s) = Cardinality(seen[s]) + summary.toward[s].added + Extra(s)
    BY <1>1, <1>16 DEF AInv, Counting, Working
  <2>2. cur.delete \subseteq S
    BY <1>1, <1>16 DEF AInv, Deleted
  <2>3. Lacking(s) = 0 /\ Extra(s) = 0
    BY <1>1 DEF Lacking, Extra
  <2>4. Extra(s)' = 0
    BY <1>1, <1>8 DEF Extra
  <2>5. cur.delete # {} => pc' = "then"
    BY <1>2, <1>8 DEF OpCounts
  <2>6. Lacking(s)' = IF cur.delete # {} /\ s = "fastmail" THEN 1 ELSE 0
    BY <1>1, <2>5 DEF Lacking
  <2>7. Cardinality(book[s]) \in Nat /\ Cardinality(T) \in Nat
    BY <1>3, <1>5, FS_CardinalityType DEF CardsOf, OneSide
  <2>8. Cardinality(book'[s]) + Lacking(s)' = Cardinality(book[s])
    <3>1. CASE s = "fastmail"
      BY <1>5, <1>7, <2>2, <2>6, <2>7, <3>1
    <3>2. CASE s = "icloud"
      BY <1>7, <2>6, <2>7, <3>2
    <3> QED BY <3>1, <3>2, SideValues
  <2> QED BY <1>1, <2>1, <2>3, <2>4, <2>7, <2>8
<1>17. Counting'
  BY <1>1, <1>16 DEF Counting
<1> QED BY <1>12, <1>10, <1>13, <1>14, <1>15, <1>17 DEF AInv

(***************************************************************************)
(* How an operation ends.                                                  *)
(***************************************************************************)

\* One counter goes up.
LEMMA CountedIs ==
    ASSUME NEW sum, IsSummary(sum), NEW s \in Side, NEW counter \in {"added", "updated", "conflicts", "errors"}
    PROVE  LET next == Counted(sum, s, counter) IN
           /\ IsSummary(next) /\ next.state_errors = sum.state_errors
           /\ \A t \in Side : next.toward[t].added =
                 sum.toward[t].added + IF t = s /\ counter = "added" THEN 1 ELSE 0
<1> DEFINE dir == sum.toward[s]
           dir2 == [dir EXCEPT ![counter] = @ + 1]
           tw == [sum.toward EXCEPT ![s] = dir2]
           next == [sum EXCEPT !.toward = tw]
<1>1. Counted(sum, s, counter) = next
  BY DEF Counted, IsSummary
<1>2. dir \in [added : Nat, updated : Nat, conflicts : Nat, errors : Nat]
  BY DEF IsSummary
<1> HIDE DEF dir
<1>3. /\ dir2 \in [added : Nat, updated : Nat, conflicts : Nat, errors : Nat]
      /\ dir2.added = dir.added + IF counter = "added" THEN 1 ELSE 0
  BY <1>2
<1> HIDE DEF dir2
<1>4. /\ tw \in [Side -> [added : Nat, updated : Nat, conflicts : Nat, errors : Nat]]
      /\ tw[s] = dir2 /\ \A t \in Side \ {s} : tw[t] = sum.toward[t]
  BY <1>3 DEF IsSummary
<1>5. /\ \A t \in Side : sum.toward[t].added \in Nat
  BY DEF IsSummary
<1>6. \A t \in Side : tw[t].added = sum.toward[t].added + IF t = s /\ counter = "added" THEN 1 ELSE 0
  BY <1>3, <1>4, <1>5 DEF dir
<1> HIDE DEF tw
<1>7. next.toward = tw /\ next.state_errors = sum.state_errors /\ IsSummary(next)
  BY <1>4 DEF IsSummary
<1> HIDE DEF next
<1> QED BY <1>1, <1>6, <1>7

\* A card added is one more, and what else is counted adds none.
LEMMA CountsAdded ==
    ASSUME NEW sum, IsSummary(sum), NEW s \in Side
    PROVE  LET next == Counted(sum, s, "added") IN
           /\ IsSummary(next) /\ next.state_errors = sum.state_errors
           /\ \A t \in Side : next.toward[t].added = sum.toward[t].added + IF t = s THEN 1 ELSE 0
<1> DEFINE next == Counted(sum, s, "added")
<1>1. "added" \in {"added", "updated", "conflicts", "errors"}
  OBVIOUS
<1>2. /\ IsSummary(next) /\ next.state_errors = sum.state_errors
      /\ \A t \in Side : next.toward[t].added =
            sum.toward[t].added + IF t = s /\ "added" = "added" THEN 1 ELSE 0
  BY <1>1, CountedIs
<1> HIDE DEF next
<1>3. \A t \in Side : next.toward[t].added = sum.toward[t].added + IF t = s THEN 1 ELSE 0
  BY <1>2
<1> QED BY <1>2, <1>3 DEF next

\* The same of another counter.
LEMMA CountsElse ==
    ASSUME NEW sum, IsSummary(sum), NEW s \in Side, NEW counter \in {"updated", "conflicts", "errors"}
    PROVE  LET next == Counted(sum, s, counter) IN
           /\ IsSummary(next) /\ next.state_errors = sum.state_errors
           /\ \A t \in Side : next.toward[t].added = sum.toward[t].added
<1> DEFINE next == Counted(sum, s, counter)
<1>1. counter \in {"added", "updated", "conflicts", "errors"} /\ counter # "added"
  OBVIOUS
<1>2. /\ IsSummary(next) /\ next.state_errors = sum.state_errors
      /\ \A t \in Side : next.toward[t].added =
            sum.toward[t].added + IF t = s /\ counter = "added" THEN 1 ELSE 0
  BY <1>1, CountedIs
<1> HIDE DEF next
<1>3. \A t \in Side : sum.toward[t].added \in Nat
  BY DEF IsSummary
<1>4. \A t \in Side : next.toward[t].added = sum.toward[t].added
  BY <1>1, <1>2, <1>3
<1> QED BY <1>2, <1>4 DEF next

\* An operation that is applied is counted as added where it created a card.
LEMMA AppliedIs ==
    ASSUME NEW sum, IsSummary(sum), NEW op, OpOwn(op), OpCounts(op)
    PROVE  LET next == Applied(sum, op) IN
           /\ IsSummary(next) /\ next.state_errors = sum.state_errors
           /\ \A t \in Side : next.toward[t].added =
                 sum.toward[t].added
                 + IF op.kind \in {"Create", "CopyGroup"} /\ (\E w \in op.then : w.side = t) THEN 1 ELSE 0
<1> DEFINE next == Applied(sum, op)
           Same(x) == /\ IsSummary(x) /\ x.state_errors = sum.state_errors
                      /\ \A t \in Side : x.toward[t].added = sum.toward[t].added
           Conflict(to, counts) == IF op.archive = {} THEN counts ELSE Counted(counts, to, "conflicts")
           Update(counts) == IF op.first = {} THEN counts ELSE Counted(counts, "icloud", "updated")
<1>0. \A t \in Side : sum.toward[t].added \in Nat
  BY DEF IsSummary
<1>1. Other(Winner) \in Side
  BY DEF Other, Side
<1>2. ASSUME NEW x, Same(x), NEW s \in Side, NEW counter \in {"updated", "conflicts", "errors"}
      PROVE  Same(Counted(x, s, counter))
  <2> DEFINE y == Counted(x, s, counter)
  <2>1. /\ IsSummary(y) /\ y.state_errors = x.state_errors
        /\ \A t \in Side : y.toward[t].added = x.toward[t].added
    BY <1>2, CountsElse
  <2> HIDE DEF y
  <2>2. Same(y)
    BY <1>2, <2>1
  <2> QED BY <2>2 DEF y
<1>3. CASE op.kind = "Create"
  <2>1. PICK w \in op.then : op.then = {w}
    BY <1>3 DEF OpCounts
  <2>2. (CHOOSE v \in op.then : TRUE) = w
    BY <2>1
  <2>3. w.side \in Side
    BY <2>1 DEF OpOwn, PutOf
  <2>4. next = Counted(sum, w.side, "added")
    BY <1>3, <2>2 DEF Applied
  <2>5. /\ IsSummary(Counted(sum, w.side, "added"))
        /\ Counted(sum, w.side, "added").state_errors = sum.state_errors
        /\ \A t \in Side : Counted(sum, w.side, "added").toward[t].added =
              sum.toward[t].added + IF t = w.side THEN 1 ELSE 0
    BY <2>3, CountsAdded
  <2>6. \A t \in Side : (\E v \in op.then : v.side = t) <=> t = w.side
    BY <2>1
  <2> HIDE DEF next
  <2>7. \A t \in Side : next.toward[t].added = sum.toward[t].added
                 + IF op.kind \in {"Create", "CopyGroup"} /\ (\E v \in op.then : v.side = t) THEN 1 ELSE 0
    BY <1>3, <2>4, <2>5, <2>6
  <2> QED BY <2>4, <2>5, <2>7 DEF next
<1>4. CASE op.kind = "CopyGroup"
  <2>1. PICK w \in op.then : op.then = {w} /\ w.side = "icloud"
    BY <1>4 DEF OpCounts
  <2> DEFINE mid == Counted(sum, "icloud", "added")
  <2>2. next = Counted(mid, "fastmail", "updated")
    BY <1>4 DEF Applied
  <2>3. /\ IsSummary(mid) /\ mid.state_errors = sum.state_errors
        /\ \A t \in Side : mid.toward[t].added = sum.toward[t].added + IF t = "icloud" THEN 1 ELSE 0
    BY CountsAdded, SideValues
  <2> HIDE DEF mid
  <2>4. /\ IsSummary(Counted(mid, "fastmail", "updated"))
        /\ Counted(mid, "fastmail", "updated").state_errors = mid.state_errors
        /\ \A t \in Side : Counted(mid, "fastmail", "updated").toward[t].added = mid.toward[t].added
    BY <2>3, CountsElse, SideValues
  <2>5. \A t \in Side : (\E v \in op.then : v.side = t) <=> t = "icloud"
    BY <2>1
  <2> HIDE DEF next
  <2>6. \A t \in Side : next.toward[t].added = sum.toward[t].added
                 + IF op.kind \in {"Create", "CopyGroup"} /\ (\E v \in op.then : v.side = t) THEN 1 ELSE 0
    BY <1>0, <1>4, <2>2, <2>3, <2>4, <2>5
  <2> QED BY <2>2, <2>3, <2>4, <2>6 DEF next
<1>5. Same(sum)
  OBVIOUS
<1>6. CASE op.kind = "Conflict"
  <2>1. next = Conflict(Other(Winner), sum)
    BY <1>6 DEF Applied
  <2> HIDE DEF Same, next
  <2>2. Same(next)
    BY <1>1, <1>2, <1>5, <2>1
  <2> QED BY <1>0, <1>6, <2>2 DEF Same, next
<1>7. CASE op.kind = "Recreate"
  <2>1. next = Conflict(Other(Winner), Update(Counted(sum, "fastmail", "updated")))
    BY <1>7 DEF Applied
  <2> HIDE DEF Same, next
  <2>2. Same(Counted(sum, "fastmail", "updated"))
    BY <1>2, <1>5, SideValues
  <2>3. Same(Update(Counted(sum, "fastmail", "updated")))
    BY <1>2, <2>2, SideValues
  <2> HIDE DEF Update
  <2>4. Same(next)
    BY <1>1, <1>2, <2>1, <2>3
  <2> QED BY <1>0, <1>7, <2>4 DEF Same, next
<1>8. CASE op.kind = "Adopt"
  <2>1. next = [sum EXCEPT !.adopted = @ + 1]
    BY <1>8 DEF Applied
  <2>2. Same(next)
    BY <2>1 DEF IsSummary
  <2> HIDE DEF next
  <2> QED BY <1>0, <1>8, <2>2 DEF next
<1> QED BY <1>3, <1>4, <1>6, <1>7, <1>8 DEF OpCounts

\* A side that an operation writes to is one of the two.
LEMMA TargetSides ==
    ASSUME NEW op, OpOwn(op), OpCounts(op)
    PROVE  /\ TargetSide(op) \subseteq Side
           /\ TargetSide(op) = {} <=> op.kind = "Adopt"
<1>1. \A w \in op.then : w.side \in Side
  BY DEF OpOwn, PutOf
<1>2. CASE op.kind = "Create"
  <2>1. PICK w \in op.then : op.then = {w}
    BY <1>2 DEF OpCounts
  <2>2. TargetSide(op) = {v.side : v \in op.then}
    BY <1>2 DEF TargetSide
  <2> QED BY <1>1, <1>2, <2>1, <2>2
<1>3. CASE op.kind = "Conflict"
  <2>0. op.then # {}
    BY <1>3 DEF OpCounts
  <2>1. TargetSide(op) = {v.side : v \in op.then}
    BY <1>3 DEF TargetSide
  <2> QED BY <1>1, <1>3, <2>0, <2>1
<1>4. CASE op.kind = "CopyGroup"
  BY <1>4, SideValues DEF TargetSide
<1>5. CASE op.kind = "Recreate"
  BY <1>5, SideValues DEF TargetSide
<1>6. CASE op.kind = "Adopt"
  BY <1>6 DEF TargetSide
<1> QED BY <1>2, <1>3, <1>4, <1>5, <1>6 DEF OpCounts

\* An operation that fails adds nothing, and one without a target is an error
\* of the state store.
LEMMA FailedIs ==
    ASSUME NEW sum, IsSummary(sum), NEW op, OpOwn(op), OpCounts(op)
    PROVE  LET next == FailedOp(sum, op) IN
           /\ IsSummary(next)
           /\ next.state_errors = sum.state_errors \/ next.state_errors # 0
           /\ op.kind = "Adopt" => next.state_errors # 0
           /\ \A t \in Side : next.toward[t].added = sum.toward[t].added
<1>1. TargetSide(op) \subseteq Side /\ (TargetSide(op) = {} <=> op.kind = "Adopt")
  BY TargetSides
<1>2. CASE TargetSide(op) = {}
  <2> DEFINE next == [sum EXCEPT !.state_errors = @ + 1]
  <2>1. FailedOp(sum, op) = next
    BY <1>2 DEF FailedOp
  <2>2. next.state_errors = sum.state_errors + 1 /\ next.toward = sum.toward /\ IsSummary(next)
    BY DEF IsSummary
  <2>3. sum.state_errors \in Nat
    BY DEF IsSummary
  <2> HIDE DEF next
  <2>4. next.state_errors # 0
    BY <2>2, <2>3
  <2> QED BY <2>1, <2>2, <2>4
<1>3. CASE TargetSide(op) # {}
  <2>1. PICK s \in Side : s = CHOOSE t \in TargetSide(op) : TRUE
    BY <1>1, <1>3
  <2> DEFINE next == Counted(sum, s, "errors")
  <2>2. FailedOp(sum, op) = next
    BY <1>3, <2>1 DEF FailedOp
  <2>3. /\ IsSummary(next) /\ next.state_errors = sum.state_errors
        /\ \A t \in Side : next.toward[t].added = sum.toward[t].added
    BY CountsElse
  <2> HIDE DEF next
  <2> QED BY <1>1, <1>3, <2>2, <2>3
<1> QED BY <1>2, <1>3

\* Failures that are recorded cover the cards they replace.
LEMMA FailureStays ==
    ASSUME NEW group, NEW cards, RecordFailures(group, cards), NEW s, NEW c,
           \/ \E f \in failures : f.side = s /\ SameHref(f.card, c)
           \/ \E k \in cards : k[1] = s /\ SameHref(k[2], c)
    PROVE  \E f \in failures' : f.side = s /\ SameHref(f.card, c)
<1>1. failures' = Without(cards) \cup {Failure(group, k[1], k[2]) : k \in cards}
  BY DEF RecordFailures
<1>2. CASE \E k \in cards : k[1] = s /\ SameHref(k[2], c)
  <2>1. PICK k \in cards : k[1] = s /\ SameHref(k[2], c)
    BY <1>2
  <2> DEFINE g == Failure(group, k[1], k[2])
  <2>2. g.side = k[1] /\ g.card = k[2]
    BY DEF Failure
  <2>3. g \in failures'
    BY <1>1
  <2> HIDE DEF g
  <2> QED BY <2>1, <2>2, <2>3
<1>3. CASE ~ \E k \in cards : k[1] = s /\ SameHref(k[2], c)
  <2>1. PICK f \in failures : f.side = s /\ SameHref(f.card, c)
    BY <1>3
  <2>2. ~ \E k \in cards : k[1] = f.side /\ SameHref(k[2], f.card)
    BY <1>3, <2>1, HrefsEqual
  <2>3. f \in failures'
    BY <1>1, <2>2 DEF Without
  <2> QED BY <2>1, <2>3
<1> QED BY <1>2, <1>3

\* The operation ends, and the plan goes on without it.
LEMMA EndOpAccounts ==
    ASSUME AInv, pc \in OpSteps, EndOp, UNCHANGED <<book, report, edits>>,
           DOMAIN rows' = Uid, journal' \subseteq journal, IsSummary(summary'),
           edits = 0 => \A s \in Side : \A c \in book[s] : Told(s, c) => Told(s, c)',
           edits = 0 => \A s \in Side : \A c \in book[s] : InHand(s, c) => Told(s, c)',
           edits = 0 /\ failed' = {} => failed = {} /\ \A s \in Side :
              Lacking(s) = 0 /\ summary'.toward[s].added = summary.toward[s].added + Extra(s)
    PROVE  AInv'
<1>1. pc' = "apply" /\ wrote' = {} /\ UNCHANGED <<seen, pending, todo>>
  BY DEF EndOp
<1>2. Pending = todo \cup {cur} /\ Pending' = todo
  BY <1>1, CurIsPending DEF Pending, OpSteps
<1>3. Working /\ Working'
  BY <1>1 DEF Working
<1>4. Planned' /\ Written'
  BY <1>1, <1>2, <1>3 DEF AInv, Bases, Planned, Written, OpSteps
<1>5. Bases'
  BY <1>1, <1>4 DEF AInv, Bases, CardsOf, Entries
<1>6. Deleted'
  BY <1>1 DEF Deleted
<1>7. Fresh'
  BY <1>1 DEF AInv, Fresh, Reads
<1>8. Reported'
  BY <1>2, <1>3 DEF AInv, Reported
<1>9. Accounted'
  <2> SUFFICES ASSUME edits = 0, NEW s \in Side, NEW c \in book[s]
               PROVE  (Told(s, c) \/ InHand(s, c) \/ \E op \in todo : <<s, c>> \in op.cards)'
    BY DEF Accounted
  <2>1. Told(s, c) \/ InHand(s, c) \/ \E op \in todo : <<s, c>> \in op.cards
    BY <1>3 DEF AInv, Accounted
  <2> QED BY <1>1, <2>1
<1>10. ASSUME edits = 0, failed' = {}, NEW s \in Side
       PROVE  (Cardinality(book[s]) + Lacking(s) = Cardinality(seen[s]) + summary.toward[s].added + Extra(s))'
  <2>1. Cardinality(book[s]) + Lacking(s) = Cardinality(seen[s]) + summary.toward[s].added + Extra(s)
    BY <1>3, <1>10 DEF AInv, Counting
  <2>2. Lacking(s) = 0 /\ summary'.toward[s].added = summary.toward[s].added + Extra(s)
    BY <1>10
  <2>3. Lacking(s)' = 0 /\ Extra(s)' = 0
    BY <1>1 DEF Lacking, Extra
  <2>4. /\ Cardinality(book[s]) \in Nat /\ Cardinality(seen[s]) \in Nat
        /\ summary.toward[s].added \in Nat /\ Extra(s) \in Nat
    BY <1>3, FS_CardinalityType DEF AInv, Bases, CardsOf, Reported, IsSummary, Extra
  <2> QED BY <1>1, <2>1, <2>2, <2>3, <2>4
<1>11. Counting'
  BY <1>10 DEF Counting
<1> QED BY <1>5, <1>6, <1>7, <1>8, <1>9, <1>11 DEF AInv

\* A card in hand is the current operation's contact's, unless it is the one
\* the operation deletes.
LEMMA InHandIs ==
    ASSUME AInv, pc \in OpSteps, NEW s, NEW c, InHand(s, c)
    PROVE  \/ c.uid = cur.uid
           \/ \E d \in cur.delete : s = "fastmail" /\ SameHref(d, c)
<1>1. CASE <<s, c>> \in wrote
  <2>1. \A k \in wrote : k[2].uid = cur.uid
    BY DEF AInv, Bases, Written
  <2>2. <<s, c>>[2].uid = cur.uid
    BY <1>1, <2>1
  <2> QED BY <2>2
<1>2. CASE \E k \in cur.cards : k[1] = s /\ SameHref(k[2], c)
  <2>1. PICK k \in cur.cards : k[1] = s /\ SameHref(k[2], c)
    BY <1>2
  <2>2. CardOf(cur, k)
    BY CurOwn DEF OpOwn
  <2>3. k[2].uid = c.uid
    BY <2>1 DEF SameHref
  <2> QED BY <2>1, <2>2, <2>3 DEF CardOf
<1> QED BY <1>1, <1>2 DEF InHand

\* A contact's row is stored: it is synced, and its cards have no failure.
LEMMA SaveAccounts ==
    ASSUME ~ IsContent(None), AInv, Save
    PROVE  AInv'
<1>1. /\ pc = "save" /\ pc \in OpSteps /\ EndOp
      /\ rows' = [rows EXCEPT ![cur.uid] = cur.content]
      /\ failures' = Without(cur.cards)
      /\ journal' \subseteq journal /\ summary' = Applied(summary, cur)
      /\ UNCHANGED <<book, report, edits, failed>>
  BY DEF Save, OpSteps
<1>2. OpOwn(cur) /\ OpCounts(cur)
  BY <1>1, CurOwn
<1>3. cur.uid \in Uid /\ cur.content # None /\ DOMAIN rows = Uid
  BY <1>2 DEF AInv, Bases, OpOwn
<1>4. DOMAIN rows' = Uid
  BY <1>1, <1>3
<1>5. rows'[cur.uid] # None /\ \A u \in Uid : rows[u] # None => rows'[u] # None
  BY <1>1, <1>3
<1>6. IsSummary(summary)
  BY <1>1 DEF AInv, Reported, Working
<1>7. /\ IsSummary(summary') /\ summary'.state_errors = summary.state_errors
      /\ \A t \in Side : summary'.toward[t].added = summary.toward[t].added
            + IF cur.kind \in {"Create", "CopyGroup"} /\ (\E w \in cur.then : w.side = t) THEN 1 ELSE 0
  BY <1>1, <1>2, <1>6, AppliedIs
<1>8. ASSUME edits = 0, NEW s \in Side, NEW c \in book[s], InHand(s, c)
      PROVE  Told(s, c)'
  <2>1. ~ \E d \in cur.delete : s = "fastmail" /\ SameHref(d, c)
    <3> SUFFICES ASSUME NEW d \in cur.delete, s = "fastmail", SameHref(d, c)
                 PROVE  FALSE
      OBVIOUS
    <3>1. At("fastmail", d) = {}
      BY <1>1, <1>8 DEF AInv, Deleted
    <3> QED BY <3>1, NobodyAt, HrefsEqual
  <2>2. c.uid = cur.uid
    BY <1>1, <1>8, <2>1, InHandIs
  <2> QED BY <1>5, <2>2 DEF Told
<1>9. ASSUME edits = 0, NEW s \in Side, NEW c \in book[s], Told(s, c)
      PROVE  Told(s, c)'
  <2>1. c.uid \in Uid
    BY DEF AInv, Bases, CardsOf, Typed
  <2>2. CASE \E f \in failures : f.side = s /\ SameHref(f.card, c)
    <3>1. PICK f \in failures : f.side = s /\ SameHref(f.card, c)
      BY <2>2
    <3>2. CASE f \in failures'
      BY <3>1, <3>2 DEF Told
    <3>3. CASE f \notin failures'
      <4>1. PICK k \in cur.cards : k[1] = f.side /\ SameHref(k[2], f.card)
        BY <1>1, <3>3 DEF Without
      <4>2. InHand(s, c)
        BY <1>1, <3>1, <4>1, HrefsEqual DEF InHand
      <4> QED BY <1>8, <1>9, <4>2
    <3> QED BY <3>2, <3>3
  <2>3. CASE ~ \E f \in failures : f.side = s /\ SameHref(f.card, c)
    BY <1>1, <1>5, <1>7, <1>9, <2>1, <2>3 DEF Told
  <2> QED BY <2>2, <2>3
<1>10. \A s \in Side : Lacking(s) = 0 /\ summary'.toward[s].added = summary.toward[s].added + Extra(s)
  BY <1>1, <1>7 DEF Lacking, Extra
<1> QED BY <1>1, <1>4, <1>7, <1>8, <1>9, <1>10, EndOpAccounts

\* An operation that fails has a failure at each of its cards; an Adopt, which
\* has none, is in the report and in the count of errors of the state store.
LEMMA FailOpAccounts ==
    ASSUME AInv, pc \in OpSteps, FailOp, UNCHANGED book
    PROVE  AInv'
<1>1. /\ EndOp /\ RecordFailures(cur.uid, FailedCards)
      /\ failed' = failed \cup FailedCards
      /\ summary' = FailedOp(summary, cur)
      /\ UNCHANGED <<rows, journal, report, edits>>
  BY DEF FailOp
<1>2. OpOwn(cur) /\ OpCounts(cur) /\ cur \in Pending
  BY CurOwn
<1>3. Working /\ IsSummary(summary)
  BY DEF AInv, Reported, Working
<1>4. /\ IsSummary(summary')
      /\ summary'.state_errors = summary.state_errors \/ summary'.state_errors # 0
      /\ cur.kind = "Adopt" => summary'.state_errors # 0
      /\ \A t \in Side : summary'.toward[t].added = summary.toward[t].added
  BY <1>1, <1>2, <1>3, FailedIs
<1>5. ASSUME NEW s \in Side, NEW c \in book[s], Told(s, c)
      PROVE  Told(s, c)'
  <2>1. CASE \E f \in failures : f.side = s /\ SameHref(f.card, c)
    <3>1. \E f \in failures' : f.side = s /\ SameHref(f.card, c)
      BY <1>1, <2>1, FailureStays
    <3> QED BY <3>1 DEF Told
  <2>2. CASE ~ \E f \in failures : f.side = s /\ SameHref(f.card, c)
    BY <1>1, <1>4, <1>5, <2>2 DEF Told
  <2> QED BY <2>1, <2>2
<1>6. ASSUME NEW s \in Side, NEW c \in book[s], InHand(s, c)
      PROVE  Told(s, c)'
  <2>1. CASE cur.kind = "Adopt"
    <3>1. cur.delete = {}
      BY <1>2, <2>1 DEF OpCounts
    <3>2. c.uid = cur.uid
      BY <1>6, <3>1, InHandIs
    <3>3. cur.uid \in report.in_sync
      BY <1>2, <1>3, <2>1 DEF AInv, Reported
    <3> QED BY <1>1, <1>4, <2>1, <3>2, <3>3 DEF Told
  <2>2. CASE cur.kind # "Adopt"
    <3>1. FailedCards = wrote \cup {k \in cur.cards : ~ \E w \in wrote : w[1] = k[1] /\ SameHref(w[2], k[2])}
      BY <2>2 DEF FailedCards
    <3>2. \E k \in FailedCards : k[1] = s /\ SameHref(k[2], c)
      <4>1. CASE <<s, c>> \in wrote
        <5>1. <<s, c>> \in FailedCards
          BY <3>1, <4>1
        <5>2. <<s, c>>[1] = s /\ SameHref(<<s, c>>[2], c)
          BY HrefsEqual
        <5> QED BY <5>1, <5>2
      <4>2. CASE \E k \in cur.cards : k[1] = s /\ SameHref(k[2], c)
        <5>1. PICK k \in cur.cards : k[1] = s /\ SameHref(k[2], c)
          BY <4>2
        <5>2. CASE k \in FailedCards
          BY <5>1, <5>2
        <5>3. CASE k \notin FailedCards
          <6>1. PICK w \in wrote : w[1] = k[1] /\ SameHref(w[2], k[2])
            BY <3>1, <5>3
          <6> QED BY <3>1, <5>1, <6>1, HrefsEqual
        <5> QED BY <5>2, <5>3
      <4> QED BY <1>6, <4>1, <4>2 DEF InHand
    <3>3. \E f \in failures' : f.side = s /\ SameHref(f.card, c)
      BY <1>1, <3>2, FailureStays
    <3> QED BY <3>3 DEF Told
  <2> QED BY <2>1, <2>2
<1>7. ASSUME failed' = {}
      PROVE  /\ failed = {}
             /\ \A s \in Side : /\ Lacking(s) = 0
                                /\ summary'.toward[s].added = summary.toward[s].added + Extra(s)
  <2>1. failed = {} /\ FailedCards = {}
    BY <1>1, <1>7
  <2>2. cur.kind = "Adopt"
    <3> SUFFICES ASSUME cur.kind # "Adopt" PROVE FALSE
      OBVIOUS
    <3>1. wrote = {} /\ \A k \in cur.cards : \E w \in wrote : w[1] = k[1] /\ SameHref(w[2], k[2])
      BY <2>1 DEF FailedCards
    <3>2. cur.uid \in About(cur)
      BY <1>2 DEF OpOwn
    <3> QED BY <3>1, <3>2 DEF About
  <2>3. cur.delete = {}
    BY <1>2, <2>2 DEF OpCounts
  <2>4. \A s \in Side : Lacking(s) = 0 /\ Extra(s) = 0
    BY <2>2, <2>3 DEF Lacking, Extra
  <2>5. \A s \in Side : summary.toward[s].added \in Nat
    BY <1>3 DEF IsSummary
  <2> QED BY <1>4, <2>1, <2>4, <2>5
<1>8. DOMAIN rows' = Uid /\ journal' \subseteq journal
  BY <1>1 DEF AInv, Bases
<1> QED BY <1>1, <1>4, <1>5, <1>6, <1>7, <1>8, EndOpAccounts

\* A write the server refuses.
LEMMA RefusedAccounts ==
    ASSUME AInv, Refused
    PROVE  AInv'
<1>1. pc \in OpSteps /\ FailOp /\ UNCHANGED book
  BY DEF Refused, OpSteps
<1> QED BY <1>1, FailOpAccounts

\* A request or a store operation that fails for this contact only.
LEMMA RejectedAccounts ==
    ASSUME AInv, Rejected
    PROVE  AInv'
<1>1. pc \in OpSteps /\ FailOp /\ UNCHANGED book
  BY DEF Rejected, OpSteps
<1> QED BY <1>1, FailOpAccounts

\* A cycle-fatal error: what the server did stays.
LEMMA AbortedAccounts ==
    ASSUME AInv, Aborted
    PROVE  AInv'
<1>1. pc \in OpSteps /\ EndCycle /\ UNCHANGED <<rows, journal, edits>>
  BY DEF Aborted, CutOff, store, OpSteps
<1>2. OpOwn(cur) /\ CardsOf(book)
  BY <1>1, CurOwn DEF AInv, Bases
<1>3. CardsOf(book)'
  <2>1. CASE UNCHANGED book
    BY <1>2, <2>1 DEF CardsOf
  <2>2. CASE pc \in {"first", "then"} /\ \E w \in cur[pc] : Accepts(w) /\ Served(w)
    <3>1. PICK w \in cur[pc] : Accepts(w) /\ Served(w)
      BY <2>2
    <3>2. PutOf(cur, w)
      BY <2>2, <3>1, PutStep
    <3> QED BY <1>2, <3>1, <3>2, ServedCards
  <2>3. CASE book' = [book EXCEPT !["fastmail"] = @ \ cur.delete]
    <3> DEFINE T == book["fastmail"] \ cur.delete
    <3>1. OneSide(book["fastmail"])
      BY <1>2, CardsBySide, SideValues
    <3>2. OneSide(T)
      <4>1. CASE cur.delete = {}
        BY <3>1, <4>1
      <4>2. CASE cur.delete # {}
        <5>1. PICK c : cur.delete = {c}
          BY <1>2, <4>2 DEF OpOwn
        <5> QED BY <3>1, <5>1, TakenOut
      <4> QED BY <4>1, <4>2
    <3>3. book' = [book EXCEPT !["fastmail"] = T]
      BY <2>3
    <3> HIDE DEF T
    <3>4. CardsOf([book EXCEPT !["fastmail"] = T])
      BY <1>2, <3>2, OneSideChanged, SideValues
    <3> QED BY <3>3, <3>4
  <2> QED BY <2>1, <2>2, <2>3 DEF Aborted
<1> QED BY <1>1, <1>3, EndKeeps DEF AInv, Bases

\* A run begins with nothing to account for.
LEMMA InitAccounts == Init => AInv
<1> SUFFICES ASSUME Init PROVE AInv
  OBVIOUS
<1>1. /\ book \in Books /\ pc = "wait" /\ seen = [s \in Side |-> {}] /\ edits = 0
      /\ journal = {} /\ pending = {} /\ todo = {} /\ wrote = {}
      /\ rows = [u \in Uid |-> None] /\ summary = CycleSummary
  BY DEF Init
<1>2. CardsOf(book)
  BY <1>1, BooksAssumption DEF CardsOf, Typed, IsCard
<1>3. CardsOf(seen)
  BY <1>1, FS_EmptySet DEF CardsOf
<1>4. Pending = {}
  BY <1>1 DEF Pending, OpSteps
<1>5. Planned /\ Written
  BY <1>1, <1>4 DEF Planned, Written, Working, OpSteps
<1>6. Bases
  BY <1>1, <1>2, <1>3, <1>5 DEF Bases, Entries
<1>7. Deleted /\ Fresh
  BY <1>1 DEF Deleted, Fresh, Reads
<1>8. Accounted /\ Reported /\ Counting
  BY <1>1 DEF Accounted, Reported, Counting, Working, OpSteps
<1> QED BY <1>6, <1>7, <1>8 DEF AInv

\* No step loses track of a card.
LEMMA NextAccounts ==
    ASSUME ~ IsContent(None)
    PROVE  AInv /\ [Next]_vars => AInv'
<1> SUFFICES ASSUME AInv, [Next]_vars
             PROVE  AInv'
  OBVIOUS
<1>1. CASE UserEdit
  BY <1>1, UserEditAccounts
<1>2. CASE UserDelete
  BY <1>2, UserDeleteAccounts
<1>3. CASE BackoffPasses
  BY <1>3, BackoffAccounts
<1>4. CASE Wake
  BY <1>4, WakeAccounts
<1>5. CASE Look
  BY <1>5, LookAccounts
<1>6. CASE DropEntry
  BY <1>6, DropEntryAccounts
<1>7. CASE ReplayPut
  BY <1>7, ReplayPutAccounts
<1>8. CASE Replayed
  BY <1>8, ReplayedAccounts
<1>9. CASE Plan
  BY <1>9, PlanAccounts
<1>10. CASE StartOp
  BY <1>10, StartOpAccounts
<1>11. CASE Archive
  BY <1>11, ArchiveAccounts
<1>12. CASE RunPut
  BY <1>12, RunPutAccounts
<1>13. CASE Journal
  BY <1>13, JournalAccounts
<1>14. CASE RunDelete
  BY <1>14, RunDeleteAccounts
<1>15. CASE Save
  BY <1>15, SaveAccounts
<1>16. CASE Refused
  BY <1>16, RefusedAccounts
<1>17. CASE Finish
  BY <1>17, FinishAccounts
<1>18. CASE Crash
  BY <1>18, CrashAccounts
<1>19. CASE ReplayRejected
  BY <1>19, ReplayRejectedAccounts
<1>20. CASE ReplayAborted
  BY <1>20, ReplayAbortedAccounts
<1>21. CASE Rejected
  BY <1>21, RejectedAccounts
<1>22. CASE Aborted
  BY <1>22, AbortedAccounts
<1>23. CASE UNCHANGED vars
  <2>1. UNCHANGED <<book, rows, failures, journal, pc, seen, pending, todo, cur, wrote, failed, report, summary, edits>>
    BY <1>23 DEF vars, store, cycle, said
  <2>2. Pending' = Pending
    BY <2>1 DEF Pending
  <2>3. Bases'
    BY <2>1, <2>2 DEF AInv, Bases, CardsOf, Entries, Planned, Written, Working
  <2>4. Deleted' /\ Fresh'
    BY <2>1 DEF AInv, Deleted, At, Fresh, Reads
  <2>5. Accounted'
    BY <2>1 DEF AInv, Accounted, Working, Told, InHand
  <2>6. Reported' /\ Counting'
    BY <2>1, <2>2 DEF AInv, Reported, Counting, Working, Lacking, Extra
  <2> QED BY <2>3, <2>4, <2>5, <2>6 DEF AInv
<1> QED
  BY <1>1, <1>2, <1>3, <1>4, <1>5, <1>6, <1>7, <1>8, <1>9, <1>10, <1>11, <1>12,
     <1>13, <1>14, <1>15, <1>16, <1>17, <1>18, <1>19, <1>20, <1>21, <1>22, <1>23
  DEF Next, Daemon, Faulty

\* At the end of a cycle nothing is in hand.
LEMMA AccountsAtRest == AInv => CycleAccounts
<1> SUFFICES ASSUME AInv, AtRest, edits = 0
             PROVE  CycleAccounts
  BY DEF CycleAccounts
<1>1. pc = "apply" /\ todo = {} /\ Working
  BY DEF AtRest, Working
<1>2. \A s \in Side : \A c \in book[s] : ~ InHand(s, c) /\ Told(s, c)
  BY <1>1 DEF AInv, Accounted, InHand, OpSteps
<1>3. \A s \in Side : Lacking(s) = 0 /\ Extra(s) = 0
  BY <1>1 DEF Lacking, Extra
<1>4. ASSUME failed = {}, NEW s \in Side
      PROVE  Cardinality(seen[s]) + summary.toward[s].added = Cardinality(book[s])
  <2>1. Cardinality(book[s]) + Lacking(s) = Cardinality(seen[s]) + summary.toward[s].added + Extra(s)
    BY <1>1, <1>4 DEF AInv, Counting
  <2>2. /\ Cardinality(book[s]) \in Nat /\ Cardinality(seen[s]) \in Nat
        /\ summary.toward[s].added \in Nat
    BY <1>1, FS_CardinalityType DEF AInv, Bases, CardsOf, Reported, IsSummary
  <2> QED BY <1>3, <2>1, <2>2
<1>5. \A s \in Side : \A skip \in report.skipped[s] : Named(skip.card) => skip.candidate_count # 1
  BY <1>1 DEF AInv, Reported
<1> QED BY <1>2, <1>4, <1>5 DEF CycleAccounts, Told

\* At the end of a cycle every card is synced, or the report or a failure
\* says that it is not, and the counts are what the address books gained,
\* whatever they held, whoever won and whatever failed, as long as nobody
\* edits a card (CycleAccounts).  What stands for no row is no card's content.
THEOREM CycleAccountsHolds ==
    ASSUME ~ IsContent(None)
    PROVE  Spec => [] CycleAccounts
<1>1. Init => AInv
  BY InitAccounts
<1>2. AInv /\ [Next]_vars => AInv'
  BY NextAccounts
<1>3. AInv => CycleAccounts
  BY AccountsAtRest
<1> QED BY <1>1, <1>2, <1>3, PTL DEF Spec

(***************************************************************************)
(* Pairing never multiplies (NeverMultiplies).  As long as no card fails   *)
(* and nobody edits, a side gets a card of a name only from the other, and *)
(* only when each of its own cards of that name is the counterpart of one  *)
(* there: the other side has as many.                                      *)
(*                                                                         *)
(* What these say is about address books b, the entries jr of a journal    *)
(* and a run that began with the address books a.                          *)
(***************************************************************************)

\* No card failed, and nobody edited.
Smooth == failures = {} /\ edits = 0

\* The names that NeverMultiplies is about.
Fair(a) ==
    {n \in {content.name : content \in Content} :
        /\ n # Nameless
        /\ \A c \in a["icloud"], d \in a["fastmail"] :
              c.uid = d.uid /\ c.content.name # d.content.name => n \notin {c.content.name, d.content.name}}

\* The UIDs on side s, those of them under a name, and the hrefs taken.
Present(b, s) == {c.uid : c \in b[s]}
Bearing(b, s, n) == {c.uid : c \in Called(b, s, n)}
Taken(b, s, card) == \E c \in b[s] : SameHref(c, card)

\* An entry whose card is nowhere but in the journal.
Open(b, jr) == {j \in jr : j.uid \notin Present(b, "fastmail") /\ j.old.uid \notin Present(b, "fastmail")}
Awaited(b, jr, n) == {j.uid : j \in {j \in Open(b, jr) : j.new.content.name = n}}

\* No more than the fuller side had.
Within(a, S, n) ==
    IsFiniteSet(S) /\ \E t \in Side : Cardinality(S) <= Cardinality(Called(a, t, n))

\* A UID is at one href of a side.
Single(b) == \A s \in Side : \A c, d \in b[s] : c.uid = d.uid => c = d

\* The two cards of a UID have the same of the names.
Alike(a, b) ==
    \A n \in Fair(a) : \A u \in Present(b, "icloud") \cap Present(b, "fastmail") :
        u \in Bearing(b, "icloud", n) <=> u \in Bearing(b, "fastmail", n)

OnBoth(b, u) == u \in Present(b, "icloud") /\ u \in Present(b, "fastmail")

\* What an entry has to do with the address books.
EntryFits(a, b, j) ==
    /\ j.new.uid = j.uid /\ j.new.at = "minted"
    /\ j.uid \in Present(b, "icloud") /\ j.old.uid \notin Present(b, "icloud")
    /\ \A n \in Fair(a) : j.new.content.name = n <=> j.uid \in Bearing(b, "icloud", n)
    /\ j.uid \in Present(b, "fastmail") => Taken(b, "fastmail", j.new)
    /\ j.old.uid \in Present(b, "fastmail") => Taken(b, "fastmail", j.old)

Limits(a, b, jr) ==
    \A n \in Fair(a) :
        /\ Within(a, Bearing(b, "icloud", n), n)
        /\ Within(a, Bearing(b, "fastmail", n) \cup Awaited(b, jr, n), n)

BooksFit(a, b, jr, rw) ==
    /\ Alike(a, b) /\ Limits(a, b, jr)
    /\ \A u \in Uid : rw[u] # None => OnBoth(b, u)
    /\ \A j \in jr : EntryFits(a, b, j)

Copies(op) == op.kind \in {"Create", "CopyGroup"}

\* A card that is put where there was none has its name on the other side.
NewFits(a, b, op, w) ==
    /\ op.uid \notin Present(b, w.side) /\ op.uid \in Present(b, Other(w.side))
    /\ \A n \in Fair(a) : w.card.content.name = n <=> op.uid \in Bearing(b, Other(w.side), n)

\* A copy is made of a name whose cards have their counterparts there, or are
\* about to be brought under one UID with them: R is those UIDs.
CopyFits(a, b, op, w, R) ==
    Copies(op) =>
        \A n \in Fair(a) :
            w.card.content.name = n =>
                Bearing(b, w.side, n) \subseteq Bearing(b, Other(w.side), n) \cup R

\* A rewritten card keeps its name.
Renames(a, op) ==
    \A w \in op.first \cup op.then : \A c \in w.over :
        \A n \in Fair(a) : c.content.name = n <=> w.card.content.name = n

\* A deleted card is on Fastmail only, and has the name of its counterpart.
GoneFits(a, b, op) ==
    \A c \in op.delete :
        /\ c.uid \notin Present(b, "icloud")
        /\ \A n \in Fair(a) : c.content.name = n <=> op.uid \in Bearing(b, "icloud", n)

OpFits(a, b, op, R) ==
    /\ Renames(a, op) /\ GoneFits(a, b, op)
    /\ op.kind \in {"Adopt", "Conflict"} => OnBoth(b, op.uid)
    /\ \A w \in op.then : w.over = {} => NewFits(a, b, op, w) /\ CopyFits(a, b, op, w, R)

\* Nothing was planned yet.
Untouched ==
    /\ book = began /\ journal = {} /\ ~ Working
    /\ \A u \in Uid : rows[u] = None

\* Whoever replays knows what Fastmail holds; once that is over, no entry is
\* left whose old card was never deleted.
Replaying(j) == pc \in {"wait", "list fastmail", "list icloud"} \/ (pc = "replay" /\ j \in pending)

Replays ==
    /\ pc \in {"list icloud", "replay"} => seen["fastmail"] = book["fastmail"]
    /\ pc \in {"list fastmail", "list icloud"} => pending = journal
    /\ pc = "replay" => pending \subseteq journal
    /\ \A j \in journal : j.old.uid \in Present(book, "fastmail") =>
          Replaying(j) \/ (pc = "delete" /\ j \in cur.journal)

\* The UIDs of pairs that are still to be brought under one.
Renewing(ops) == UNION {Owns(p) : p \in {p \in ops : p.kind = "Recreate"}}

\* How far the current operation is.
Progress ==
    /\ pc \in OpSteps /\ Copies(cur) => \A p \in todo : p.kind # "Recreate"
    /\ pc \in {"delete", "then", "save"} => cur.journal \subseteq journal
    /\ pc \in {"then", "save"} => \A c \in cur.delete : c.uid \notin Present(book, "fastmail")
    /\ pc = "save" => OnBoth(book, cur.uid) /\ GoneFits(began, book, cur)

OpsFit ==
    /\ \A op \in Pending : OpSane(op)
    /\ \A op \in Pending : OpFits(began, book, op, Renewing(Pending)) \/ (op = cur /\ pc = "save")

NInv ==
    /\ began \in Books
    /\ Single(book) \/ Untouched
    /\ BooksFit(began, book, journal, rows)
    /\ Replays /\ Progress /\ OpsFit

(***************************************************************************)
(* What writing one card does to two address books.                        *)
(***************************************************************************)

\* Side t of d is that of b with a card in place of others, and the other
\* side is the same.
Moves(b, d, t, over, card) ==
    /\ d[t] = (b[t] \ over) \cup {card}
    /\ d[Other(t)] = b[Other(t)]

\* The same UIDs and hrefs, under the same of the names.
SameBooks(a, b, d) ==
    \A s \in Side :
        /\ Present(d, s) = Present(b, s)
        /\ \A n \in Fair(a) : Bearing(d, s, n) = Bearing(b, s, n)
        /\ \A card : Taken(d, s, card) <=> Taken(b, s, card)

\* A UID more on side t, at its minted href, and one less on Fastmail.
Grown(b, d, t, card) ==
    /\ Present(d, t) = Present(b, t) \cup {card.uid}
    /\ Present(d, Other(t)) = Present(b, Other(t))
    /\ \A n : /\ Bearing(d, t, n) = Bearing(b, t, n) \cup (IF card.content.name = n THEN {card.uid} ELSE {})
              /\ Bearing(d, Other(t), n) = Bearing(b, Other(t), n)
    /\ \A x : /\ Taken(d, t, x) <=> Taken(b, t, x) \/ SameHref(card, x)
              /\ Taken(d, Other(t), x) <=> Taken(b, Other(t), x)

Shrunk(b, d, v) ==
    /\ Present(d, "fastmail") = Present(b, "fastmail") \ {v.uid}
    /\ Present(d, "icloud") = Present(b, "icloud")
    /\ \A n : /\ Bearing(d, "fastmail", n) = Bearing(b, "fastmail", n) \ {v.uid}
              /\ Bearing(d, "icloud", n) = Bearing(b, "icloud", n)
    /\ \A x : x.uid # v.uid => (Taken(d, "fastmail", x) <=> Taken(b, "fastmail", x))

\* Other sides.
LEMMA OtherSides ==
    /\ Other("icloud") = "fastmail" /\ Other("fastmail") = "icloud"
    /\ \A s, t \in Side : s = t \/ s = Other(t)
BY DEF Other, Side

\* Cards rewritten under their names.
LEMMA RewritingIsSame ==
    ASSUME NEW a, NEW b, NEW d, NEW t \in Side, NEW c \in b[t], NEW card,
           Moves(b, d, t, {c}, card), SameHref(c, card),
           \A n \in Fair(a) : c.content.name = n <=> card.content.name = n
    PROVE  SameBooks(a, b, d) /\ (Single(b) => Single(d))
<1>1. c.uid = card.uid /\ \A x : SameHref(c, x) <=> SameHref(card, x)
  BY HrefsEqual DEF SameHref
<1>2. d[t] = (b[t] \ {c}) \cup {card} /\ d[Other(t)] = b[Other(t)]
  BY DEF Moves
<1>3. ASSUME NEW s \in Side, s = Other(t)
      PROVE  d[s] = b[s]
  BY <1>2, <1>3
<1>4. Present(d, t) = Present(b, t)
  BY <1>1, <1>2 DEF Present
<1>5. ASSUME NEW n \in Fair(a)
      PROVE  Bearing(d, t, n) = Bearing(b, t, n)
  BY <1>1, <1>2, <1>5 DEF Bearing, Called
<1>6. ASSUME NEW x
      PROVE  Taken(d, t, x) <=> Taken(b, t, x)
  BY <1>1, <1>2 DEF Taken
<1>7. SameBooks(a, b, d)
  <2> SUFFICES ASSUME NEW s \in Side
               PROVE  /\ Present(d, s) = Present(b, s)
                      /\ \A n \in Fair(a) : Bearing(d, s, n) = Bearing(b, s, n)
                      /\ \A card2 : Taken(d, s, card2) <=> Taken(b, s, card2)
    BY DEF SameBooks
  <2>1. CASE s = t
    BY <1>4, <1>5, <1>6, <2>1
  <2>2. CASE s = Other(t)
    <3>1. d[s] = b[s]
      BY <1>3, <2>2
    <3> QED BY <3>1 DEF Present, Bearing, Called, Taken
  <2> QED BY <2>1, <2>2, OtherSides
<1>8. ASSUME Single(b)
      PROVE  Single(d)
  <2> SUFFICES ASSUME NEW s \in Side, NEW x \in d[s], NEW y \in d[s], x.uid = y.uid PROVE x = y
    BY DEF Single
  <2>1. CASE s = t
    BY <1>1, <1>2, <1>8, <2>1 DEF Single
  <2>2. CASE s = Other(t)
    BY <1>3, <1>8, <2>2 DEF Single
  <2> QED BY <2>1, <2>2, OtherSides
<1> QED BY <1>7, <1>8

\* A card whose UID was not there.
LEMMA AddingGrows ==
    ASSUME NEW b, NEW d, NEW t \in Side, NEW card, Moves(b, d, t, {}, card), card.uid \notin Present(b, t)
    PROVE  Grown(b, d, t, card) /\ (Single(b) => Single(d))
<1>1. d[t] = b[t] \cup {card} /\ d[Other(t)] = b[Other(t)]
  BY DEF Moves
<1>2. \A c \in b[t] : c.uid # card.uid
  BY DEF Present
<1>3. Present(d, t) = Present(b, t) \cup {card.uid} /\ Present(d, Other(t)) = Present(b, Other(t))
  BY <1>1 DEF Present
<1>4. ASSUME NEW n
      PROVE  /\ Bearing(d, t, n) = Bearing(b, t, n) \cup (IF card.content.name = n THEN {card.uid} ELSE {})
             /\ Bearing(d, Other(t), n) = Bearing(b, Other(t), n)
  BY <1>1 DEF Bearing, Called
<1>5. ASSUME NEW x
      PROVE  /\ Taken(d, t, x) <=> Taken(b, t, x) \/ SameHref(card, x)
             /\ Taken(d, Other(t), x) <=> Taken(b, Other(t), x)
  BY <1>1 DEF Taken
<1>6. ASSUME Single(b)
      PROVE  Single(d)
  <2> SUFFICES ASSUME NEW s \in Side, NEW x \in d[s], NEW y \in d[s], x.uid = y.uid PROVE x = y
    BY DEF Single
  <2>1. CASE s = t
    BY <1>1, <1>2, <1>6, <2>1 DEF Single
  <2>2. CASE s = Other(t)
    BY <1>1, <1>6, <2>2 DEF Single
  <2> QED BY <2>1, <2>2, OtherSides
<1> QED BY <1>3, <1>4, <1>5, <1>6 DEF Grown

\* The only card of its UID.
LEMMA DeletingShrinks ==
    ASSUME NEW b, NEW d, Single(b), NEW v \in b["fastmail"],
           d["fastmail"] = b["fastmail"] \ {v}, d["icloud"] = b["icloud"]
    PROVE  Shrunk(b, d, v) /\ Single(d)
<1>1. \A c \in b["fastmail"] : c.uid = v.uid <=> c = v
  BY SideValues DEF Single
<1>2. Present(d, "fastmail") = Present(b, "fastmail") \ {v.uid} /\ Present(d, "icloud") = Present(b, "icloud")
  BY <1>1 DEF Present
<1>3. ASSUME NEW n
      PROVE  /\ Bearing(d, "fastmail", n) = Bearing(b, "fastmail", n) \ {v.uid}
             /\ Bearing(d, "icloud", n) = Bearing(b, "icloud", n)
  BY <1>1 DEF Bearing, Called
<1>4. ASSUME NEW x, x.uid # v.uid
      PROVE  Taken(d, "fastmail", x) <=> Taken(b, "fastmail", x)
  BY <1>4 DEF Taken, SameHref
<1>5. Single(d)
  BY SideValues DEF Single
<1> QED BY <1>2, <1>3, <1>4, <1>5 DEF Shrunk

\* Who is under a name is there.
LEMMA BearingIsPresent ==
    ASSUME NEW b, NEW s, NEW n
    PROVE  Bearing(b, s, n) \subseteq Present(b, s)
BY DEF Bearing, Present, Called

\* An entry's contact is on iCloud, under the entry's name.
LEMMA AwaitedIsThere ==
    ASSUME NEW a, NEW b, NEW jr, NEW n \in Fair(a), \A j \in jr : EntryFits(a, b, j)
    PROVE  Awaited(b, jr, n) \subseteq Bearing(b, "icloud", n)
BY DEF Awaited, Open, EntryFits

(***************************************************************************)
(* No more than the fuller side had.                                       *)
(***************************************************************************)

\* The cards of a name a run began with are so many.
LEMMA CalledIsFinite ==
    ASSUME NEW a \in Books, NEW s \in Side, NEW n
    PROVE  IsFiniteSet(Called(a, s, n)) /\ Cardinality(Called(a, s, n)) \in Nat
<1>1. IsFiniteSet(a[s])
  BY BooksAssumption
<1>2. Called(a, s, n) \subseteq a[s]
  BY DEF Called
<1> QED BY <1>1, <1>2, FS_Subset, FS_CardinalityType

\* Fewer UIDs are within it too.
LEMMA WithinFewer ==
    ASSUME NEW a \in Books, NEW S, NEW n, Within(a, S, n), NEW T \in SUBSET S
    PROVE  Within(a, T, n)
<1>1. PICK t \in Side : Cardinality(S) <= Cardinality(Called(a, t, n))
  BY DEF Within
<1>2. IsFiniteSet(S)
  BY DEF Within
<1>3. IsFiniteSet(T) /\ Cardinality(T) <= Cardinality(S)
  BY <1>2, FS_Subset
<1>4. Cardinality(T) \in Nat /\ Cardinality(S) \in Nat /\ Cardinality(Called(a, t, n)) \in Nat
  BY <1>2, <1>3, FS_CardinalityType, CalledIsFinite
<1>5. Cardinality(T) <= Cardinality(Called(a, t, n))
  BY <1>1, <1>3, <1>4
<1> QED BY <1>3, <1>5 DEF Within

\* So are those where one takes another's place.
LEMMA WithinRenewed ==
    ASSUME NEW a \in Books, NEW S, NEW n, Within(a, S, n), NEW v \in S, NEW u
    PROVE  Within(a, (S \ {v}) \cup {u}, n)
<1> DEFINE R == S \ {v}
           T == R \cup {u}
<1>1. PICK t \in Side : Cardinality(S) <= Cardinality(Called(a, t, n))
  BY DEF Within
<1>2. IsFiniteSet(S)
  BY DEF Within
<1>3. IsFiniteSet(R) /\ Cardinality(R) = Cardinality(S) - 1
  BY <1>2, FS_RemoveElement
<1>4. IsFiniteSet(T) /\ (Cardinality(T) = Cardinality(R) \/ Cardinality(T) = Cardinality(R) + 1)
  BY <1>3, FS_AddElement
<1>5. Cardinality(T) \in Nat /\ Cardinality(R) \in Nat /\ Cardinality(S) \in Nat /\ Cardinality(Called(a, t, n)) \in Nat
  BY <1>2, <1>3, <1>4, FS_CardinalityType, CalledIsFinite
<1> HIDE DEF R, T
<1>6. Cardinality(T) <= Cardinality(Called(a, t, n))
  BY <1>1, <1>3, <1>4, <1>5
<1>7. Within(a, T, n)
  BY <1>4, <1>6 DEF Within
<1> QED BY <1>7 DEF R, T

(***************************************************************************)
(* What keeps the books fitting.                                           *)
(***************************************************************************)

\* The same UIDs and hrefs fit as well.
LEMMA SameBooksFit ==
    ASSUME NEW a, NEW b, NEW d, SameBooks(a, b, d), NEW jr, NEW rw, BooksFit(a, b, jr, rw)
    PROVE  BooksFit(a, d, jr, rw)
<1>1. /\ Present(d, "icloud") = Present(b, "icloud") /\ Present(d, "fastmail") = Present(b, "fastmail")
      /\ \A n \in Fair(a) : Bearing(d, "icloud", n) = Bearing(b, "icloud", n)
                            /\ Bearing(d, "fastmail", n) = Bearing(b, "fastmail", n)
      /\ \A card : Taken(d, "fastmail", card) <=> Taken(b, "fastmail", card)
  BY SideValues DEF SameBooks
<1>2. Alike(a, d)
  BY <1>1 DEF BooksFit, Alike
<1>3. \A n : Awaited(d, jr, n) = Awaited(b, jr, n)
  BY <1>1 DEF Awaited, Open
<1>4. Limits(a, d, jr)
  BY <1>1, <1>3 DEF BooksFit, Limits
<1>5. \A j \in jr : EntryFits(a, d, j)
  BY <1>1 DEF BooksFit, EntryFits
<1>6. \A u \in Uid : rw[u] # None => OnBoth(d, u)
  BY <1>1 DEF BooksFit, OnBoth
<1> QED BY <1>2, <1>4, <1>5, <1>6 DEF BooksFit

\* So do fewer entries.
LEMMA FewerEntriesFit ==
    ASSUME NEW a \in Books, NEW b, NEW jr, NEW k \in SUBSET jr, NEW rw, BooksFit(a, b, jr, rw)
    PROVE  BooksFit(a, b, k, rw)
<1>1. \A n : Awaited(b, k, n) \subseteq Awaited(b, jr, n)
  BY DEF Awaited, Open
<1>2. ASSUME NEW n \in Fair(a)
      PROVE  Within(a, Bearing(b, "fastmail", n) \cup Awaited(b, k, n), n)
  <2>1. Within(a, Bearing(b, "fastmail", n) \cup Awaited(b, jr, n), n)
    BY DEF BooksFit, Limits
  <2> QED BY <1>1, <2>1, WithinFewer
<1>3. Limits(a, b, k)
  BY <1>2 DEF BooksFit, Limits
<1> QED BY <1>3 DEF BooksFit

\* A card goes where its name has a place left: it was awaited, or every card
\* of the name there is on the other side as well.
LEMMA GrownBooksFit ==
    ASSUME NEW a \in Books, NEW b, NEW d, NEW t \in Side, NEW card, Grown(b, d, t, card),
           NEW jr, NEW rw, BooksFit(a, b, jr, rw), card.at = "minted",
           card.uid \notin Present(b, t), card.uid \in Present(b, Other(t)),
           \A n \in Fair(a) : card.content.name = n <=> card.uid \in Bearing(b, Other(t), n),
           t = "icloud" => \A j \in jr : j.old.uid \notin Present(b, "fastmail"),
           \A n \in Fair(a) : card.content.name = n =>
              \/ t = "fastmail" /\ card.uid \in Awaited(b, jr, n)
              \/ Bearing(b, t, n) \subseteq Bearing(b, Other(t), n)
    PROVE  BooksFit(a, d, jr, rw)
<1> DEFINE u == card.uid
           IB(n) == Bearing(b, "icloud", n)
           FB(n) == Bearing(b, "fastmail", n)
           ID(n) == Bearing(d, "icloud", n)
           FD(n) == Bearing(d, "fastmail", n)
<1>1. \A n : IB(n) \subseteq Present(b, "icloud") /\ FB(n) \subseteq Present(b, "fastmail")
  BY BearingIsPresent
<1>2. /\ \A n \in Fair(a) : Within(a, IB(n), n) /\ Within(a, FB(n) \cup Awaited(b, jr, n), n)
      /\ \A x \in Uid : rw[x] # None => OnBoth(b, x)
      /\ \A j \in jr : EntryFits(a, b, j)
      /\ \A n \in Fair(a) : \A x \in Present(b, "icloud") \cap Present(b, "fastmail") : x \in IB(n) <=> x \in FB(n)
  BY DEF BooksFit, Limits, Alike
<1>3. \A n \in Fair(a) : Awaited(b, jr, n) \subseteq IB(n)
  BY <1>2, AwaitedIsThere
<1>4. CASE t = "icloud"
  <2>1. /\ Present(d, "icloud") = Present(b, "icloud") \cup {u}
        /\ Present(d, "fastmail") = Present(b, "fastmail")
        /\ \A n : ID(n) = IB(n) \cup (IF card.content.name = n THEN {u} ELSE {})
        /\ \A n : FD(n) = FB(n)
        /\ \A x : Taken(d, "fastmail", x) <=> Taken(b, "fastmail", x)
    BY <1>4, OtherSides DEF Grown
  <2>2. /\ u \notin Present(b, "icloud") /\ u \in Present(b, "fastmail")
        /\ \A n \in Fair(a) : card.content.name = n <=> u \in FB(n)
        /\ \A n \in Fair(a) : card.content.name = n => IB(n) \subseteq FB(n)
        /\ \A j \in jr : j.old.uid # u
    BY <1>4, OtherSides
  <2> HIDE DEF u, IB, FB, ID, FD
  <2>3. \A n \in Fair(a) : \A x \in Present(d, "icloud") \cap Present(d, "fastmail") : x \in ID(n) <=> x \in FD(n)
    BY <1>1, <1>2, <2>1, <2>2
  <2>4. \A n : Awaited(d, jr, n) = Awaited(b, jr, n)
    BY <2>1 DEF Awaited, Open
  <2>5. ASSUME NEW n \in Fair(a)
        PROVE  Within(a, ID(n), n) /\ Within(a, FD(n) \cup Awaited(d, jr, n), n)
    <3>1. CASE card.content.name = n
      <4>1. ID(n) \subseteq FB(n) \cup Awaited(b, jr, n)
        BY <2>1, <2>2, <3>1
      <4>2. Within(a, ID(n), n)
        BY <1>2, <4>1, WithinFewer
      <4> QED BY <1>2, <2>1, <2>4, <4>2
    <3>2. CASE card.content.name # n
      BY <1>2, <2>1, <2>4, <3>2
    <3> QED BY <3>1, <3>2
  <2>6. ASSUME NEW j \in jr
        PROVE  EntryFits(a, d, j)
    <3>1. EntryFits(a, b, j) /\ j.old.uid # u
      BY <1>2, <2>2
    <3>2. j.uid # u
      BY <2>2, <3>1 DEF EntryFits
    <3>3. \A n \in Fair(a) : j.uid \in ID(n) <=> j.uid \in IB(n)
      BY <2>1, <3>2
    <3> QED BY <2>1, <3>1, <3>2, <3>3 DEF EntryFits, ID, IB
  <2>7. \A x \in Uid : rw[x] # None => OnBoth(d, x)
    BY <1>2, <2>1 DEF OnBoth
  <2> QED BY <2>3, <2>5, <2>6, <2>7 DEF BooksFit, Alike, Limits, ID, FD
<1>5. CASE t = "fastmail"
  <2>1. /\ Present(d, "fastmail") = Present(b, "fastmail") \cup {u}
        /\ Present(d, "icloud") = Present(b, "icloud")
        /\ \A n : FD(n) = FB(n) \cup (IF card.content.name = n THEN {u} ELSE {})
        /\ \A n : ID(n) = IB(n)
        /\ \A x : Taken(d, "fastmail", x) <=> Taken(b, "fastmail", x) \/ SameHref(card, x)
    BY <1>5, OtherSides DEF Grown
  <2>2. /\ u \notin Present(b, "fastmail") /\ u \in Present(b, "icloud")
        /\ \A n \in Fair(a) : card.content.name = n <=> u \in IB(n)
        /\ \A n \in Fair(a) : card.content.name = n => u \in Awaited(b, jr, n) \/ FB(n) \subseteq IB(n)
    BY <1>5, OtherSides
  <2>3. \A n : Awaited(d, jr, n) \subseteq Awaited(b, jr, n)
    BY <2>1 DEF Awaited, Open
  <2>4. \A x : x.uid = u /\ x.at = "minted" => SameHref(card, x)
    BY DEF SameHref
  <2> HIDE DEF u, IB, FB, ID, FD
  <2>5. \A n \in Fair(a) : \A x \in Present(d, "icloud") \cap Present(d, "fastmail") : x \in ID(n) <=> x \in FD(n)
    BY <1>1, <1>2, <2>1, <2>2
  <2>6. ASSUME NEW n \in Fair(a)
        PROVE  Within(a, ID(n), n) /\ Within(a, FD(n) \cup Awaited(d, jr, n), n)
    <3>1. CASE card.content.name # n \/ u \in Awaited(b, jr, n)
      <4>1. FD(n) \cup Awaited(d, jr, n) \subseteq FB(n) \cup Awaited(b, jr, n)
        BY <2>1, <2>3, <3>1
      <4>2. Within(a, FD(n) \cup Awaited(d, jr, n), n)
        BY <1>2, <4>1, WithinFewer
      <4> QED BY <1>2, <2>1, <4>2
    <3>2. CASE card.content.name = n /\ u \notin Awaited(b, jr, n)
      <4>1. FD(n) \cup Awaited(d, jr, n) \subseteq IB(n)
        BY <1>3, <2>1, <2>2, <2>3, <3>2
      <4>2. Within(a, FD(n) \cup Awaited(d, jr, n), n)
        BY <1>2, <4>1, WithinFewer
      <4> QED BY <1>2, <2>1, <4>2
    <3> QED BY <3>1, <3>2
  <2>7. ASSUME NEW j \in jr
        PROVE  EntryFits(a, d, j)
    <3>1. EntryFits(a, b, j)
      BY <1>2
    <3>2. j.old.uid # u
      BY <2>2, <3>1 DEF EntryFits
    <3>3. j.uid = u => SameHref(card, j.new)
      BY <2>4, <3>1 DEF EntryFits
    <3>4. j.uid \in Present(d, "fastmail") => Taken(d, "fastmail", j.new)
      BY <2>1, <3>1, <3>3 DEF EntryFits
    <3>5. j.old.uid \in Present(d, "fastmail") => Taken(d, "fastmail", j.old)
      BY <2>1, <3>1, <3>2 DEF EntryFits
    <3>6. \A n : Bearing(d, "icloud", n) = Bearing(b, "icloud", n)
      BY <2>1 DEF ID, IB
    <3> QED BY <2>1, <3>1, <3>4, <3>5, <3>6 DEF EntryFits
  <2>8. \A x \in Uid : rw[x] # None => OnBoth(d, x)
    BY <1>2, <2>1 DEF OnBoth
  <2> QED BY <2>5, <2>6, <2>7, <2>8 DEF BooksFit, Alike, Limits, ID, FD
<1> QED BY <1>4, <1>5, SideValues

\* A deleted card's entry awaits it, under the same name.
LEMMA ShrunkBooksFit ==
    ASSUME NEW a \in Books, NEW b, NEW d, NEW v, Shrunk(b, d, v), NEW jr, NEW rw, BooksFit(a, b, jr, rw),
           v.uid \notin Present(b, "icloud"), NEW j \in jr, j.old.uid = v.uid,
           \A k \in jr : k.old.uid \in Present(b, "fastmail") => k = j,
           \A n \in Fair(a) : j.new.content.name = n => v.uid \in Bearing(b, "fastmail", n)
    PROVE  BooksFit(a, d, jr, rw)
<1> DEFINE S(n) == Bearing(b, "fastmail", n) \cup Awaited(b, jr, n)
           T(n) == Bearing(d, "fastmail", n) \cup Awaited(d, jr, n)
<1>1. /\ Present(d, "fastmail") = Present(b, "fastmail") \ {v.uid}
      /\ Present(d, "icloud") = Present(b, "icloud")
      /\ \A n : /\ Bearing(d, "fastmail", n) = Bearing(b, "fastmail", n) \ {v.uid}
                /\ Bearing(d, "icloud", n) = Bearing(b, "icloud", n)
      /\ \A x : x.uid # v.uid => (Taken(d, "fastmail", x) <=> Taken(b, "fastmail", x))
  BY DEF Shrunk
<1>2. /\ \A n \in Fair(a) : Within(a, Bearing(b, "icloud", n), n) /\ Within(a, S(n), n)
      /\ \A x \in Uid : rw[x] # None => OnBoth(b, x)
      /\ \A k \in jr : EntryFits(a, b, k)
      /\ Alike(a, b)
  BY DEF BooksFit, Limits
<1>3. Alike(a, d)
  BY <1>1, <1>2 DEF Alike
<1>4. \A x \in Uid : rw[x] # None => OnBoth(d, x)
  BY <1>1, <1>2 DEF OnBoth
<1>5. \A k \in jr : EntryFits(a, d, k)
  BY <1>1, <1>2 DEF EntryFits
<1>6. \A k \in Open(d, jr) : k \in Open(b, jr) \/ k = j
  BY <1>1, <1>2 DEF Open, EntryFits
<1>7. ASSUME NEW n \in Fair(a)
      PROVE  Within(a, T(n), n)
  <2>1. CASE j.new.content.name = n
    <3>1. T(n) \subseteq (S(n) \ {v.uid}) \cup {j.uid}
      <4>1. Awaited(d, jr, n) \subseteq Awaited(b, jr, n) \cup {j.uid}
        BY <1>6 DEF Awaited
      <4>2. v.uid \notin Awaited(b, jr, n)
        BY <1>2, AwaitedIsThere, BearingIsPresent
      <4> QED BY <1>1, <4>1, <4>2
    <3>2. v.uid \in S(n)
      BY <2>1
    <3> HIDE DEF S, T
    <3>3. Within(a, (S(n) \ {v.uid}) \cup {j.uid}, n)
      BY <1>2, <3>2, WithinRenewed
    <3> QED BY <3>1, <3>3, WithinFewer
  <2>2. CASE j.new.content.name # n
    <3>1. Awaited(d, jr, n) \subseteq Awaited(b, jr, n)
      BY <1>6, <2>2 DEF Awaited
    <3>2. T(n) \subseteq S(n)
      BY <1>1, <3>1
    <3> HIDE DEF S, T
    <3> QED BY <1>2, <3>2, WithinFewer
  <2> QED BY <2>1, <2>2
<1>8. Limits(a, d, jr)
  BY <1>1, <1>2, <1>7 DEF Limits
<1> QED BY <1>3, <1>4, <1>5, <1>8 DEF BooksFit

\* An entry is written while its card is still there.
LEMMA JournaledBooksFit ==
    ASSUME NEW a \in Books, NEW b, NEW jr, NEW rw, BooksFit(a, b, jr, rw),
           NEW k \in SUBSET jr, NEW j, EntryFits(a, b, j), j.old.uid \in Present(b, "fastmail")
    PROVE  BooksFit(a, b, k \cup {j}, rw)
<1>1. \A n : Awaited(b, k \cup {j}, n) = Awaited(b, k, n)
  BY DEF Awaited, Open
<1>2. BooksFit(a, b, k, rw)
  BY FewerEntriesFit
<1>3. Limits(a, b, k \cup {j})
  BY <1>1, <1>2 DEF BooksFit, Limits
<1> QED BY <1>2, <1>3 DEF BooksFit

\* A row is for a contact on both sides.
LEMMA SavedBooksFit ==
    ASSUME NEW a, NEW b, NEW jr, NEW rw, BooksFit(a, b, jr, rw), NEW u, OnBoth(b, u), DOMAIN rw = Uid,
           NEW x
    PROVE  BooksFit(a, b, jr, [rw EXCEPT ![u] = x])
<1> DEFINE next == [rw EXCEPT ![u] = x]
<1>1. \A y \in Uid : next[y] # None => rw[y] # None \/ y = u
  OBVIOUS
<1> HIDE DEF next
<1>2. \A y \in Uid : next[y] # None => OnBoth(b, y)
  BY <1>1 DEF BooksFit
<1>3. BooksFit(a, b, jr, next)
  BY <1>2 DEF BooksFit
<1> QED BY <1>3 DEF next

(***************************************************************************)
(* What keeps the operations fitting.                                      *)
(***************************************************************************)

\* The same UIDs and hrefs do.
LEMMA SameBooksOp ==
    ASSUME NEW a, NEW b, NEW d, SameBooks(a, b, d), NEW op, NEW R, OpFits(a, b, op, R),
           \A w \in op.then : w.side \in Side
    PROVE  OpFits(a, d, op, R)
<1>1. \A s \in Side : /\ Present(d, s) = Present(b, s)
                      /\ \A n \in Fair(a) : Bearing(d, s, n) = Bearing(b, s, n)
  BY DEF SameBooks
<1>2. Other("icloud") \in Side /\ Other("fastmail") \in Side /\ \A s \in Side : Other(s) \in Side
  BY OtherSides, SideValues
<1>3. GoneFits(a, d, op)
  BY <1>1, SideValues DEF OpFits, GoneFits
<1>4. op.kind \in {"Adopt", "Conflict"} => OnBoth(d, op.uid)
  BY <1>1, SideValues DEF OpFits, OnBoth
<1>5. ASSUME NEW w \in op.then, w.over = {}
      PROVE  NewFits(a, d, op, w) /\ CopyFits(a, d, op, w, R)
  <2>1. NewFits(a, b, op, w) /\ CopyFits(a, b, op, w, R)
    BY <1>5 DEF OpFits
  <2>2. w.side \in Side /\ Other(w.side) \in Side
    BY <1>2
  <2>3. NewFits(a, d, op, w)
    BY <1>1, <2>1, <2>2 DEF NewFits
  <2>4. CopyFits(a, d, op, w, R)
    BY <1>1, <2>1, <2>2 DEF CopyFits
  <2> QED BY <2>3, <2>4
<1> QED BY <1>3, <1>4, <1>5 DEF OpFits

\* So does a card of another contact that goes where its counterpart is.
LEMMA GrownBooksOp ==
    ASSUME NEW a, NEW b, NEW d, NEW t \in Side, NEW card, Grown(b, d, t, card),
           card.uid \notin Present(b, t), card.uid \in Present(b, Other(t)),
           \A n \in Fair(a) : card.content.name = n <=> card.uid \in Bearing(b, Other(t), n),
           NEW op, NEW R, OpFits(a, b, op, R), card.uid \notin Owns(op), \A w \in op.then : w.side \in Side
    PROVE  OpFits(a, d, op, R)
<1> DEFINE u == card.uid
<1>1. /\ Present(d, t) = Present(b, t) \cup {u}
      /\ Present(d, Other(t)) = Present(b, Other(t))
      /\ \A n : /\ Bearing(d, t, n) = Bearing(b, t, n) \cup (IF card.content.name = n THEN {u} ELSE {})
                /\ Bearing(d, Other(t), n) = Bearing(b, Other(t), n)
  BY DEF Grown
<1>2. op.uid # u /\ \A c \in op.delete : c.uid # u
  BY DEF Owns
<1>3. \A s \in Side : /\ \A x : x # u => (x \in Present(d, s) <=> x \in Present(b, s))
                      /\ \A n, x : x # u => (x \in Bearing(d, s, n) <=> x \in Bearing(b, s, n))
  BY <1>1, OtherSides
<1>4. \A n \in Fair(a) : card.content.name = n => u \in Bearing(b, Other(t), n)
  OBVIOUS
<1> HIDE DEF u
<1>5. GoneFits(a, d, op)
  BY <1>2, <1>3, SideValues DEF OpFits, GoneFits
<1>6. op.kind \in {"Adopt", "Conflict"} => OnBoth(d, op.uid)
  BY <1>2, <1>3, SideValues DEF OpFits, OnBoth
<1>7. ASSUME NEW w \in op.then, w.over = {}
      PROVE  NewFits(a, d, op, w) /\ CopyFits(a, d, op, w, R)
  <2>1. NewFits(a, b, op, w) /\ CopyFits(a, b, op, w, R)
    BY <1>7 DEF OpFits
  <2>2. w.side \in Side /\ Other(w.side) \in Side
    BY OtherSides, SideValues
  <2>3. NewFits(a, d, op, w)
    BY <1>2, <1>3, <2>1, <2>2 DEF NewFits
  <2>4. ASSUME Copies(op), NEW n \in Fair(a), w.card.content.name = n
        PROVE  Bearing(d, w.side, n) \subseteq Bearing(d, Other(w.side), n) \cup R
    <3>1. Bearing(b, w.side, n) \subseteq Bearing(b, Other(w.side), n) \cup R
      BY <2>1, <2>4 DEF CopyFits
    <3>2. CASE w.side = t
      BY <1>1, <1>4, <3>1, <3>2
    <3>3. CASE w.side = Other(t)
      <4>1. Other(w.side) = t
        BY <3>3, OtherSides, SideValues
      <4> QED BY <1>1, <3>1, <3>3, <4>1
    <3> QED BY <2>2, <3>2, <3>3, OtherSides
  <2> QED BY <2>3, <2>4 DEF CopyFits
<1> QED BY <1>5, <1>6, <1>7 DEF OpFits

\* So does a card that was on Fastmail only and goes.
LEMMA ShrunkBooksOp ==
    ASSUME NEW a, NEW b, NEW d, NEW v, Shrunk(b, d, v), v.uid \notin Present(b, "icloud"),
           NEW op, NEW R, OpFits(a, b, op, R), v.uid # op.uid, \A w \in op.then : w.side \in Side
    PROVE  OpFits(a, d, op, R)
<1>1. /\ Present(d, "fastmail") = Present(b, "fastmail") \ {v.uid}
      /\ Present(d, "icloud") = Present(b, "icloud")
      /\ \A n : /\ Bearing(d, "fastmail", n) = Bearing(b, "fastmail", n) \ {v.uid}
                /\ Bearing(d, "icloud", n) = Bearing(b, "icloud", n)
  BY DEF Shrunk
<1>2. \A n : v.uid \notin Bearing(b, "icloud", n)
  BY BearingIsPresent
<1>3. GoneFits(a, d, op)
  BY <1>1 DEF OpFits, GoneFits
<1>4. op.kind \in {"Adopt", "Conflict"} => OnBoth(d, op.uid)
  BY <1>1 DEF OpFits, OnBoth
<1>5. ASSUME NEW w \in op.then, w.over = {}
      PROVE  NewFits(a, d, op, w) /\ CopyFits(a, d, op, w, R)
  <2>1. NewFits(a, b, op, w) /\ CopyFits(a, b, op, w, R)
    BY <1>5 DEF OpFits
  <2>2. CASE w.side = "icloud"
    <3>1. NewFits(a, d, op, w)
      BY <1>1, <2>1, <2>2, OtherSides DEF NewFits
    <3>2. CopyFits(a, d, op, w, R)
      BY <1>1, <1>2, <2>1, <2>2, OtherSides DEF CopyFits
    <3> QED BY <3>1, <3>2
  <2>3. CASE w.side = "fastmail"
    <3>1. NewFits(a, d, op, w)
      BY <1>1, <2>1, <2>3, OtherSides DEF NewFits
    <3>2. CopyFits(a, d, op, w, R)
      BY <1>1, <2>1, <2>3, OtherSides DEF CopyFits
    <3> QED BY <3>1, <3>2
  <2> QED BY <2>2, <2>3, SideValues
<1> QED BY <1>3, <1>4, <1>5 DEF OpFits

\* Once a pair is under one UID on both sides, nobody waits for it.
LEMMA RenewedOp ==
    ASSUME NEW a, NEW b, NEW op, NEW R, OpFits(a, b, op, R), NEW Q, NEW X, R \subseteq Q \cup X,
           Alike(a, b), \A x \in X : OnBoth(b, x) \/ \A s \in Side : x \notin Present(b, s),
           \A w \in op.then : w.side \in Side
    PROVE  OpFits(a, b, op, Q)
<1>1. ASSUME NEW s \in Side, NEW n \in Fair(a), NEW x \in X, x \in Bearing(b, s, n)
      PROVE  x \in Bearing(b, Other(s), n)
  <2>1. OnBoth(b, x)
    BY <1>1, BearingIsPresent
  <2> QED BY <1>1, <2>1, SideValues, OtherSides DEF Alike, OnBoth
<1>2. ASSUME NEW w \in op.then, w.over = {}
      PROVE  CopyFits(a, b, op, w, Q)
  <2>1. CopyFits(a, b, op, w, R)
    BY <1>2 DEF OpFits
  <2> QED BY <1>1, <2>1 DEF CopyFits
<1> QED BY <1>2 DEF OpFits

(***************************************************************************)
(* What is planned fits.                                                   *)
(***************************************************************************)

\* The only card of a UID says what its name is.
LEMMA OnlyCard ==
    ASSUME NEW b, Single(b), NEW s \in Side, NEW c \in b[s], NEW n
    PROVE  c.uid \in Present(b, s) /\ (c.uid \in Bearing(b, s, n) <=> c.content.name = n)
BY DEF Single, Present, Bearing, Called

\* Without failures and without two cards of a UID on a side, every card
\* without a row may be paired.
LEMMA NobodyIsHeld ==
    ASSUME failures = {}, Single(seen)
    PROVE  \A s \in Side : Unsynced(seen)[s] = {c \in seen[s] : rows[c.uid] = None}
<1>1. HeldCards(seen) = {}
  BY DEF HeldCards
<1>2. \A s \in Side : Free(seen, s) = seen[s]
  BY <1>1 DEF Free
<1>3. \A s \in Side : \A c, d \in Free(seen, s) : c.uid = d.uid => c = d
  BY <1>2 DEF Single
<1>4. ASSUME NEW u \in Duplicated(seen)
      PROVE  FALSE
  <2>1. PICK s \in Side :
            u \in {c.uid : c \in {c \in Free(seen, s) : \E d \in Free(seen, s) : d # c /\ d.uid = c.uid}}
    BY <1>4 DEF Duplicated
  <2> QED BY <1>3, <2>1
<1>5. \A s \in Side : Unsynced(seen)[s] = {c \in Free(seen, s) : rows[c.uid] = None /\ c.uid \notin Duplicated(seen)}
  BY DEF Unsynced
<1> QED BY <1>2, <1>4, <1>5

\* A pair under two UIDs.
LEMMA RecreateFits ==
    ASSUME NEW a, NEW b, Single(b), NEW m, m[1] \in b["icloud"], m[2] \in b["fastmail"],
           m[1].uid \notin Present(b, "fastmail"), m[2].uid \notin Present(b, "icloud"),
           NEW content, content.name = m[1].content.name, content.name = m[2].content.name,
           NEW archive, NEW first, \A w \in first : \A c \in w.over : c.content.name = w.card.content.name,
           NEW R
    PROVE  OpFits(a, b, Recreate(m, content, archive, first), R)
<1> DEFINE op == Recreate(m, content, archive, first)
           new == Minted(m[1].uid, content, m[2].photo)
<1>1. /\ op.kind = "Recreate" /\ op.uid = m[1].uid /\ op.first = first /\ op.delete = {m[2]}
      /\ op.then = {Put("fastmail", {}, new)}
  BY RecreateIs
<1>2. new.content = content
  BY DEF Minted
<1>3. Put("fastmail", {}, new).side = "fastmail" /\ Put("fastmail", {}, new).over = {} /\ Put("fastmail", {}, new).card = new
  BY PutIs
<1> HIDE DEF op, new
<1>4. /\ m[1].uid \in Present(b, "icloud")
      /\ \A n : m[1].uid \in Bearing(b, "icloud", n) <=> m[1].content.name = n
  <2>1. \A s \in Side : \A c \in b[s] : \A n :
            c.uid \in Present(b, s) /\ (c.uid \in Bearing(b, s, n) <=> c.content.name = n)
    BY OnlyCard
  <2>2. \A c \in b["icloud"] : \A n :
            c.uid \in Present(b, "icloud") /\ (c.uid \in Bearing(b, "icloud", n) <=> c.content.name = n)
    BY <2>1, SideValues
  <2> DEFINE c == m[1]
  <2>3. c \in b["icloud"]
    OBVIOUS
  <2> HIDE DEF c
  <2>4. c.uid \in Present(b, "icloud") /\ \A n : c.uid \in Bearing(b, "icloud", n) <=> c.content.name = n
    BY <2>2, <2>3
  <2> QED BY <2>4 DEF c
<1>5. Renames(a, op)
  BY <1>1, <1>3 DEF Renames
<1>6. GoneFits(a, b, op)
  BY <1>1, <1>4 DEF GoneFits
<1>7. \A w \in op.then : NewFits(a, b, op, w) /\ CopyFits(a, b, op, w, R)
  BY <1>1, <1>2, <1>3, <1>4, OtherSides DEF NewFits, CopyFits, Copies
<1> QED BY <1>1, <1>5, <1>6, <1>7 DEF OpFits, op

\* What a match becomes fits.
LEMMA MatchFits ==
    ASSUME NEW a, NEW b, Single(b), Alike(a, b), NEW m, m[1] \in b["icloud"], m[2] \in b["fastmail"],
           Typed(m[1]), Typed(m[2]), NEW p, NEW R,
           m \in p.byUid => m[1].uid = m[2].uid,
           m \notin p.byUid =>
              /\ m[1].uid \notin Present(b, "fastmail") /\ m[2].uid \notin Present(b, "icloud")
              /\ m[1].content.name = m[2].content.name,
           m \in p.byContent => SameContent(m[1], m[2])
    PROVE  OpFits(a, b, OpOf(m, p), R)
<1> DEFINE op == OpOf(m, p)
<1>1. /\ m[1].uid \in Present(b, "icloud") /\ m[2].uid \in Present(b, "fastmail")
      /\ \A n : m[1].uid \in Bearing(b, "icloud", n) <=> m[1].content.name = n
      /\ \A n : m[2].uid \in Bearing(b, "fastmail", n) <=> m[2].content.name = n
  BY OnlyCard, SideValues
<1>2. CASE m \in p.byUid
  <2>1. \A n \in Fair(a) : m[1].content.name = n <=> m[2].content.name = n
    BY <1>1, <1>2 DEF Alike
  <2>2. OnBoth(b, m[1].uid)
    BY <1>1, <1>2 DEF OnBoth
  <2>3. CASE SameContent(m[1], m[2])
    <3>1. op = AdoptOf(m)
      BY <1>2, <2>3 DEF OpOf
    <3>2. op.kind = "Adopt" /\ op.uid = m[1].uid /\ op.first = {} /\ op.delete = {} /\ op.then = {}
      BY <3>1, AdoptIs
    <3> HIDE DEF op
    <3> QED BY <2>2, <3>2 DEF OpFits, Renames, GoneFits, op
  <2>4. CASE ~ SameContent(m[1], m[2])
    <3> DEFINE card == [Losing(m) EXCEPT !.content = Winning(m).content]
    <3>1. op = ConflictOf(m)
      BY <1>2, <2>4 DEF OpOf
    <3>2. /\ op.kind = "Conflict" /\ op.uid = m[1].uid /\ op.first = {} /\ op.delete = {}
          /\ op.then = {Put(Other(Winner), {Losing(m)}, card)}
      BY <3>1, ConflictIs
    <3>3. IsCard(Losing(m))
      BY DEF Losing, Typed
    <3>4. card.content = Winning(m).content
      BY <3>3, RewrittenIs DEF Version
    <3>5. \A n \in Fair(a) : Losing(m).content.name = n <=> Winning(m).content.name = n
      BY <2>1 DEF Losing, Winning
    <3> HIDE DEF op, card
    <3>6. \A w \in op.then : w.over = {Losing(m)} /\ w.card = card
      BY <3>2, PutIs
    <3>7. Renames(a, op)
      <4>1. \A w \in op.first \cup op.then : w \in op.then
        BY <3>2
      <4> HIDE DEF Losing, Winning
      <4>2. \A w \in op.first \cup op.then : \A c \in w.over : c = Losing(m) /\ w.card.content = Winning(m).content
        BY <3>4, <3>6, <4>1
      <4> QED BY <3>5, <4>2 DEF Renames
    <3>8. GoneFits(a, b, op)
      BY <3>2 DEF GoneFits
    <3> QED BY <2>2, <3>2, <3>6, <3>7, <3>8 DEF OpFits, op
  <2> QED BY <2>3, <2>4
<1>3. CASE m \notin p.byUid /\ m \in p.byContent
  <2>1. op = Recreate(m, m[1].content, {}, {})
    BY <1>3 DEF OpOf, ContentPair
  <2> QED BY <1>3, <2>1, RecreateFits
<1>4. CASE m \notin p.byUid /\ m \notin p.byContent
  <2> DEFINE first == IF Winner = "icloud" THEN {}
                      ELSE {Put("icloud", {m[1]}, [m[1] EXCEPT !.content = m[2].content])}
             card == [m[1] EXCEPT !.content = m[2].content]
  <2>1. op = Recreate(m, Winning(m).content, {VersionsOf(m)}, first)
    BY <1>4 DEF OpOf, IdentityPair
  <2>2. card.content = m[2].content
    BY RewrittenIs DEF Typed, Version
  <2>3. \A w \in first : w.over = {m[1]} /\ w.card = card
    BY PutIs
  <2>4. Winning(m).content.name = m[1].content.name /\ Winning(m).content.name = m[2].content.name
    BY <1>4 DEF Winning
  <2> HIDE DEF first, card, op
  <2>5. \A w \in first : \A c \in w.over : c.content.name = w.card.content.name
    BY <1>4, <2>2, <2>3
  <2>6. OpFits(a, b, Recreate(m, Winning(m).content, {VersionsOf(m)}, first), R)
    BY <1>4, <2>4, <2>5, RecreateFits
  <2> QED BY <2>1, <2>6 DEF op
<1> QED BY <1>2, <1>3, <1>4

\* A rewritten group keeps its name.
LEMMA CopyGroupName ==
    ASSUME NEW c, IsCard(c), IsContent(c.content), NEW aliases
    PROVE  LET op == CopyGroup(c, aliases) IN
           /\ op.kind = "CopyGroup" /\ op.uid = c.uid /\ op.delete = {}
           /\ \A w \in op.first : w.over = {c} /\ w.card.content.name = c.content.name
           /\ \A w \in op.then : w.side = "icloud" /\ w.over = {} /\ w.card.content.name = c.content.name
<1> DEFINE New(u) == IF \E x \in aliases : x[1] = u
                     THEN (CHOOSE x \in aliases : x[1] = u)[2] ELSE u
           members == {New(u) : u \in c.content.members}
           content == [c.content EXCEPT !.members = members]
           op == CopyGroup(c, aliases)
           card == [c EXCEPT !.content = content]
           new == Minted(c.uid, content, c.photo)
<1>1. op = [StateOnly("CopyGroup", c.uid, content, {<<"fastmail", c>>}) EXCEPT
            !.first = {Put("fastmail", {c}, card)},
            !.then = {Put("icloud", {}, new)}]
  BY DEF CopyGroup
<1>2. content.name = c.content.name
  <2> DEFINE x == c.content
             M == members
  <2>1. "name" \in DOMAIN x
    BY DEF IsContent
  <2> HIDE DEF x, M
  <2>2. [x EXCEPT !.members = M].name = x.name
    BY <2>1
  <2> QED BY <2>2 DEF x, M
<1> HIDE DEF content
<1>3. /\ op.kind = "CopyGroup" /\ op.uid = c.uid /\ op.delete = {}
      /\ op.first = {Put("fastmail", {c}, card)} /\ op.then = {Put("icloud", {}, new)}
  BY <1>1 DEF StateOnly
<1>4. card.content = content
  BY RewrittenIs DEF Version
<1>5. new.content = content
  BY DEF Minted
<1> HIDE DEF op, card, new
<1> QED BY <1>2, <1>3, <1>4, <1>5, PutIs DEF op

\* What a copy is.
LEMMA CopyIs ==
    ASSUME NEW s \in Side, NEW c, IsCard(c), IsContent(c.content), NEW aliases
    PROVE  LET op == CopyOf(s, c, aliases) IN
           /\ op.kind \in {"Create", "CopyGroup"} /\ op.uid = c.uid /\ op.delete = {}
           /\ \A w \in op.first : w.over = {c} /\ w.card.content.name = c.content.name
           /\ \A w \in op.then : w.side = Other(s) /\ w.over = {} /\ w.card.content.name = c.content.name
<1> DEFINE op == CopyOf(s, c, aliases)
<1>1. CASE s = "fastmail" /\ \E x \in aliases : x[1] \in c.content.members
  <2>1. op = CopyGroup(c, aliases)
    BY <1>1 DEF CopyOf
  <2> HIDE DEF op
  <2> QED BY <1>1, <2>1, CopyGroupName, OtherSides DEF op
<1>2. CASE ~ (s = "fastmail" /\ \E x \in aliases : x[1] \in c.content.members)
  <2>1. op = CreateOf(s, c)
    BY <1>2 DEF CopyOf
  <2>2. Minted(c.uid, c.content, c.photo).content = c.content
    BY DEF Minted
  <2>3. /\ op.kind = "Create" /\ op.uid = c.uid /\ op.first = {} /\ op.delete = {}
        /\ op.then = {Put(Other(s), {}, Minted(c.uid, c.content, c.photo))}
    BY <2>1, CreateIs
  <2> HIDE DEF op
  <2> QED BY <2>2, <2>3, PutIs DEF op
<1> QED BY <1>1, <1>2

\* The planned operations fit address books that are as they were seen.
LEMMA PlanFits ==
    ASSUME CardsOf(seen), failures = {}, Single(seen), NEW a, Alike(a, seen),
           \A u \in Uid : rows[u] # None => OnBoth(seen, u),
           NEW op \in CycleOps(seen)
    PROVE  OpFits(a, seen, op, Renewing(CycleOps(seen)))
<1> DEFINE U == Unsynced(seen)
           K == Known(seen)
           P == Paired(U, K)
           R == Renewing(CycleOps(seen))
<1>1. /\ Sides(U) /\ \A s \in Side : U[s] = {c \in seen[s] : rows[c.uid] = None}
      /\ \A s \in Side : \A c \in seen[s] : Typed(c)
  BY UnsyncedTyped, NobodyIsHeld DEF CardsOf
<1>2. PICK aliases : \A q \in CycleOps(seen) : From(q, P, aliases)
  BY CardsAreSane, PlannedFrom DEF PairedIn
<1>3. \A m \in Matches(P) : OpOf(m, P) \in CycleOps(seen)
  BY PlannedAll DEF PairedIn
<1> HIDE DEF U, K
<1>4. /\ Matches(P) \subseteq Candidates(U) /\ P.byUid = UidPairs(U)
      /\ \A m \in P.byContent : SameContent(m[1], m[2])
      /\ \A s \in Side : P.copied[s] \subseteq U[s] \ On(s, Matches(P))
  BY <1>1, PassesApart DEF Matches
<1>5. /\ \A m, n \in Matches(P) : m # n => {m[1].uid, m[2].uid} \cap {n[1].uid, n[2].uid} = {}
      /\ \A m \in Matches(P), s \in Side : \A c \in P.copied[s] : c.uid # m[1].uid /\ c.uid # m[2].uid
      /\ \A s, t \in Side : \A c \in P.copied[s], d \in P.copied[t] : c.uid = d.uid => s = t /\ c = d
  BY <1>1, UidsApart
<1>6. \A m \in P.byIdentity : IsMatch(m[1], m[2])
  BY PairedFields DEF Pass3, Mutual, IdentityMatches
<1>7. \A s \in Side : P.copied[s] = Copied(Left3(U), K, Contested(U), s)
  BY PairedFields
<1>8. \A s \in Side : Left3(U)[s] = U[s] \ On(s, Matches(P))
  BY <1>1, LeftOver, PairedFields DEF Matches, On
<1> HIDE DEF P
<1>9. \A m \in Matches(P) : m[1] \in U["icloud"] /\ m[2] \in U["fastmail"]
  BY <1>4 DEF Candidates
<1>10. \A m \in Matches(P) : m \in P.byUid <=> m[1].uid = m[2].uid
  BY <1>4, <1>9 DEF UidPairs, Candidates
\* A card without a row whose UID is on the other side as well is paired with
\* its namesake there.
<1>11. ASSUME NEW i \in U["icloud"], NEW f \in U["fastmail"], i.uid = f.uid
       PROVE  \E m \in Matches(P) : m[1] = i /\ m[2] = f /\ m[1].uid = m[2].uid
  <2>1. <<i, f>> \in UidPairs(U)
    BY <1>11 DEF UidPairs, Candidates
  <2>2. <<i, f>> \in Matches(P)
    BY <1>4, <2>1 DEF Matches
  <2> QED BY <1>11, <2>2
<1>12. \A s \in Side : \A c \in U[s], d \in seen[Other(s)] : c.uid = d.uid => d \in U[Other(s)]
  BY <1>1, OtherSides, SideValues
<1>13. ASSUME NEW m \in Matches(P), m \notin P.byUid
       PROVE  m[1].uid \notin Present(seen, "fastmail") /\ m[2].uid \notin Present(seen, "icloud")
  <2>1. m[1].uid # m[2].uid
    BY <1>10, <1>13
  <2>2. ASSUME NEW d \in seen["fastmail"], d.uid = m[1].uid
        PROVE  FALSE
    <3>1. d \in U["fastmail"]
      BY <1>9, <1>12, <2>2, OtherSides, SideValues
    <3>2. PICK n \in Matches(P) : n[1] = m[1] /\ n[2] = d /\ n[1].uid = n[2].uid
      BY <1>9, <1>11, <2>2, <3>1
    <3>3. n # m
      BY <2>1, <3>2
    <3> QED BY <1>5, <3>2, <3>3
  <2>3. ASSUME NEW d \in seen["icloud"], d.uid = m[2].uid
        PROVE  FALSE
    <3>1. d \in U["icloud"]
      BY <1>9, <1>12, <2>3, OtherSides, SideValues
    <3>2. PICK n \in Matches(P) : n[1] = d /\ n[2] = m[2] /\ n[1].uid = n[2].uid
      BY <1>9, <1>11, <2>3, <3>1
    <3>3. n # m
      BY <2>1, <3>2
    <3> QED BY <1>5, <3>2, <3>3
  <2> QED BY <2>2, <2>3 DEF Present
<1>14. \A s \in Side : \A c \in U[s] : c \in seen[s]
  BY <1>1
<1>15. CASE \E m \in Matches(P) : op = OpOf(m, P)
  <2>1. PICK m \in Matches(P) : op = OpOf(m, P)
    BY <1>15
  <2>2. m[1] \in seen["icloud"] /\ m[2] \in seen["fastmail"]
    BY <1>9, <1>14, SideValues
  <2>3. Typed(m[1]) /\ Typed(m[2])
    BY <1>1, <2>2, SideValues
  <2>4. m \notin P.byUid => m[1].content.name = m[2].content.name
    BY <1>4, <1>6 DEF Matches, SameContent, IsMatch, SameName
  <2>5. OpFits(a, seen, OpOf(m, P), R)
    BY <1>4, <1>10, <1>13, <2>2, <2>3, <2>4, MatchFits
  <2> QED BY <2>1, <2>5
<1>16. CASE \E s \in Side : \E c \in P.copied[s] : op = CopyOf(s, c, aliases)
  <2>1. PICK s \in Side : \E c \in P.copied[s] : op = CopyOf(s, c, aliases)
    BY <1>16
  <2>2. PICK c \in P.copied[s] : op = CopyOf(s, c, aliases)
    BY <2>1
  <2>3. c \in U[s] /\ c \in seen[s] /\ Typed(c) /\ rows[c.uid] = None
    BY <1>1, <1>4
  <2>4. /\ op.kind \in {"Create", "CopyGroup"} /\ op.uid = c.uid /\ op.delete = {}
        /\ \A w \in op.first : w.over = {c} /\ w.card.content.name = c.content.name
        /\ \A w \in op.then : w.side = Other(s) /\ w.over = {} /\ w.card.content.name = c.content.name
    BY <2>2, <2>3, CopyIs DEF Typed
  <2>5. Other(s) \in Side /\ Other(Other(s)) = s
    BY OtherSides, SideValues
  <2>6. c.uid \notin Present(seen, Other(s))
    <3> SUFFICES ASSUME NEW d \in seen[Other(s)], d.uid = c.uid PROVE FALSE
      BY DEF Present
    <3>1. d \in U[Other(s)]
      BY <1>12, <2>3
    <3>2. \E m \in Matches(P) : m[1].uid = c.uid
      <4>1. CASE s = "icloud"
        BY <1>11, <2>3, <3>1, <4>1, OtherSides
      <4>2. CASE s = "fastmail"
        BY <1>11, <2>3, <3>1, <4>2, OtherSides
      <4> QED BY <4>1, <4>2, SideValues
    <3> QED BY <1>5, <3>2
  <2>7. c.uid \in Present(seen, s) /\ \A n : c.uid \in Bearing(seen, s, n) <=> c.content.name = n
    BY <2>3, OnlyCard
  \* Whoever has the name on the other side is paired, or has a row.
  <2>8. ASSUME NEW n \in Fair(a), c.content.name = n, NEW x \in Bearing(seen, Other(s), n)
        PROVE  x \in Bearing(seen, s, n) \cup R
    <3>1. PICK d \in seen[Other(s)] : d.uid = x /\ d.content.name = n
      BY DEF Bearing, Called
    <3>2. ASSUME OnBoth(seen, x)
          PROVE  x \in Bearing(seen, s, n)
      BY <2>5, <2>8, <3>2, OtherSides, SideValues DEF Alike, OnBoth
    <3>3. CASE rows[x] # None
      <4>1. x \in Uid
        BY <1>1, <2>5, <3>1 DEF Typed
      <4> QED BY <3>2, <3>3, <4>1
    <3>4. CASE rows[x] = None
      <4>1. d \in U[Other(s)]
        BY <1>1, <2>5, <3>1, <3>4
      <4>2. d \in On(Other(s), Matches(P))
        <5> SUFFICES ASSUME d \notin On(Other(s), Matches(P)) PROVE FALSE
          OBVIOUS
        <5>1. d \in Left3(U)[Other(s)]
          BY <1>8, <2>5, <4>1
        <5>2. ~ SameName(c, d)
          BY <1>1, <1>7, <5>1, CopiedFrom
        <5> QED BY <2>8, <3>1, <5>2 DEF SameName, Named, Fair
      <4>3. PICK m \in Matches(P) : d = End(Other(s), m)
        BY <4>2 DEF On
      <4>4. d = m[1] \/ d = m[2]
        BY <4>3 DEF End
      <4>5. CASE m[1].uid = m[2].uid
        <5>1. m[1].uid = x /\ m[2].uid = x
          BY <3>1, <4>4, <4>5
        <5>2. m[1] \in seen["icloud"] /\ m[2] \in seen["fastmail"]
          BY <1>9, <1>14, SideValues
        <5>3. OnBoth(seen, x)
          BY <5>1, <5>2 DEF OnBoth, Present
        <5> QED BY <3>2, <5>3
      <4>6. CASE m[1].uid # m[2].uid
        <5> DEFINE q == OpOf(m, P)
        <5>1. q \in CycleOps(seen)
          BY <1>3
        <5>2. \/ q = Recreate(m, m[1].content, {}, {})
              \/ \E content, archive, first : q = Recreate(m, content, archive, first)
          BY <1>10, <4>6 DEF OpOf, ContentPair, IdentityPair
        <5>3. q.kind = "Recreate" /\ q.uid = m[1].uid /\ q.delete = {m[2]}
          BY <5>2, RecreateIs
        <5> HIDE DEF q
        <5>4. x \in Owns(q)
          BY <3>1, <4>4, <5>3 DEF Owns
        <5> QED BY <5>1, <5>3, <5>4 DEF Renewing
      <4> QED BY <4>5, <4>6
    <3> QED BY <3>3, <3>4
  <2> HIDE DEF R
  <2>9. Renames(a, op)
    BY <2>4 DEF Renames
  <2>10. \A w \in op.then : NewFits(a, seen, op, w)
    BY <2>4, <2>5, <2>6, <2>7 DEF NewFits
  <2>11. \A w \in op.then : CopyFits(a, seen, op, w, R)
    BY <2>4, <2>5, <2>8 DEF CopyFits
  <2>12. GoneFits(a, seen, op)
    BY <2>4 DEF GoneFits
  <2>13. OpFits(a, seen, op, R)
    BY <2>4, <2>9, <2>10, <2>11, <2>12 DEF OpFits
  <2> QED BY <2>13 DEF R
<1> QED BY <1>2, <1>15, <1>16 DEF From

(***************************************************************************)
(* Steps outside a plan.                                                   *)
(***************************************************************************)

\* Nothing is planned, and nothing will be.
LEMMA OutsideFits ==
    ASSUME NInv, began' = began, rows' = rows,
           pc' \notin OpSteps \cup {"apply"}, todo' = {},
           Single(book') \/ (book' = book /\ journal' = journal),
           BooksFit(began, book', journal', rows), Replays'
    PROVE  NInv'
<1>1. Pending' = {}
  BY DEF Pending
<1>2. OpsFit'
  BY <1>1 DEF OpsFit
<1>3. Progress'
  BY DEF Progress, OpSteps
<1>4. (began \in Books)'
  BY DEF NInv
<1>5. (Single(book) \/ Untouched)'
  BY DEF NInv, Untouched, Working
<1>6. BooksFit(began, book, journal, rows)'
  OBVIOUS
<1> QED BY <1>2, <1>3, <1>4, <1>5, <1>6 DEF NInv

\* A cycle ends.
LEMMA EndFits ==
    ASSUME NInv, EndCycle, UNCHANGED <<began, rows, journal>>,
           Single(book') \/ book' = book, BooksFit(began, book', journal, rows)
    PROVE  NInv'
<1>1. pc' = "wait" /\ todo' = {}
  BY DEF EndCycle
<1>2. Replays'
  BY <1>1 DEF Replays, Replaying
<1> QED BY <1>1, <1>2, OutsideFits DEF OpSteps

\* Where there is work or an entry, somebody has planned.
LEMMA PlannedBefore ==
    ASSUME NInv, Working \/ journal # {}
    PROVE  Single(book)
BY DEF NInv, Untouched

\* The replay of an entry knows that neither of its cards is there.
LEMMA ReplayKnows ==
    ASSUME NInv, pc = "replay", NEW j \in pending, ~ Finished(j)
    PROVE  /\ j \in journal
           /\ j.uid \notin Present(book, "fastmail") /\ j.old.uid \notin Present(book, "fastmail")
<1>1. j \in journal /\ seen["fastmail"] = book["fastmail"] /\ EntryFits(began, book, j)
  BY DEF NInv, Replays, BooksFit
<1>2. ~ Taken(book, "fastmail", j.new) /\ ~ Taken(book, "fastmail", j.old)
  BY <1>1 DEF Finished, Listed, Taken
<1> QED BY <1>1, <1>2 DEF EntryFits

\* Putting the card back fits.
LEMMA PutBackFits ==
    ASSUME AInv, NInv, pc = "replay", NEW j \in pending, ~ Finished(j),
           book' = [book EXCEPT !["fastmail"] = @ \cup {j.new}]
    PROVE  /\ BooksFit(began, book', journal, rows) /\ Single(book')
           /\ book'["fastmail"] = book["fastmail"] \cup {j.new}
           /\ \A k \in journal : k.old.uid \in Present(book', "fastmail") => k.old.uid \in Present(book, "fastmail")
<1>1. /\ j \in journal
      /\ j.uid \notin Present(book, "fastmail") /\ j.old.uid \notin Present(book, "fastmail")
  BY ReplayKnows
<1>2. /\ began \in Books /\ BooksFit(began, book, journal, rows) /\ Single(book)
      /\ \A k \in journal : EntryFits(began, book, k)
  BY <1>1, PlannedBefore DEF NInv, BooksFit
<1>3. book = [s \in Side |-> book[s]]
  BY DEF AInv, Bases, CardsOf
<1>4. book'["fastmail"] = book["fastmail"] \cup {j.new} /\ book'["icloud"] = book["icloud"]
  BY <1>3, SideValues
<1>5. Moves(book, book', "fastmail", {}, j.new)
  BY <1>4, OtherSides DEF Moves
<1>6. j.new.uid = j.uid /\ j.new.at = "minted" /\ j.uid \in Present(book, "icloud")
  BY <1>1, <1>2 DEF EntryFits
<1>7. Grown(book, book', "fastmail", j.new) /\ Single(book')
  BY <1>1, <1>2, <1>5, <1>6, AddingGrows, SideValues
<1>8. \A n \in Fair(began) : j.new.content.name = n <=> j.new.uid \in Bearing(book, "icloud", n)
  BY <1>1, <1>2, <1>6 DEF EntryFits
<1>9. \A n : j.new.content.name = n => j.new.uid \in Awaited(book, journal, n)
  BY <1>1, <1>6 DEF Awaited, Open
<1>10. BooksFit(began, book', journal, rows)
  <2>1. Other("fastmail") = "icloud" /\ "fastmail" \in Side
    BY OtherSides, SideValues
  <2> DEFINE b == book
             d == book'
             jr == journal
             card == j.new
             a == began
             t == "fastmail"
  <2>2. /\ a \in Books /\ t \in Side /\ Grown(b, d, t, card) /\ BooksFit(a, b, jr, rows) /\ card.at = "minted"
        /\ card.uid \notin Present(b, t) /\ card.uid \in Present(b, Other(t))
        /\ \A n \in Fair(a) : card.content.name = n <=> card.uid \in Bearing(b, Other(t), n)
        /\ t = "icloud" => \A k \in jr : k.old.uid \notin Present(b, "fastmail")
        /\ \A n \in Fair(a) : card.content.name = n =>
              \/ t = "fastmail" /\ card.uid \in Awaited(b, jr, n)
              \/ Bearing(b, t, n) \subseteq Bearing(b, Other(t), n)
    BY <1>1, <1>2, <1>6, <1>7, <1>8, <1>9, <2>1
  <2> HIDE DEF b, d, jr, card, a, t
  <2>3. BooksFit(a, d, jr, rows)
    BY <2>2, GrownBooksFit
  <2> QED BY <2>3 DEF b, d, jr, card, a, t
<1>11. ASSUME NEW k \in journal, k.old.uid \in Present(book', "fastmail")
       PROVE  k.old.uid \in Present(book, "fastmail")
  <2>1. k.old.uid # j.uid
    BY <1>2, <1>6 DEF EntryFits
  <2> QED BY <1>6, <1>7, <1>11, <2>1 DEF Grown
<1> QED BY <1>4, <1>7, <1>10, <1>11

\* A cycle begins.
LEMMA WakeFits ==
    ASSUME AInv, NInv, Wake
    PROVE  NInv'
<1>1. /\ pc = "wait" /\ pc' = (IF journal = {} THEN "read icloud" ELSE "list fastmail") /\ pending' = journal
      /\ UNCHANGED <<book, rows, journal, seen, todo, cur, began>>
  BY DEF Wake, store
<1>2. todo = {}
  BY <1>1, Idle DEF OpSteps
<1>3. Replays'
  BY <1>1 DEF Replays, Replaying
<1>4. BooksFit(began, book', journal', rows)
  BY <1>1 DEF NInv
<1> QED BY <1>1, <1>2, <1>3, <1>4, OutsideFits DEF OpSteps

\* A side is looked at.
LEMMA LookFits ==
    ASSUME AInv, NInv, Look
    PROVE  NInv'
<1>1. UNCHANGED <<book, rows, journal, pending, todo, cur, began>>
  BY DEF Look, store
<1>2. PICK s \in Side :
        /\ seen' = [seen EXCEPT ![s] = book[s]]
        /\ \/ pc = "list fastmail" /\ pc' = "list icloud" /\ s = "fastmail"
           \/ pc = "list icloud" /\ pc' = "replay" /\ s = "icloud"
           \/ pc = "read icloud" /\ pc' = "read fastmail" /\ s = "icloud"
           \/ pc = "read fastmail" /\ pc' = "plan" /\ s = "fastmail"
  BY LookIs
<1>3. pc \notin OpSteps \cup {"apply"} /\ pc' \notin OpSteps \cup {"apply"}
  BY <1>2 DEF OpSteps
<1>4. todo = {} /\ seen = [t \in Side |-> seen[t]]
  BY <1>3, Idle DEF AInv, Bases, CardsOf
<1>5. seen'["fastmail"] = IF s = "fastmail" THEN book["fastmail"] ELSE seen["fastmail"]
  BY <1>2, <1>4, SideValues
<1>6. Replays
  BY DEF NInv
<1>7. pc' \in {"list icloud", "replay"} => seen'["fastmail"] = book'["fastmail"]
  BY <1>1, <1>2, <1>5, <1>6 DEF Replays
<1>8. pc' \in {"list icloud", "replay"} => pending' = journal'
  BY <1>1, <1>2, <1>6 DEF Replays
<1>9. ASSUME NEW j \in journal', j.old.uid \in Present(book', "fastmail")
      PROVE  Replaying(j)'
  <2>1. pc \in {"list fastmail", "list icloud"}
    BY <1>1, <1>2, <1>6, <1>9 DEF Replays, Replaying
  <2> QED BY <1>2, <1>8, <1>9, <2>1 DEF Replaying
<1>10. Replays'
  BY <1>2, <1>7, <1>8, <1>9 DEF Replays
<1>11. BooksFit(began, book', journal', rows)
  BY <1>1 DEF NInv
<1> QED BY <1>1, <1>3, <1>4, <1>10, <1>11, OutsideFits

\* An entry that is done with.
LEMMA DropEntryFits ==
    ASSUME AInv, NInv, DropEntry
    PROVE  NInv'
<1>1. PICK j \in pending : journal' = journal \ {j} /\ pending' = pending \ {j}
  BY DEF DropEntry, NextEntry
<1>2. /\ pc = "replay" /\ UNCHANGED <<book, rows, pc, seen, todo, cur, began>>
  BY DEF DropEntry
<1>3. todo = {}
  BY <1>2, Idle DEF OpSteps
<1>4. j \in journal
  BY <1>2 DEF NInv, Replays
<1>5. Single(book')
  BY <1>2, <1>4, PlannedBefore
<1>6. Replays'
  BY <1>1, <1>2 DEF NInv, Replays, Replaying
<1>7. BooksFit(began, book', journal', rows)
  BY <1>1, <1>2, FewerEntriesFit DEF NInv
<1> QED BY <1>2, <1>3, <1>5, <1>6, <1>7, OutsideFits DEF OpSteps

\* An entry is replayed.
LEMMA ReplayPutFits ==
    ASSUME AInv, NInv, ReplayPut
    PROVE  NInv'
<1>1. PICK j \in pending :
        /\ ~ Finished(j)
        /\ book' = [book EXCEPT !["fastmail"] = @ \cup {j.new}]
        /\ seen' = [seen EXCEPT !["fastmail"] = @ \cup {j.new}]
  BY DEF ReplayPut
<1>2. /\ pc = "replay" /\ UNCHANGED <<rows, journal, pc, pending, todo, cur, began>>
  BY DEF ReplayPut, store
<1>3. /\ BooksFit(began, book', journal, rows) /\ Single(book')
      /\ book'["fastmail"] = book["fastmail"] \cup {j.new}
      /\ \A k \in journal : k.old.uid \in Present(book', "fastmail") => k.old.uid \in Present(book, "fastmail")
  BY <1>1, <1>2, PutBackFits
<1>4. todo = {} /\ seen = [t \in Side |-> seen[t]]
  BY <1>2, Idle DEF OpSteps, AInv, Bases, CardsOf
<1>5. seen'["fastmail"] = seen["fastmail"] \cup {j.new}
  BY <1>1, <1>4, SideValues
<1>6. Replays'
  BY <1>2, <1>3, <1>5 DEF NInv, Replays, Replaying
<1> QED BY <1>2, <1>3, <1>4, <1>6, OutsideFits DEF OpSteps

\* An entry whose card is refused.
LEMMA ReplayRejectedFits ==
    ASSUME AInv, NInv, ReplayRejected
    PROVE  NInv'
<1>1. PICK j \in pending : ~ Finished(j) /\ pending' = pending \ {j}
  BY DEF ReplayRejected, NextEntry
<1>2. /\ pc = "replay" /\ UNCHANGED <<book, rows, journal, pc, seen, todo, cur, began>>
  BY DEF ReplayRejected, store
<1>3. j.old.uid \notin Present(book, "fastmail")
  BY <1>1, <1>2, ReplayKnows
<1>4. todo = {}
  BY <1>2, Idle DEF OpSteps
<1>5. Replays'
  BY <1>1, <1>2, <1>3 DEF NInv, Replays, Replaying
<1>6. BooksFit(began, book', journal', rows)
  BY <1>2 DEF NInv
<1> QED BY <1>2, <1>4, <1>5, <1>6, OutsideFits DEF OpSteps

\* The replay is cut off.
LEMMA ReplayAbortedFits ==
    ASSUME AInv, NInv, ReplayAborted
    PROVE  NInv'
<1>1. pc = "replay" /\ EndCycle /\ UNCHANGED <<rows, journal, began>>
  BY DEF ReplayAborted, CutOff, store
<1>2. PICK j \in pending :
        /\ ~ Finished(j)
        /\ UNCHANGED book \/ book' = [book EXCEPT !["fastmail"] = @ \cup {j.new}]
  BY DEF ReplayAborted
<1>3. CASE UNCHANGED book
  BY <1>1, <1>3, EndFits DEF NInv
<1>4. CASE book' = [book EXCEPT !["fastmail"] = @ \cup {j.new}]
  <2>1. BooksFit(began, book', journal, rows) /\ Single(book')
    BY <1>1, <1>2, <1>4, PutBackFits
  <2> QED BY <1>1, <2>1, EndFits
<1> QED BY <1>2, <1>3, <1>4

\* The replay is over.
LEMMA ReplayedFits ==
    ASSUME AInv, NInv, Replayed
    PROVE  NInv'
<1>1. /\ pc = "replay" /\ pending = {} /\ pc' = "read icloud"
      /\ UNCHANGED <<book, rows, journal, seen, pending, todo, cur, began>>
  BY DEF Replayed, store
<1>2. todo = {}
  BY <1>1, Idle DEF OpSteps
<1>3. Replays'
  BY <1>1 DEF NInv, Replays, Replaying
<1>4. BooksFit(began, book', journal', rows)
  BY <1>1 DEF NInv
<1> QED BY <1>1, <1>2, <1>3, <1>4, OutsideFits DEF OpSteps

\* The process stops, or the cycle is over.
LEMMA CrashFits ==
    ASSUME NInv, Crash \/ Finish
    PROVE  NInv'
<1>1. EndCycle /\ UNCHANGED <<book, rows, journal, began>>
  BY DEF Crash, Finish, CutOff, store
<1> QED BY <1>1, EndFits DEF NInv

(***************************************************************************)
(* Steps of a plan.                                                        *)
(***************************************************************************)

\* A plan that records no failure has seen no two cards of a UID on a side.
LEMMA PlanFinds ==
    ASSUME Plan, failures = {}, failures' = {}
    PROVE  Single(seen)
<1> DEFINE Twins(s) == {c \in Free(seen, s) : c.uid \in Duplicated(seen)
                           /\ \E d \in Free(seen, s) : d # c /\ d.uid = c.uid}
           twins == UNION {{<<s, c>> : c \in Twins(s)} : s \in Side}
<1>1. failures' = Without(twins) \cup {Failure(k[2].uid, k[1], k[2]) : k \in twins}
  BY DEF Plan
<1>2. HeldCards(seen) = {}
  BY DEF HeldCards
<1>3. \A s \in Side : Free(seen, s) = seen[s]
  BY <1>2 DEF Free
<1>4. ASSUME NEW s \in Side, NEW c \in seen[s], NEW d \in seen[s], c.uid = d.uid, c # d
      PROVE  FALSE
  <2>1. c.uid \in {e.uid : e \in {e \in Free(seen, s) : \E f \in Free(seen, s) : f # e /\ f.uid = e.uid}}
    BY <1>3, <1>4
  <2>2. c.uid \in Duplicated(seen)
    BY <2>1 DEF Duplicated
  <2>3. c \in Twins(s)
    BY <1>3, <1>4, <2>2
  <2> HIDE DEF Twins
  <2>4. <<s, c>> \in twins
    BY <2>3
  <2> HIDE DEF twins
  <2>5. {Failure(k[2].uid, k[1], k[2]) : k \in twins} # {}
    BY <2>4
  <2> QED BY <1>1, <2>5
<1> QED BY <1>4 DEF Single

\* A cycle plans.
LEMMA PlanFitsNext ==
    ASSUME AInv, NInv, Smooth, Smooth', Plan
    PROVE  NInv'
<1>1. /\ pc = "plan" /\ pc' = "apply" /\ todo' = CycleOps(seen)
      /\ UNCHANGED <<book, rows, journal, seen, pending, cur, began>>
  BY DEF Plan
<1>2. seen = book /\ CardsOf(seen)
  BY <1>1 DEF AInv, Bases, Fresh, Reads, Smooth
<1>3. Single(seen)
  BY PlanFinds DEF Smooth
<1>4. Pending' = CycleOps(seen)
  BY <1>1 DEF Pending, OpSteps
<1>5. BooksFit(began, book, journal, rows)
  BY DEF NInv
<1>6. Alike(began, seen) /\ \A u \in Uid : rows[u] # None => OnBoth(seen, u)
  BY <1>2, <1>5 DEF BooksFit
<1>7. \A op \in CycleOps(seen) : OpFits(began, seen, op, Renewing(CycleOps(seen)))
  BY <1>2, <1>3, <1>6, PlanFits DEF Smooth
<1>8. \A op \in CycleOps(seen) : OpSane(op)
  BY <1>2, CardsAreSane, PlannedSane
<1>9. OpsFit'
  <2> DEFINE ops == CycleOps(seen)
  <2>1. /\ Pending' = ops /\ began' = began /\ book' = seen
        /\ \A op \in ops : OpSane(op) /\ OpFits(began, seen, op, Renewing(ops))
    BY <1>1, <1>2, <1>4, <1>7, <1>8
  <2> HIDE DEF ops
  <2> QED BY <2>1 DEF OpsFit
<1>10. Progress'
  BY <1>1 DEF Progress, OpSteps
<1>11. Replays'
  BY <1>1 DEF NInv, Replays, Replaying
<1>12. BooksFit(began, book, journal, rows)'
  BY <1>1, <1>5
<1>13. Single(book') /\ began' \in Books
  BY <1>1, <1>2, <1>3 DEF NInv
<1> QED BY <1>9, <1>10, <1>11, <1>12, <1>13 DEF NInv

\* What the current operation and the books have to do with each other.
LEMMA Running ==
    ASSUME AInv, NInv, pc \in OpSteps
    PROVE  /\ Single(book) /\ began \in Books /\ BooksFit(began, book, journal, rows)
           /\ OpSane(cur) /\ OpOwn(cur) /\ OpCounts(cur)
           /\ pc # "save" => OpFits(began, book, cur, Renewing(Pending))
           /\ \A op \in todo : /\ OpFits(began, book, op, Renewing(Pending)) /\ OpSane(op) /\ OpOwn(op)
                               /\ Owns(op) \cap Owns(cur) = {}
           /\ \A op \in Pending : \A w \in op.then : w.side \in Side
           /\ \A k \in journal : k.old.uid \in Present(book, "fastmail") => pc = "delete" /\ k \in cur.journal
<1>1. /\ cur \in Pending /\ Pending = todo \cup {cur} /\ cur \notin todo
      /\ OpOwn(cur) /\ OpCounts(cur)
      /\ \A op \in todo : OpOwn(op) /\ About(op) \cap About(cur) = {}
  BY CurOwn
<1>2. \A op \in Pending : OpOwn(op)
  BY <1>1
<1>3. ASSUME NEW op, OpOwn(op)
      PROVE  Owns(op) \subseteq About(op) /\ \A w \in op.then : w.side \in Side
  <2>1. \A c \in op.delete : <<"fastmail", c>> \in op.cards
    BY <1>3 DEF OpOwn
  <2>2. \A c \in op.delete : c.uid \in About(op)
    <3> TAKE c \in op.delete
    <3> DEFINE k == <<"fastmail", c>>
    <3>1. k \in op.cards /\ k[2] = c
      BY <2>1
    <3> HIDE DEF k
    <3> QED BY <3>1 DEF About
  <2>3. op.uid \in About(op) /\ \A w \in op.then : w.side \in Side
    BY <1>3 DEF OpOwn, PutOf
  <2> QED BY <2>2, <2>3 DEF Owns
<1>4. Working
  BY DEF Working
<1>5. Single(book)
  BY <1>4, PlannedBefore
<1>6. ~ (pc \in {"wait", "list fastmail", "list icloud", "replay"})
  BY DEF OpSteps
<1>7. \A k \in journal : k.old.uid \in Present(book, "fastmail") => pc = "delete" /\ k \in cur.journal
  BY <1>6 DEF NInv, Replays, Replaying
<1>8. \A op \in Pending : OpSane(op) /\ (OpFits(began, book, op, Renewing(Pending)) \/ (op = cur /\ pc = "save"))
  BY DEF NInv, OpsFit
<1>9. \A op \in todo : OpFits(began, book, op, Renewing(Pending)) /\ OpSane(op)
  BY <1>1, <1>8
<1>10. OpSane(cur) /\ (pc # "save" => OpFits(began, book, cur, Renewing(Pending)))
  BY <1>1, <1>8
<1>11. \A op \in todo : Owns(op) \cap Owns(cur) = {}
  BY <1>1, <1>3
<1>12. \A op \in Pending : \A w \in op.then : w.side \in Side
  BY <1>2, <1>3
<1>13. began \in Books /\ BooksFit(began, book, journal, rows)
  BY DEF NInv
<1> QED BY <1>1, <1>5, <1>7, <1>9, <1>10, <1>11, <1>12, <1>13

\* One step of the current operation.
LEMMA StepFits ==
    ASSUME NInv, pc \in OpSteps, pc' \in OpSteps, UNCHANGED <<todo, cur, rows, began>>,
           Single(book'), BooksFit(began, book', journal', rows), Progress',
           \A k \in journal' : k.old.uid \in Present(book', "fastmail") => pc' = "delete" /\ k \in cur.journal,
           \A op \in todo : OpFits(began, book', op, Renewing(Pending)),
           pc' # "save" => OpFits(began, book', cur, Renewing(Pending))
    PROVE  NInv'
<1>1. Pending = todo \cup {cur} /\ Pending' = Pending
  BY DEF Pending
<1>2. OpsFit'
  <2> DEFINE R == Renewing(Pending)
  <2>1. /\ \A op \in todo : OpFits(began, book', op, R)
        /\ pc' # "save" => OpFits(began, book', cur, R)
        /\ \A op \in Pending : OpSane(op)
    BY DEF NInv, OpsFit
  <2>2. R = Renewing(Pending')
    BY <1>1
  <2> HIDE DEF R
  <2>3. \A op \in Pending' : OpSane(op) /\ (OpFits(began, book', op, R) \/ (op = cur' /\ pc' = "save"))
    BY <1>1, <2>1
  <2> QED BY <2>2, <2>3 DEF OpsFit
<1>3. Replays'
  BY DEF Replays, OpSteps
<1>4. BooksFit(began, book, journal, rows)'
  OBVIOUS
<1> QED BY <1>2, <1>3, <1>4 DEF NInv

\* An operation without a last PUT adopts.
LEMMA NothingToPut ==
    ASSUME NEW op, OpCounts(op), op.then = {}
    PROVE  op.kind = "Adopt"
BY DEF OpCounts

\* How far an operation is once it has started, or has journaled.
LEMMA EarlyProgress ==
    ASSUME NEW op, NEW k \in 1 .. 4, pc' = StepOf(op, k), cur' = op, OpCounts(op),
           NEW R, OpFits(began', book', op, R),
           Copies(op) => \A p \in todo' : p.kind # "Recreate",
           k = 4 => op.journal \subseteq journal'
    PROVE  Progress' /\ pc' \in OpSteps
<1>1. LET s == StepOf(op, k) IN
      /\ s \in OpSteps
      /\ k <= 3 /\ s \in {"delete", "then", "save"} => op.journal = {}
      /\ s \in {"then", "save"} => op.delete = {}
      /\ s = "save" => op.then = {}
  BY StepFacts
<1>2. pc' \in {"delete", "then", "save"} => op.journal \subseteq journal'
  BY <1>1
<1>3. pc' = "save" => OnBoth(book', op.uid)
  BY <1>1, NothingToPut DEF OpFits
<1>4. GoneFits(began', book', op)
  BY DEF OpFits
<1> QED BY <1>1, <1>2, <1>3, <1>4 DEF Progress

\* An operation starts: pairs first.
LEMMA StartOpFits ==
    ASSUME AInv, NInv, StartOp
    PROVE  NInv'
<1>1. PICK op \in todo : /\ \A q \in todo : Rank(op) <= Rank(q)
                         /\ todo' = todo \ {op} /\ cur' = op /\ pc' = StepOf(op, 1)
  BY DEF StartOp
<1>2. pc = "apply" /\ UNCHANGED <<book, rows, journal, seen, pending, began>>
  BY DEF StartOp, store
<1>3. pc' \in OpSteps
  BY <1>1, StepFacts
<1>4. Pending = todo /\ Pending' = todo
  BY <1>1, <1>2, <1>3 DEF Pending, OpSteps
<1>5. \A q \in todo : OpSane(q) /\ OpFits(began, book, q, Renewing(todo))
  BY <1>2, <1>4 DEF NInv, OpsFit
<1>6. OpCounts(op)
  BY <1>4 DEF AInv, Bases, Planned
<1>7. ASSUME Copies(op), NEW p \in todo'
      PROVE  p.kind # "Recreate"
  <2>1. p \in todo /\ Rank(op) <= Rank(p)
    BY <1>1
  <2>2. Rank(op) = 4
    BY <1>7 DEF Rank, Copies
  <2>3. ASSUME p.kind = "Recreate"
        PROVE  Rank(p) \in {2, 3}
    BY <2>3 DEF Rank
  <2> QED BY <2>1, <2>2, <2>3
<1>8. Progress'
  BY <1>1, <1>2, <1>5, <1>6, <1>7, EarlyProgress
<1>9. OpsFit'
  <2> DEFINE R == Renewing(todo)
  <2>1. R = Renewing(Pending') /\ \A q \in Pending' : OpSane(q) /\ OpFits(began, book, q, R)
    BY <1>4, <1>5
  <2> HIDE DEF R
  <2> QED BY <1>2, <2>1 DEF OpsFit
<1>10. Working
  BY <1>2 DEF Working
<1>11. Single(book)
  BY <1>10, PlannedBefore
<1>12. Replays'
  BY <1>2, <1>3 DEF NInv, Replays, Replaying, OpSteps
<1>13. BooksFit(began, book, journal, rows)' /\ began' \in Books
  BY <1>2 DEF NInv
<1> QED BY <1>2, <1>8, <1>9, <1>11, <1>12, <1>13 DEF NInv

\* Versions go to the history.
LEMMA ArchiveFits ==
    ASSUME AInv, NInv, Archive
    PROVE  NInv'
<1>1. pc = "archive" /\ UNCHANGED <<book, rows, journal, todo, cur, began>>
  BY DEF Archive
<1>2. pc' = StepOf(cur, 2)
  BY <1>1, ContinueMeans, OrderIs DEF Archive
<1>3. pc \in OpSteps
  BY <1>1 DEF OpSteps
<1>4. /\ Single(book) /\ BooksFit(began, book, journal, rows)
      /\ OpCounts(cur) /\ OpFits(began, book, cur, Renewing(Pending))
      /\ \A op \in todo : OpFits(began, book, op, Renewing(Pending))
      /\ \A k \in journal : k.old.uid \notin Present(book, "fastmail")
  BY <1>1, <1>3, Running
<1>5. Copies(cur) => \A p \in todo : p.kind # "Recreate"
  BY <1>3 DEF NInv, Progress
<1>6. Progress' /\ pc' \in OpSteps
  BY <1>1, <1>2, <1>4, <1>5, EarlyProgress
<1>7. book' = book /\ journal' = journal
  BY <1>1
<1> QED BY <1>1, <1>3, <1>4, <1>6, <1>7, StepFits

\* An entry is written.
LEMMA JournalFits ==
    ASSUME AInv, NInv, Smooth, Journal
    PROVE  NInv'
<1>1. /\ pc = "journal" /\ journal' = {j \in journal : j.uid # cur.uid} \cup cur.journal
      /\ UNCHANGED <<book, rows, todo, cur, began>>
  BY DEF Journal
<1>2. pc' = StepOf(cur, 4)
  BY <1>1, ContinueMeans, OrderIs DEF Journal
<1>3. pc \in OpSteps
  BY <1>1 DEF OpSteps
<1>4. /\ Single(book) /\ began \in Books /\ BooksFit(began, book, journal, rows)
      /\ OpSane(cur) /\ OpCounts(cur) /\ OpFits(began, book, cur, Renewing(Pending))
      /\ \A op \in todo : OpFits(began, book, op, Renewing(Pending))
      /\ \A k \in journal : k.old.uid \notin Present(book, "fastmail")
  BY <1>1, <1>3, Running
<1>5. Copies(cur) => \A p \in todo : p.kind # "Recreate"
  BY <1>3 DEF NInv, Progress
<1>6. Progress' /\ pc' \in OpSteps
  BY <1>1, <1>2, <1>4, <1>5, EarlyProgress
<1> DEFINE k == {j \in journal : j.uid # cur.uid}
<1>7. CASE cur.kind = "Recreate"
  <2>1. PICK j : Renews(cur, j)
    BY <1>4, <1>7 DEF OpSane
  <2>2. /\ cur.journal = {j} /\ cur.delete = {j.old} /\ cur.then = {Put("fastmail", {}, j.new)}
        /\ j.uid = cur.uid
    BY <2>1 DEF Renews
  <2> DEFINE w == Put("fastmail", {}, j.new)
  <2>3. w \in cur.then /\ w.side = "fastmail" /\ w.over = {} /\ w.card = j.new
    BY <2>2, PutIs
  <2> HIDE DEF w
  <2>4. NewFits(began, book, cur, w) /\ PutSane(cur, w)
    BY <1>4, <2>3 DEF OpFits, OpSane
  <2>5. /\ cur.uid \notin Present(book, "fastmail") /\ cur.uid \in Present(book, "icloud")
        /\ \A n \in Fair(began) : j.new.content.name = n <=> cur.uid \in Bearing(book, "icloud", n)
    BY <2>3, <2>4, OtherSides DEF NewFits
  <2>6. j.new.uid = cur.uid /\ j.new.at = "minted"
    BY <2>3, <2>4 DEF PutSane
  <2>7. j.old.uid \notin Present(book, "icloud")
    BY <1>4, <2>2 DEF OpFits, GoneFits
  <2>8. j.old \in book["fastmail"]
    BY <1>1, <2>2 DEF AInv, Deleted, Smooth
  <2>9. j.old.uid \in Present(book, "fastmail") /\ Taken(book, "fastmail", j.old)
    BY <2>8, HrefsEqual DEF Present, Taken
  <2>10. EntryFits(began, book, j)
    BY <2>2, <2>5, <2>6, <2>7, <2>9 DEF EntryFits
  <2>11. journal' = k \cup {j} /\ k \subseteq journal
    BY <1>1, <2>2
  <2>12. BooksFit(began, book, k \cup {j}, rows)
    BY <1>4, <2>9, <2>10, <2>11, JournaledBooksFit
  <2>13. pc' = "delete"
    <3>1. LET s == StepOf(cur, 4) IN
          /\ s \in {"delete", "then", "save"}
          /\ s \in {"then", "save"} => cur.delete = {}
      BY StepFacts
    <3> QED BY <1>2, <2>2, <3>1
  <2> HIDE DEF k
  <2>14. BooksFit(began, book', journal', rows)
    BY <1>1, <2>11, <2>12
  <2>15. \A x \in journal' : x.old.uid \in Present(book', "fastmail") => pc' = "delete" /\ x \in cur.journal
    BY <1>1, <1>4, <2>2, <2>11, <2>13
  <2> QED BY <1>1, <1>3, <1>4, <1>6, <2>14, <2>15, StepFits
<1>8. CASE cur.kind # "Recreate"
  <2>1. cur.journal = {}
    BY <1>4, <1>8 DEF OpSane
  <2>2. journal' \subseteq journal
    BY <1>1, <2>1
  <2>3. BooksFit(began, book', journal', rows)
    BY <1>1, <1>4, <2>2, FewerEntriesFit
  <2>4. \A x \in journal' : x.old.uid \in Present(book', "fastmail") => pc' = "delete" /\ x \in cur.journal
    BY <1>1, <1>4, <2>2
  <2> QED BY <1>1, <1>3, <1>4, <1>6, <2>3, <2>4, StepFits
<1> QED BY <1>7, <1>8

(***************************************************************************)
(* Writing the cards of an operation.                                      *)
(***************************************************************************)

\* A card that is rewritten keeps its place and its name.
LEMMA RewriteFits ==
    ASSUME AInv, NInv, pc \in {"first", "then"}, NEW w \in cur[pc], w.over # {}, Accepts(w), Served(w)
    PROVE  SameBooks(began, book, book') /\ Single(book')
<1>1. pc \in OpSteps /\ pc # "save" /\ w \in cur.first \cup cur.then
  BY DEF OpSteps
<1>2. PutOf(cur, w) /\ CardsOf(book)
  BY PutStep DEF AInv, Bases
<1>3. PICK c \in w.over : w.over = {c} /\ SameHref(c, w.card)
  BY <1>2 DEF PutOf
<1>4. w.side \in Side /\ c \in book[w.side]
  BY <1>2, <1>3 DEF Accepts, PutOf
<1>5. Single(book) /\ OpFits(began, book, cur, Renewing(Pending))
  BY <1>1, Running
<1>6. /\ book'[w.side] = (book[w.side] \ w.over) \cup {w.card}
      /\ \A t \in Side \ {w.side} : book'[t] = book[t]
  BY <1>2, ServedCards
<1>7. Other(w.side) \in Side \ {w.side}
  BY <1>4, OtherSides, SideValues
<1>8. Moves(book, book', w.side, {c}, w.card)
  BY <1>3, <1>6, <1>7 DEF Moves
<1>9. \A n \in Fair(began) : c.content.name = n <=> w.card.content.name = n
  BY <1>1, <1>3, <1>5 DEF OpFits, Renames
<1> DEFINE a == began
           b == book
           d == book'
           t == w.side
           card == w.card
<1>10. /\ t \in Side /\ c \in b[t] /\ Moves(b, d, t, {c}, card) /\ SameHref(c, card) /\ Single(b)
       /\ \A n \in Fair(a) : c.content.name = n <=> card.content.name = n
  BY <1>3, <1>4, <1>5, <1>8, <1>9
<1> HIDE DEF a, b, d, t, card
<1>11. SameBooks(a, b, d) /\ Single(d)
  BY <1>10, RewritingIsSame
<1> QED BY <1>11 DEF a, b, d

\* A card is created where its name has a place left.
LEMMA CreateFits ==
    ASSUME AInv, NInv, pc \in {"first", "then"}, NEW w \in cur[pc], w.over = {}, Accepts(w), Served(w)
    PROVE  /\ pc = "then" /\ w.card.uid = cur.uid /\ w.side \in Side
           /\ Grown(book, book', w.side, w.card) /\ Single(book')
           /\ BooksFit(began, book', journal, rows)
           /\ NewFits(began, book, cur, w)
           /\ IF cur.kind = "Recreate" THEN w.side = "fastmail" ELSE cur.delete = {}
<1>1. pc \in OpSteps /\ pc # "save" /\ w \in cur.first \cup cur.then
  BY DEF OpSteps
<1>2. PutOf(cur, w) /\ CardsOf(book)
  BY PutStep DEF AInv, Bases
<1>3. /\ Single(book) /\ began \in Books /\ BooksFit(began, book, journal, rows)
      /\ OpSane(cur) /\ OpCounts(cur)
      /\ OpFits(began, book, cur, Renewing(Pending))
      /\ \A k \in journal : k.old.uid \in Present(book, "fastmail") => pc = "delete" /\ k \in cur.journal
  BY <1>1, Running
<1>4. pc = "then" /\ w \in cur.then
  BY <1>3 DEF OpSane
<1>5. w.side \in Side /\ w.card.uid = cur.uid /\ w.card.at = "minted"
  BY <1>1, <1>2, <1>3 DEF PutOf, OpSane, PutSane
<1>6. NewFits(began, book, cur, w) /\ CopyFits(began, book, cur, w, Renewing(Pending))
  BY <1>3, <1>4 DEF OpFits
<1>7. Moves(book, book', w.side, {}, w.card)
  <2>1. /\ book'[w.side] = (book[w.side] \ w.over) \cup {w.card}
        /\ \A t \in Side \ {w.side} : book'[t] = book[t]
    BY <1>2, ServedCards
  <2>2. Other(w.side) \in Side \ {w.side}
    BY <1>5, OtherSides, SideValues
  <2> QED BY <2>1, <2>2 DEF Moves
<1>8. w.card.uid \notin Present(book, w.side) /\ w.card.uid \in Present(book, Other(w.side))
  BY <1>5, <1>6 DEF NewFits
<1>9. \A n \in Fair(began) : w.card.content.name = n <=> w.card.uid \in Bearing(book, Other(w.side), n)
  BY <1>5, <1>6 DEF NewFits
<1>10. \A k \in journal : k.old.uid \notin Present(book, "fastmail")
  BY <1>3, <1>4
<1>11. /\ IF cur.kind = "Recreate" THEN w.side = "fastmail" ELSE cur.delete = {}
       /\ \A n \in Fair(began) : w.card.content.name = n =>
            \/ w.side = "fastmail" /\ w.card.uid \in Awaited(book, journal, n)
            \/ Bearing(book, w.side, n) \subseteq Bearing(book, Other(w.side), n)
  <2>1. CASE cur.kind = "Recreate"
    <3>1. PICK j : Renews(cur, j)
      BY <1>3, <2>1 DEF OpSane
    <3>2. /\ j \in cur.journal /\ j.old \in cur.delete /\ w = Put("fastmail", {}, j.new) /\ j.uid = cur.uid
      BY <1>4, <3>1 DEF Renews
    <3>3. w.side = "fastmail" /\ w.card = j.new
      BY <3>2, PutIs
    <3>4. j \in journal /\ j.old.uid \notin Present(book, "fastmail")
      BY <1>4, <3>2 DEF NInv, Progress
    <3>5. j \in Open(book, journal)
      BY <1>5, <1>8, <3>2, <3>3, <3>4 DEF Open
    <3>6. \A n : w.card.content.name = n => w.card.uid \in Awaited(book, journal, n)
      BY <1>5, <3>2, <3>3, <3>5 DEF Awaited
    <3> QED BY <2>1, <3>3, <3>6
  <2>2. CASE cur.kind # "Recreate"
    <3>1. Copies(cur) /\ cur.delete = {}
      BY <1>3, <1>4, <2>2 DEF OpCounts, Copies
    <3>2. \A p \in todo : p.kind # "Recreate"
      BY <1>1, <3>1 DEF NInv, Progress
    <3>3. Renewing(Pending) = {}
      BY <2>2, <3>2 DEF Renewing, Pending
    <3>4. \A n \in Fair(began) : w.card.content.name = n =>
             Bearing(book, w.side, n) \subseteq Bearing(book, Other(w.side), n)
      BY <1>6, <3>1, <3>3 DEF CopyFits
    <3> QED BY <2>2, <3>1, <3>4
  <2> QED BY <2>1, <2>2
<1> DEFINE a == began
           b == book
           d == book'
           jr == journal
           t == w.side
           card == w.card
<1>12. /\ a \in Books /\ t \in Side /\ BooksFit(a, b, jr, rows) /\ card.at = "minted" /\ Single(b)
       /\ Moves(b, d, t, {}, card)
       /\ card.uid \notin Present(b, t) /\ card.uid \in Present(b, Other(t))
       /\ \A n \in Fair(a) : card.content.name = n <=> card.uid \in Bearing(b, Other(t), n)
       /\ t = "icloud" => \A k \in jr : k.old.uid \notin Present(b, "fastmail")
       /\ \A n \in Fair(a) : card.content.name = n =>
              \/ t = "fastmail" /\ card.uid \in Awaited(b, jr, n)
              \/ Bearing(b, t, n) \subseteq Bearing(b, Other(t), n)
  BY <1>3, <1>5, <1>7, <1>8, <1>9, <1>10, <1>11
<1> HIDE DEF a, b, d, jr, t, card
<1>13. Grown(b, d, t, card) /\ Single(d)
  BY <1>12, AddingGrows
<1>14. BooksFit(a, d, jr, rows)
  BY <1>12, <1>13, GrownBooksFit
<1>15. /\ Grown(book, book', w.side, w.card) /\ Single(book')
       /\ BooksFit(began, book', journal, rows)
  BY <1>13, <1>14 DEF a, b, d, jr, t, card
<1> QED BY <1>4, <1>5, <1>6, <1>11, <1>15

\* A card is written.
LEMMA RunPutFits ==
    ASSUME AInv, NInv, RunPut
    PROVE  NInv'
<1>1. /\ pc \in {"first", "then"} /\ Continue
      /\ UNCHANGED <<rows, journal, todo, cur, began>>
  BY DEF RunPut, store
<1>2. PICK w \in cur[pc] : Accepts(w) /\ Served(w)
  BY DEF RunPut
<1>3. pc \in OpSteps /\ pc # "save"
  BY <1>1 DEF OpSteps
<1>4. /\ Single(book) /\ BooksFit(began, book, journal, rows)
      /\ OpOwn(cur) /\ OpCounts(cur) /\ OpFits(began, book, cur, Renewing(Pending))
      /\ \A op \in todo : OpFits(began, book, op, Renewing(Pending)) /\ Owns(op) \cap Owns(cur) = {}
      /\ cur \in Pending /\ todo \subseteq Pending
      /\ \A op \in Pending : \A v \in op.then : v.side \in Side
      /\ \A k \in journal : k.old.uid \notin Present(book, "fastmail")
  BY <1>1, <1>3, Running, CurOwn
<1>5. /\ Copies(cur) => \A p \in todo : p.kind # "Recreate"
      /\ pc = "then" => cur.journal \subseteq journal
      /\ pc = "then" => \A c \in cur.delete : c.uid \notin Present(book, "fastmail")
  BY <1>3 DEF NInv, Progress
<1>6. pc = "first" => pc' = StepOf(cur, 3)
  BY <1>1, ContinueMeans, OrderIs
<1>7. pc = "then" => pc' = "save"
  <2>1. pc = "then" => pc' = StepOf(cur, 6)
    BY <1>1, ContinueMeans, OrderIs
  <2>2. StepOf(cur, 6) = "save"
    BY StepFacts
  <2> QED BY <2>1, <2>2
<1>8. CASE w.over # {}
  <2>1. SameBooks(began, book, book') /\ Single(book')
    BY <1>1, <1>2, <1>8, RewriteFits
  <2> DEFINE R == Renewing(Pending)
             a == began
             d == book'
  <2>2. \A s \in Side : Present(d, s) = Present(book, s)
    BY <2>1 DEF SameBooks
  <2>3. BooksFit(a, d, journal, rows)
    BY <1>4, <2>1, SameBooksFit
  <2>4. \A op \in Pending : OpFits(a, book, op, R) => OpFits(a, d, op, R)
    BY <1>4, <2>1, SameBooksOp
  <2>5. /\ \A op \in todo : OpFits(a, d, op, R)
        /\ OpFits(a, d, cur, R)
    BY <1>4, <2>4
  <2>6. Progress' /\ pc' \in OpSteps
    <3>1. CASE pc = "first"
      <4>1. OpFits(began', book', cur, R)
        BY <1>1, <2>5
      <4> QED BY <1>1, <1>4, <1>5, <1>6, <3>1, <4>1, EarlyProgress
    <3>2. CASE pc = "then"
      <4>1. cur.kind = "Conflict"
        BY <1>2, <1>4, <1>8, <3>2 DEF OpCounts
      <4>2. OnBoth(d, cur.uid) /\ GoneFits(a, d, cur)
        BY <2>5, <4>1 DEF OpFits
      <4> QED BY <1>1, <1>3, <1>5, <1>7, <2>2, <3>2, <4>2, SideValues DEF Progress, OpSteps
    <3> QED BY <1>1, <3>1, <3>2
  <2>7. \A k \in journal' : k.old.uid \in Present(book', "fastmail") => pc' = "delete" /\ k \in cur.journal
    BY <1>1, <1>4, <2>2, SideValues
  <2>8. BooksFit(began, book', journal', rows)
    BY <1>1, <2>3
  <2> QED BY <1>1, <1>3, <2>1, <2>5, <2>6, <2>7, <2>8, StepFits
<1>9. CASE w.over = {}
  <2>1. /\ pc = "then" /\ w.card.uid = cur.uid /\ w.side \in Side
        /\ Grown(book, book', w.side, w.card) /\ Single(book')
        /\ BooksFit(began, book', journal, rows)
        /\ NewFits(began, book, cur, w)
        /\ IF cur.kind = "Recreate" THEN w.side = "fastmail" ELSE cur.delete = {}
    BY <1>1, <1>2, <1>9, CreateFits
  <2> DEFINE R == Renewing(Pending)
             a == began
             b == book
             d == book'
             t == w.side
             card == w.card
  <2>2. /\ Grown(b, d, t, card) /\ t \in Side /\ card.uid = cur.uid
        /\ card.uid \notin Present(b, t) /\ card.uid \in Present(b, Other(t))
        /\ \A n \in Fair(a) : card.content.name = n <=> card.uid \in Bearing(b, Other(t), n)
    BY <2>1 DEF NewFits
  <2>3. ASSUME NEW op \in todo
        PROVE  OpFits(a, d, op, R)
    <3>1. OpFits(a, b, op, R) /\ \A v \in op.then : v.side \in Side
      BY <1>4
    <3>2. card.uid \notin Owns(op)
      BY <1>4, <2>2 DEF Owns
    <3> HIDE DEF a, b, d, t, card, R
    <3> QED BY <2>2, <3>1, <3>2, GrownBooksOp
  <2>4. /\ Present(d, t) = Present(b, t) \cup {cur.uid}
        /\ Present(d, Other(t)) = Present(b, Other(t))
        /\ \A n : Bearing(d, Other(t), n) = Bearing(b, Other(t), n)
    BY <2>2 DEF Grown
  <2>5. OnBoth(d, cur.uid)
    BY <2>2, <2>4, OtherSides, SideValues DEF OnBoth
  <2>6. GoneFits(a, d, cur)
    <3>1. CASE cur.kind = "Recreate"
      <4>1. /\ Present(d, "icloud") = Present(b, "icloud")
            /\ \A n : Bearing(d, "icloud", n) = Bearing(b, "icloud", n)
        BY <2>1, <2>4, <3>1, OtherSides
      <4> QED BY <1>4, <4>1 DEF OpFits, GoneFits
    <3>2. CASE cur.kind # "Recreate"
      BY <2>1, <3>2 DEF GoneFits
    <3> QED BY <3>1, <3>2
  <2>7. \A u : u \in Present(d, "fastmail") => u \in Present(b, "fastmail") \/ u = cur.uid
    BY <2>2, <2>4, OtherSides, SideValues
  <2>8. \A c \in cur.delete : c.uid \notin Present(d, "fastmail")
    BY <1>4, <1>5, <2>1, <2>7 DEF OpOwn
  <2>9. \A k \in journal : k.old.uid \notin Present(d, "fastmail")
    <3> SUFFICES ASSUME NEW k \in journal, k.old.uid \in Present(d, "fastmail")
                 PROVE  FALSE
      OBVIOUS
    <3>1. k.old.uid \notin Present(b, "fastmail") /\ EntryFits(a, b, k)
      BY <1>4 DEF BooksFit
    <3>2. k.old.uid = cur.uid /\ k.old.uid \notin Present(b, "icloud")
      BY <2>7, <3>1 DEF EntryFits
    <3>3. t = "fastmail"
      BY <2>2, <2>4, <3>1, <3>2, OtherSides, SideValues
    <3> QED BY <2>2, <3>2, <3>3, OtherSides
  <2>10. Progress' /\ pc' \in OpSteps
    BY <1>1, <1>3, <1>5, <1>7, <2>1, <2>5, <2>6, <2>8 DEF Progress, OpSteps
  <2>11. \A k \in journal' : k.old.uid \in Present(book', "fastmail") => pc' = "delete" /\ k \in cur.journal
    BY <1>1, <2>9
  <2>12. BooksFit(began, book', journal', rows)
    BY <1>1, <2>1
  <2> QED BY <1>1, <1>3, <1>7, <2>1, <2>3, <2>10, <2>11, <2>12, StepFits
<1> QED BY <1>8, <1>9

\* A deleted card leaves its name to the entry.
LEMMA DeleteFits ==
    ASSUME AInv, NInv, Smooth, pc = "delete", cur.kind = "Recreate",
           book' = [book EXCEPT !["fastmail"] = @ \ cur.delete]
    PROVE  \E v : /\ cur.delete = {v}
                  /\ v.uid \notin Present(book, "icloud") /\ v.uid # cur.uid
                  /\ Shrunk(book, book', v) /\ Single(book')
                  /\ BooksFit(began, book', journal, rows)
<1>1. pc \in OpSteps /\ pc # "save"
  BY DEF OpSteps
<1>2. /\ Single(book) /\ began \in Books /\ BooksFit(began, book, journal, rows)
      /\ OpSane(cur) /\ OpFits(began, book, cur, Renewing(Pending))
      /\ \A k \in journal : k.old.uid \in Present(book, "fastmail") => k \in cur.journal
  BY <1>1, Running
<1>3. PICK j : Renews(cur, j)
  BY <1>2 DEF OpSane
<1>4. /\ cur.journal = {j} /\ cur.delete = {j.old} /\ cur.then = {Put("fastmail", {}, j.new)}
      /\ j.old.uid # cur.uid
  BY <1>3 DEF Renews
<1> DEFINE v == j.old
<1>5. v \in book["fastmail"] /\ v.uid \notin Present(book, "icloud")
  BY <1>2, <1>4 DEF AInv, Deleted, Smooth, OpFits, GoneFits
<1>6. book' = [book EXCEPT !["fastmail"] = book["fastmail"] \ {v}]
  BY <1>4
<1>7. book'["fastmail"] = book["fastmail"] \ {v} /\ book'["icloud"] = book["icloud"]
  BY <1>6, SideValues DEF AInv, Bases, CardsOf
<1>8. j \in journal /\ \A k \in journal : k.old.uid \in Present(book, "fastmail") => k = j
  BY <1>1, <1>2, <1>4 DEF NInv, Progress
<1>9. ASSUME NEW n \in Fair(began), j.new.content.name = n
      PROVE  v.uid \in Bearing(book, "fastmail", n)
  <2> DEFINE w == Put("fastmail", {}, j.new)
  <2>1. w \in cur.then /\ w.side = "fastmail" /\ w.over = {} /\ w.card = j.new
    BY <1>4, PutIs
  <2> HIDE DEF w
  <2>2. NewFits(began, book, cur, w)
    BY <1>2, <2>1 DEF OpFits
  <2>3. cur.uid \in Bearing(book, "icloud", n)
    BY <1>9, <2>1, <2>2, OtherSides DEF NewFits
  <2>4. v.content.name = n
    BY <1>2, <1>4, <2>3 DEF OpFits, GoneFits
  <2> QED BY <1>5, <2>4 DEF Bearing, Called
<1>10. Shrunk(book, book', v) /\ Single(book')
  BY <1>2, <1>5, <1>7, DeletingShrinks
<1>11. BooksFit(began, book', journal, rows)
  BY <1>2, <1>5, <1>8, <1>9, <1>10, ShrunkBooksFit
<1> QED BY <1>4, <1>5, <1>10, <1>11

\* A card is deleted.
LEMMA RunDeleteFits ==
    ASSUME AInv, NInv, Smooth, RunDelete
    PROVE  NInv'
<1>1. /\ pc = "delete" /\ Continue
      /\ book' = [book EXCEPT !["fastmail"] = @ \ cur.delete]
      /\ UNCHANGED <<rows, journal, todo, cur, began>>
  BY DEF RunDelete, store
<1>2. pc \in OpSteps /\ pc # "save"
  BY <1>1 DEF OpSteps
<1>3. /\ Single(book) /\ BooksFit(began, book, journal, rows)
      /\ OpSane(cur) /\ OpCounts(cur) /\ OpFits(began, book, cur, Renewing(Pending))
      /\ \A op \in todo : OpFits(began, book, op, Renewing(Pending)) /\ Owns(op) \cap Owns(cur) = {}
      /\ cur \in Pending /\ todo \subseteq Pending
      /\ \A op \in Pending : \A v \in op.then : v.side \in Side
      /\ \A k \in journal : k.old.uid \in Present(book, "fastmail") => k \in cur.journal
  BY <1>1, <1>2, Running, CurOwn
<1>4. /\ Copies(cur) => \A p \in todo : p.kind # "Recreate"
      /\ cur.journal \subseteq journal
  BY <1>1, <1>2 DEF NInv, Progress
<1>5. pc' \in {"then", "save"} /\ (pc' = "save" => cur.kind = "Adopt")
  <2>1. pc' = StepOf(cur, 5)
    BY <1>1, ContinueMeans, OrderIs
  <2>2. LET s == StepOf(cur, 5) IN
        /\ s \in {"delete", "then", "save"} /\ s # "delete"
        /\ s = "save" => cur.then = {}
    BY StepFacts
  <2> QED BY <1>3, <2>1, <2>2, NothingToPut
<1> DEFINE R == Renewing(Pending)
           a == began
           b == book
           d == book'
<1>6. CASE cur.kind = "Recreate"
  <2>1. PICK v : /\ cur.delete = {v}
                 /\ v.uid \notin Present(b, "icloud") /\ v.uid # cur.uid
                 /\ Shrunk(b, d, v) /\ Single(d)
                 /\ BooksFit(a, d, journal, rows)
    BY <1>1, <1>6, DeleteFits
  <2>2. v.uid \in Owns(cur) /\ v.uid \notin Present(d, "fastmail")
    BY <2>1 DEF Owns, Shrunk
  <2>3. ASSUME NEW op \in Pending, OpFits(a, b, op, R), v.uid # op.uid
        PROVE  OpFits(a, d, op, R)
    <3>1. \A w \in op.then : w.side \in Side
      BY <1>3
    <3> HIDE DEF a, b, d, R
    <3> QED BY <2>1, <2>3, <3>1, ShrunkBooksOp
  <2>4. \A op \in todo : OpFits(a, d, op, R)
    BY <1>3, <2>2, <2>3 DEF Owns
  <2>5. OpFits(a, d, cur, R)
    BY <1>3, <2>1, <2>3
  <2>6. Progress' /\ pc' \in OpSteps
    BY <1>1, <1>4, <1>5, <1>6, <2>1, <2>2 DEF Progress, OpSteps, Copies
  <2>7. ASSUME NEW k \in journal
        PROVE  k.old.uid \notin Present(d, "fastmail")
    <3>1. k.old.uid \in Present(b, "fastmail") => k.old \in cur.delete
      BY <1>3, <1>6 DEF OpSane, Renews
    <3> QED BY <2>1, <3>1 DEF Shrunk
  <2>8. \A k \in journal' : k.old.uid \in Present(book', "fastmail") => pc' = "delete" /\ k \in cur.journal
    BY <1>1, <2>7
  <2>9. BooksFit(began, book', journal', rows)
    BY <1>1, <2>1
  <2> QED BY <1>1, <1>2, <2>1, <2>4, <2>5, <2>6, <2>8, <2>9, StepFits
<1>7. CASE cur.kind # "Recreate"
  <2>1. cur.delete = {} /\ cur.journal = {}
    BY <1>3, <1>7 DEF OpSane
  <2>2. book' = book
    <3>1. book = [s \in Side |-> book[s]]
      BY DEF AInv, Bases, CardsOf
    <3>2. book["fastmail"] \ cur.delete = book["fastmail"]
      BY <2>1
    <3> QED BY <1>1, <3>1, <3>2
  <2>3. pc' = "save" => OnBoth(book, cur.uid)
    BY <1>3, <1>5 DEF OpFits
  <2>4. GoneFits(began, book, cur)
    BY <2>1 DEF GoneFits
  <2>5. Progress' /\ pc' \in OpSteps
    BY <1>1, <1>2, <1>4, <1>5, <2>1, <2>2, <2>3, <2>4 DEF Progress, OpSteps
  <2>6. \A k \in journal' : k.old.uid \in Present(book', "fastmail") => pc' = "delete" /\ k \in cur.journal
    BY <1>1, <1>3, <2>1, <2>2
  <2>7. BooksFit(began, book', journal', rows)
    BY <1>1, <1>3, <2>2
  <2> QED BY <1>1, <1>2, <1>3, <2>2, <2>5, <2>6, <2>7, StepFits
<1> QED BY <1>6, <1>7

\* A row is written: the pair is under one UID on both sides.
LEMMA SaveFits ==
    ASSUME AInv, NInv, Save
    PROVE  NInv'
<1>1. /\ pc = "save" /\ pc' = "apply" /\ rows' = [rows EXCEPT ![cur.uid] = cur.content]
      /\ journal' \subseteq journal
      /\ UNCHANGED <<book, todo, began, seen, pending>>
  BY DEF Save, EndOp
<1>2. pc \in OpSteps /\ "apply" \notin OpSteps
  BY <1>1 DEF OpSteps
<1>3. /\ Single(book) /\ began \in Books /\ BooksFit(began, book, journal, rows)
      /\ \A op \in todo : OpFits(began, book, op, Renewing(Pending)) /\ OpSane(op)
      /\ Pending = todo \cup {cur}
      /\ \A op \in Pending : \A v \in op.then : v.side \in Side
      /\ \A k \in journal : k.old.uid \notin Present(book, "fastmail")
  BY <1>1, <1>2, Running, CurOwn
<1>4. /\ OnBoth(book, cur.uid)
      /\ \A c \in cur.delete : c.uid \notin Present(book, "fastmail") /\ c.uid \notin Present(book, "icloud")
  BY <1>1 DEF NInv, Progress, GoneFits
<1>5. Pending' = todo
  BY <1>1, <1>2 DEF Pending
<1> DEFINE Q == Renewing(todo)
           X == Owns(cur)
<1>6. Renewing(Pending) \subseteq Q \cup X
  BY <1>3 DEF Renewing
<1>7. \A x \in X : OnBoth(book, x) \/ \A s \in Side : x \notin Present(book, s)
  BY <1>4, SideValues DEF Owns
<1>8. ASSUME NEW op \in todo
      PROVE  OpSane(op) /\ OpFits(began, book, op, Q)
  <2>1. /\ OpFits(began, book, op, Renewing(Pending)) /\ Alike(began, book)
        /\ \A w \in op.then : w.side \in Side
    BY <1>3 DEF BooksFit
  <2> HIDE DEF Q, X
  <2> QED BY <1>3, <1>6, <1>7, <2>1, RenewedOp
<1>9. OpsFit'
  <2>1. /\ Q = Renewing(Pending') /\ Pending' = todo /\ began' = began /\ book' = book
        /\ \A op \in todo : OpSane(op) /\ OpFits(began, book, op, Q)
    BY <1>1, <1>5, <1>8
  <2> HIDE DEF Q
  <2> QED BY <2>1 DEF OpsFit
<1>10. BooksFit(began, book, journal, rows)'
  <2>1. BooksFit(began, book, journal', rows)
    BY <1>1, <1>3, FewerEntriesFit
  <2>2. DOMAIN rows = Uid
    BY DEF AInv, Bases
  <2>3. BooksFit(began, book, journal', [rows EXCEPT ![cur.uid] = cur.content])
    BY <1>4, <2>1, <2>2, SavedBooksFit
  <2>4. BooksFit(began, book, journal', rows')
    BY <1>1, <2>3
  <2> QED BY <1>1, <2>4
<1>11. Progress'
  BY <1>1 DEF Progress, OpSteps
<1>12. Replays'
  BY <1>1, <1>3 DEF Replays
<1>13. Single(book') /\ began' \in Books
  BY <1>1, <1>3
<1> QED BY <1>9, <1>10, <1>11, <1>12, <1>13 DEF NInv

\* Nothing but an adoption fails without a card that fails.
LEMMA FailOpFits ==
    ASSUME AInv, NInv, Smooth', pc \in OpSteps, FailOp, UNCHANGED book
    PROVE  NInv'
<1>1. /\ pc' = "apply" /\ UNCHANGED <<rows, journal, todo, began, seen, pending>>
      /\ failures' = Without(FailedCards) \cup {Failure(cur.uid, k[1], k[2]) : k \in FailedCards}
  BY DEF FailOp, EndOp, RecordFailures
<1>2. FailedCards = {}
  BY <1>1 DEF Smooth
<1>3. /\ Single(book) /\ began \in Books /\ BooksFit(began, book, journal, rows)
      /\ OpOwn(cur)
      /\ \A op \in todo : OpFits(began, book, op, Renewing(Pending)) /\ OpSane(op)
      /\ Pending = todo \cup {cur}
      /\ \A k \in journal : k.old.uid \in Present(book, "fastmail") => pc = "delete" /\ k \in cur.journal
  BY Running, CurOwn
<1>4. cur.kind = "Adopt"
  <2> SUFFICES ASSUME cur.kind # "Adopt"
               PROVE  FALSE
    OBVIOUS
  <2>1. wrote = {} /\ \A k \in cur.cards : \E w \in wrote : w[1] = k[1] /\ SameHref(w[2], k[2])
    BY <1>2 DEF FailedCards
  <2>2. cur.cards # {}
    BY <1>3 DEF OpOwn, About
  <2> QED BY <2>1, <2>2
<1>5. Renewing(Pending) = Renewing(todo)
  BY <1>3, <1>4 DEF Renewing
<1>6. Pending' = todo
  BY <1>1 DEF Pending, OpSteps
<1>7. OpsFit'
  <2> DEFINE R == Renewing(todo)
  <2>1. /\ R = Renewing(Pending') /\ Pending' = todo /\ began' = began /\ book' = book
        /\ \A op \in todo : OpSane(op) /\ OpFits(began, book, op, R)
    BY <1>1, <1>3, <1>5, <1>6
  <2> HIDE DEF R
  <2> QED BY <2>1 DEF OpsFit
<1>8. Progress'
  BY <1>1 DEF Progress, OpSteps
<1>9. Replays'
  <2>1. cur.journal = {}
    <3>1. OpSane(cur)
      BY Running
    <3> QED BY <1>4, <3>1 DEF OpSane
  <2> QED BY <1>1, <1>3, <2>1 DEF Replays
<1>10. BooksFit(began, book, journal, rows)' /\ Single(book') /\ began' \in Books
  BY <1>1, <1>3
<1> QED BY <1>7, <1>8, <1>9, <1>10 DEF NInv

\* A cycle-fatal error: what the server did stays.
LEMMA AbortedFits ==
    ASSUME AInv, NInv, Smooth, Aborted
    PROVE  NInv'
<1>1. pc \in OpSteps /\ pc # "wait" /\ EndCycle /\ UNCHANGED <<rows, journal, began>>
  BY DEF Aborted, CutOff, store, OpSteps
<1>2. BooksFit(began, book, journal, rows)
  BY DEF NInv
<1>3. CASE UNCHANGED book
  BY <1>1, <1>2, <1>3, EndFits
<1>4. CASE pc \in {"first", "then"} /\ \E w \in cur[pc] : Accepts(w) /\ Served(w)
  <2>1. PICK w \in cur[pc] : Accepts(w) /\ Served(w)
    BY <1>4
  <2>2. Single(book') /\ BooksFit(began, book', journal, rows)
    <3>1. CASE w.over # {}
      <4>1. SameBooks(began, book, book') /\ Single(book')
        BY <1>4, <2>1, <3>1, RewriteFits
      <4> QED BY <1>2, <4>1, SameBooksFit
    <3>2. CASE w.over = {}
      BY <1>4, <2>1, <3>2, CreateFits
    <3> QED BY <3>1, <3>2
  <2> QED BY <1>1, <2>2, EndFits
<1>5. CASE pc = "delete" /\ book' = [book EXCEPT !["fastmail"] = @ \ cur.delete]
  <2>1. CASE cur.kind = "Recreate"
    <3>1. Single(book') /\ BooksFit(began, book', journal, rows)
      BY <1>5, <2>1, DeleteFits
    <3> QED BY <1>1, <3>1, EndFits
  <2>2. CASE cur.kind # "Recreate"
    <3>1. OpSane(cur)
      BY <1>1, Running
    <3>2. book["fastmail"] \ cur.delete = book["fastmail"] /\ book = [s \in Side |-> book[s]]
      BY <2>2, <3>1 DEF OpSane, AInv, Bases, CardsOf
    <3>3. book' = book
      BY <1>5, <3>2
    <3> QED BY <1>1, <1>2, <3>3, EndFits
  <2> QED BY <2>1, <2>2
<1> QED BY <1>3, <1>4, <1>5 DEF Aborted

(***************************************************************************)
(* A run.                                                                  *)
(***************************************************************************)

\* What a run begins with is within what it began with.
LEMMA BeganWithin ==
    ASSUME NEW a \in Books, NEW s \in Side, NEW n
    PROVE  Within(a, Bearing(a, s, n), n)
<1> DEFINE S == Called(a, s, n)
           T == Bearing(a, s, n)
           f == [c \in S |-> c.uid]
<1>1. IsFiniteSet(S)
  BY CalledIsFinite
<1>2. f \in [S -> T] /\ \A u \in T : \E c \in S : f[c] = u
  BY DEF Bearing
<1> HIDE DEF f, S, T
<1>3. f \in Surjection(S, T)
  BY <1>2 DEF Surjection
<1>4. IsFiniteSet(T) /\ Cardinality(T) <= Cardinality(S)
  BY <1>1, <1>3, FS_Surjection
<1> QED BY <1>4 DEF Within, S, T

\* A run begins with nothing to replay and nothing to run.
LEMMA InitFits == Init => NInv
<1> SUFFICES ASSUME Init PROVE NInv
  OBVIOUS
<1>1. /\ book \in Books /\ began = book /\ pc = "wait"
      /\ journal = {} /\ pending = {} /\ todo = {}
      /\ \A u \in Uid : rows[u] = None
  BY DEF Init
<1>2. Untouched
  BY <1>1 DEF Untouched, Working, OpSteps
<1>3. Alike(began, book)
  <2> SUFFICES ASSUME NEW n \in Fair(began),
                      NEW u \in Present(began, "icloud") \cap Present(began, "fastmail")
               PROVE  u \in Bearing(began, "icloud", n) <=> u \in Bearing(began, "fastmail", n)
    BY <1>1 DEF Alike
  <2>1. \A c \in began["icloud"], d \in began["fastmail"] :
            c.uid = d.uid /\ c.content.name # d.content.name => n \notin {c.content.name, d.content.name}
    BY DEF Fair
  <2>2. PICK c \in began["icloud"], d \in began["fastmail"] : c.uid = u /\ d.uid = u
    BY DEF Present
  <2>3. ASSUME u \in Bearing(began, "icloud", n)
        PROVE  u \in Bearing(began, "fastmail", n)
    <3>1. PICK e \in began["icloud"] : e.uid = u /\ e.content.name = n
      BY <2>3 DEF Bearing, Called
    <3>2. d.content.name = n
      BY <2>1, <2>2, <3>1
    <3> QED BY <2>2, <3>2 DEF Bearing, Called
  <2>4. ASSUME u \in Bearing(began, "fastmail", n)
        PROVE  u \in Bearing(began, "icloud", n)
    <3>1. PICK e \in began["fastmail"] : e.uid = u /\ e.content.name = n
      BY <2>4 DEF Bearing, Called
    <3>2. c.content.name = n
      BY <2>1, <2>2, <3>1
    <3> QED BY <2>2, <3>2 DEF Bearing, Called
  <2> QED BY <2>3, <2>4
<1>4. \A n : Awaited(book, journal, n) = {}
  BY <1>1 DEF Awaited, Open
<1>5. Limits(began, book, journal)
  BY <1>1, <1>4, BeganWithin, SideValues DEF Limits
<1>6. BooksFit(began, book, journal, rows)
  BY <1>1, <1>3, <1>5 DEF BooksFit
<1>7. Replays
  BY <1>1 DEF Replays
<1>8. Progress
  BY <1>1 DEF Progress, OpSteps
<1>9. OpsFit
  BY <1>1 DEF OpsFit, Pending, OpSteps
<1> QED BY <1>1, <1>2, <1>6, <1>7, <1>8, <1>9 DEF NInv

\* No step gives a side more of a name, as long as no card fails and nobody
\* edits.
LEMMA NextFits == AInv /\ NInv /\ Smooth /\ Smooth' /\ [Next]_vars => NInv'
<1> SUFFICES ASSUME AInv, NInv, Smooth, Smooth', [Next]_vars
             PROVE  NInv'
  OBVIOUS
<1>1. CASE UserEdit \/ UserDelete
  BY <1>1 DEF UserEdit, UserDelete, MayEdit, Smooth
<1>2. CASE BackoffPasses
  BY <1>2 DEF BackoffPasses, Smooth
<1>3. CASE Wake
  BY <1>3, WakeFits
<1>4. CASE Look
  BY <1>4, LookFits
<1>5. CASE DropEntry
  BY <1>5, DropEntryFits
<1>6. CASE ReplayPut
  BY <1>6, ReplayPutFits
<1>7. CASE Replayed
  BY <1>7, ReplayedFits
<1>8. CASE Plan
  BY <1>8, PlanFitsNext
<1>9. CASE StartOp
  BY <1>9, StartOpFits
<1>10. CASE Archive
  BY <1>10, ArchiveFits
<1>11. CASE RunPut
  BY <1>11, RunPutFits
<1>12. CASE Journal
  BY <1>12, JournalFits
<1>13. CASE RunDelete
  BY <1>13, RunDeleteFits
<1>14. CASE Save
  BY <1>14, SaveFits
<1>15. CASE Refused
  <2>1. pc \in OpSteps /\ FailOp /\ UNCHANGED book
    BY <1>15 DEF Refused, OpSteps
  <2> QED BY <2>1, FailOpFits
<1>16. CASE Rejected
  <2>1. pc \in OpSteps /\ FailOp /\ UNCHANGED book
    BY <1>16 DEF Rejected, OpSteps
  <2> QED BY <2>1, FailOpFits
<1>17. CASE Finish \/ Crash
  BY <1>17, CrashFits
<1>18. CASE ReplayRejected
  BY <1>18, ReplayRejectedFits
<1>19. CASE ReplayAborted
  BY <1>19, ReplayAbortedFits
<1>20. CASE Aborted
  BY <1>20, AbortedFits
<1>21. CASE UNCHANGED vars
  <2>1. UNCHANGED <<book, rows, journal, pc, seen, pending, todo, cur, began>>
    BY <1>21 DEF vars, store, cycle
  <2>2. Pending' = Pending
    BY <2>1 DEF Pending
  <2>3. BooksFit(began, book, journal, rows)' /\ (Single(book) \/ Untouched)'
    BY <2>1 DEF NInv, Untouched, Working
  <2>4. Replays' /\ Progress'
    BY <2>1 DEF NInv, Replays, Replaying, Progress
  <2>5. OpsFit'
    <3> DEFINE R == Renewing(Pending)
    <3>1. /\ R = Renewing(Pending')
          /\ \A op \in Pending : OpSane(op)
          /\ \A op \in Pending : OpFits(began, book, op, R) \/ (op = cur /\ pc = "save")
      BY <2>2 DEF NInv, OpsFit
    <3> HIDE DEF R
    <3> QED BY <2>1, <2>2, <3>1 DEF OpsFit
  <2> QED BY <2>1, <2>3, <2>4, <2>5 DEF NInv
<1> QED
  BY <1>1, <1>2, <1>3, <1>4, <1>5, <1>6, <1>7, <1>8, <1>9, <1>10, <1>11, <1>12,
     <1>13, <1>14, <1>15, <1>16, <1>17, <1>18, <1>19, <1>20, <1>21
  DEF Next, Daemon, Faulty

\* As many cards of a name as UIDs under it.
LEMMA OneCardEach ==
    ASSUME NEW a \in Books, NEW b, Single(b), NEW s \in Side, NEW n, Within(a, Bearing(b, s, n), n)
    PROVE  \E t \in Side : Cardinality(Called(b, s, n)) <= Cardinality(Called(a, t, n))
<1> DEFINE S == Called(b, s, n)
           T == Bearing(b, s, n)
           f == [c \in S |-> c.uid]
<1>1. f \in [S -> T] /\ \A c, d \in S : f[c] = f[d] => c = d
  BY DEF Bearing, Called, Single
<1>2. PICK t \in Side : Cardinality(T) <= Cardinality(Called(a, t, n))
  BY DEF Within
<1>3. IsFiniteSet(T)
  BY DEF Within
<1> HIDE DEF f, S, T
<1>4. f \in Injection(S, T)
  BY <1>1 DEF Injection, IsInjective
<1>5. IsFiniteSet(S) /\ Cardinality(S) <= Cardinality(T)
  BY <1>3, <1>4, FS_Injection
<1>6. Cardinality(S) \in Nat /\ Cardinality(T) \in Nat /\ Cardinality(Called(a, t, n)) \in Nat
  BY <1>3, <1>5, FS_CardinalityType, CalledIsFinite
<1>7. Cardinality(S) <= Cardinality(Called(a, t, n))
  BY <1>2, <1>5, <1>6
<1> QED BY <1>7 DEF S

\* What fits has no more of a name than the fuller side had.
LEMMA FitsNever == NInv => NeverMultiplies
<1> SUFFICES ASSUME NInv, NEW s \in Side, NEW c \in Content, c.name # Nameless, ~ Disputed(c.name)
             PROVE  \E t \in Side : Cardinality(Called(book, s, c.name)) <= Cardinality(Called(began, t, c.name))
  BY DEF NeverMultiplies
<1> DEFINE n == c.name
<1>1. began \in Books /\ BooksFit(began, book, journal, rows)
  BY DEF NInv
<1>2. n \in Fair(began)
  BY DEF Fair, Disputed
<1>3. CASE Untouched
  <2>1. book = began /\ Cardinality(Called(began, s, n)) \in Nat
    BY <1>1, <1>3, CalledIsFinite DEF Untouched
  <2> QED BY <2>1
<1>4. CASE Single(book)
  <2>1. Within(began, Bearing(book, "fastmail", n) \cup Awaited(book, journal, n), n)
    BY <1>1, <1>2 DEF BooksFit, Limits
  <2>2. Within(began, Bearing(book, "fastmail", n), n)
    BY <1>1, <2>1, WithinFewer
  <2>3. Within(began, Bearing(book, "icloud", n), n)
    BY <1>1, <1>2 DEF BooksFit, Limits
  <2>4. Within(began, Bearing(book, s, n), n)
    BY <2>2, <2>3, SideValues
  <2> QED BY <1>1, <1>4, <2>4, OneCardEach
<1> QED BY <1>3, <1>4 DEF NInv

\* No side comes to hold more cards of a name than the fuller side had,
\* wherever a cycle is cut off and whatever the address books held, as long
\* as no card fails and nobody edits (NeverMultiplies).
THEOREM NeverMultipliesHolds ==
    ASSUME ~ IsContent(None)
    PROVE  Spec /\ [] Smooth => [] NeverMultiplies
<1>1. Init => AInv /\ NInv
  BY InitAccounts, InitFits
<1>2. AInv /\ NInv /\ Smooth /\ Smooth' /\ [Next]_vars => AInv' /\ NInv'
  BY NextAccounts, NextFits
<1>3. NInv => NeverMultiplies
  BY FitsNever
<1> QED BY <1>1, <1>2, <1>3, PTL DEF Spec

(***************************************************************************)
(* Interrupting a cycle changes no plan (ReplansTheRest).  While a cycle   *)
(* runs in which nothing failed, what is still to run is what pairing      *)
(* would plan for the cards that have no row, without those of the current *)
(* operation: running an operation takes both cards of a pair, or a card   *)
(* that matches none, off what pairing sees.                               *)
(***************************************************************************)

\* What becomes of a match of U, and of all of them.
AllPairs(U) == UidPairs(U) \cup Pass2(U) \cup Pass3(U)

PairOp(U, m) ==
    IF m \in UidPairs(U) THEN IF SameContent(m[1], m[2]) THEN AdoptOf(m) ELSE ConflictOf(m)
    ELSE IF m \in Pass2(U) THEN ContentPair(m) ELSE IdentityPair(m)

PairOps(U) == {PairOp(U, m) : m \in AllPairs(U)}

\* The copies that depend on no other card: of named cards that are no group.
LastingCopies(U) ==
    UNION {{CreateOf(s, c) : c \in {c \in Loose(U, s) : Named(c) /\ c.content.members = {}}} : s \in Side}

Copying(ops) == {op \in ops : Copies(op)}

\* Whether op copies a card that U leaves alone.
CopiesLoose(op, U) ==
    \E s \in Side : \E c \in Loose(U, s) : op.uid = c.uid /\ op.cards = {<<s, c>>}

\* The cards without a row that are not the current operation's.
Rest ==
    [s \in Side |->
        {c \in book[s] : rows[c.uid] = None /\ (pc \in OpSteps => c.uid \notin About(cur))}]

\* Nobody edited, and nothing failed in this cycle or was held in it.
Untroubled == Working /\ edits = 0 /\ failed = {} /\ held = {} /\ summary.state_errors = 0

\* What is still to run is what the rest would be planned for.
Replanned ==
    /\ todo \ Copying(todo) = PairOps(Rest)
    /\ Lasting(Copying(todo)) = LastingCopies(Rest)
    /\ \A op \in Copying(todo) : CopiesLoose(op, Rest)

\* A UID is given to no second card of a side, and the one an operation takes
\* away is on its card alone.
OneHref ==
    /\ Single(book)
    /\ \A op \in Pending : \A w \in op.then :
          w.over = {} /\ ~ (op = cur /\ pc = "save") => op.uid \notin Present(book, w.side)
    /\ \A op \in Pending : \A c \in op.delete :
          /\ c.uid \notin Present(book, "icloud")
          /\ \A d \in book["fastmail"] : d.uid = c.uid => d = c

FailsAt(s, c) == \E f \in failures : f.side = s /\ SameHref(f.card, c)

\* Who failed in this cycle, or was held in it, has a failure to its end.
HoldsFailures ==
    Working =>
        /\ \A k \in failed : FailsAt(k[1], k[2]) /\ \A op \in Pending : k[2].uid \notin About(op)
        /\ \A k \in held :
              /\ FailsAt(k[1], k[2])
              /\ \A op \in Pending : \A l \in op.cards : ~ (l[1] = k[1] /\ SameHref(l[2], k[2]))

RInv == HoldsFailures /\ (Untroubled => Replanned /\ OneHref)

(***************************************************************************)
(* The plan of some cards, and of some fewer.                              *)
(***************************************************************************)

\* The operation of a match.
LEMMA PairOpIs ==
    ASSUME NEW U, NEW m
    PROVE  LET op == PairOp(U, m) IN
           /\ op.cards = Both(m) /\ op.uid = m[1].uid /\ ~ Copies(op)
           /\ \A c \in op.delete : c = m[2] /\ m \notin UidPairs(U)
           /\ \A w \in op.then : w.over = {} => w.side = "fastmail" /\ m \notin UidPairs(U)
<1> DEFINE op == PairOp(U, m)
<1>1. CASE m \in UidPairs(U) /\ SameContent(m[1], m[2])
  <2>1. op = AdoptOf(m)
    BY <1>1 DEF PairOp
  <2> QED BY <2>1, AdoptIs, OthersAbout DEF Copies
<1>2. CASE m \in UidPairs(U) /\ ~ SameContent(m[1], m[2])
  <2>1. op = ConflictOf(m)
    BY <1>2 DEF PairOp
  <2>2. ConflictOf(m).then =
            {Put(Other(Winner), {Losing(m)}, [Losing(m) EXCEPT !.content = Winning(m).content])}
    BY ConflictIs
  <2> DEFINE card == [Losing(m) EXCEPT !.content = Winning(m).content]
  <2> HIDE DEF card
  <2>3. \A w \in ConflictOf(m).then : w.over # {}
    <3>1. ConflictOf(m).then = {Put(Other(Winner), {Losing(m)}, card)}
      BY <2>2 DEF card
    <3>2. Put(Other(Winner), {Losing(m)}, card).over = {Losing(m)}
      BY PutIs
    <3> QED BY <3>1, <3>2
  <2> QED BY <2>1, <2>3, ConflictIs, OthersAbout DEF Copies
<1>3. CASE m \notin UidPairs(U)
  <2>1. PICK content, archive, first : op = Recreate(m, content, archive, first)
    <3>1. CASE m \in Pass2(U)
      BY <1>3, <3>1 DEF PairOp, ContentPair
    <3>2. CASE m \notin Pass2(U)
      BY <1>3, <3>2 DEF PairOp, IdentityPair
    <3> QED BY <3>1, <3>2
  <2> HIDE DEF op
  <2>2. /\ op.kind = "Recreate" /\ op.uid = m[1].uid /\ op.delete = {m[2]} /\ op.cards = Both(m)
        /\ \A w \in op.then : w.side = "fastmail"
    BY <2>1, RecreateIs, RecreateAbout, PutIs
  <2> QED BY <1>3, <2>2 DEF Copies, op
<1> QED BY <1>1, <1>2, <1>3

\* Each card is in one match at most, of whichever pass.
LEMMA PairsMatch ==
    ASSUME NEW U, Sides(U)
    PROVE  /\ Matching(AllPairs(U)) /\ AllPairs(U) \subseteq Candidates(U)
           /\ \A m \in AllPairs(U) : m[1] \in U["icloud"] /\ m[2] \in U["fastmail"] /\ m = <<m[1], m[2]>>
           /\ \A c \in U["icloud"], d \in U["fastmail"] : c.uid = d.uid => <<c, d>> \in UidPairs(U)
<1> DEFINE p == Paired(U, U)
<1>1. p.byUid = UidPairs(U) /\ p.byContent = Pass2(U) /\ p.byIdentity = Pass3(U)
  BY PairedFields
<1>2. Matching(AllPairs(U)) /\ AllPairs(U) \subseteq Candidates(U)
  BY <1>1, PassesApart DEF AllPairs
<1> QED BY <1>2 DEF Candidates, UidPairs

\* Taking both cards of a match away takes that match away.
LEMMA PairTaken ==
    ASSUME NEW U, Sides(U), NEW m \in AllPairs(U)
    PROVE  LET V == Less(U, Ends(m)) IN
           /\ PairOps(V) = PairOps(U) \ {PairOp(U, m)}
           /\ \A s \in Side : Loose(V, s) = Loose(U, s)
<1> DEFINE V == Less(U, Ends(m))
<1>1. Closed(U, Ends(m))
  BY UidPairCloses, ContentPairCloses, IdentityPairCloses DEF AllPairs
<1>2. /\ UidPairs(V) = Off(UidPairs(U), Ends(m)) /\ Pass2(V) = Off(Pass2(U), Ends(m))
      /\ Pass3(V) = Off(Pass3(U), Ends(m))
      /\ \A s \in Side : Loose(V, s) = Loose(U, s) \ Ends(m)[s]
  BY <1>1, PassesOff
<1>3. Matching(AllPairs(U))
  BY PairsMatch
<1>4. \A n \in AllPairs(U) : n # m <=> (n[1] \notin Ends(m)["icloud"] /\ n[2] \notin Ends(m)["fastmail"])
  BY <1>3, EndsAre DEF Matching
<1> HIDE DEF V
<1>5. /\ UidPairs(V) = UidPairs(U) \ {m} /\ Pass2(V) = Pass2(U) \ {m} /\ Pass3(V) = Pass3(U) \ {m}
  BY <1>2, <1>4 DEF AllPairs, Off
<1>6. AllPairs(V) = AllPairs(U) \ {m}
  BY <1>5 DEF AllPairs
<1>7. \A n \in AllPairs(V) : PairOp(V, n) = PairOp(U, n)
  BY <1>5, <1>6 DEF PairOp
<1>8. \A n \in AllPairs(U) : PairOp(U, n) = PairOp(U, m) => n = m
  <2> SUFFICES ASSUME NEW n \in AllPairs(U), PairOp(U, n) = PairOp(U, m)
               PROVE  n = m
    OBVIOUS
  <2>1. Both(n) = Both(m)
    BY PairOpIs
  <2>2. <<"icloud", n[1]>> = <<"icloud", m[1]>>
    BY <2>1, BothIs
  <2> QED BY <1>3, <2>2 DEF Matching
<1>9. PairOps(V) = PairOps(U) \ {PairOp(U, m)}
  BY <1>6, <1>7, <1>8 DEF PairOps
<1>10. ASSUME NEW s \in Side
       PROVE  Loose(U, s) \cap Ends(m)[s] = {}
  <2>1. \A c \in Loose(U, s) : c \notin On(s, UidPairs(U)) /\ c \notin On(s, Pass2(U)) /\ c \notin On(s, Pass3(U))
    BY PassedOn DEF Loose
  <2>2. CASE s = "icloud"
    BY <2>1, <2>2, EndsAre, OnMeans DEF AllPairs
  <2>3. CASE s = "fastmail"
    BY <2>1, <2>3, EndsAre, OnMeans DEF AllPairs
  <2> QED BY <2>2, <2>3, SideValues
<1> QED BY <1>2, <1>9, <1>10 DEF V

\* Taking a card away that U leaves alone takes no match away.
LEMMA LooseTaken ==
    ASSUME NEW U, Sides(U), NEW s \in Side, NEW c \in Loose(U, s)
    PROVE  LET V == Less(U, Alone(s, c)) IN
           /\ PairOps(V) = PairOps(U)
           /\ \A t \in Side : Loose(V, t) = Loose(U, t) \ Alone(s, c)[t]
<1> DEFINE V == Less(U, Alone(s, c))
<1>1. /\ UidPairs(V) = Off(UidPairs(U), Alone(s, c)) /\ Pass2(V) = Off(Pass2(U), Alone(s, c))
      /\ Pass3(V) = Off(Pass3(U), Alone(s, c))
      /\ \A t \in Side : Loose(V, t) = Loose(U, t) \ Alone(s, c)[t]
  BY LooseCloses, PassesOff
<1>2. c \notin On(s, UidPairs(U)) /\ c \notin On(s, Pass2(U)) /\ c \notin On(s, Pass3(U))
  <2>1. c \in Left3(U)[s]
    BY DEF Loose
  <2> QED BY <2>1, PassedOn
<1>3. ASSUME NEW M, c \notin On(s, M)
      PROVE  Off(M, Alone(s, c)) = M
  <2>1. CASE s = "icloud"
    BY <1>3, <2>1, AloneIs, OnMeans DEF Off
  <2>2. CASE s = "fastmail"
    BY <1>3, <2>2, AloneIs, OnMeans DEF Off
  <2> QED BY <2>1, <2>2, SideValues
<1> HIDE DEF V
<1>4. UidPairs(V) = UidPairs(U) /\ Pass2(V) = Pass2(U) /\ Pass3(V) = Pass3(U)
  BY <1>1, <1>2, <1>3
<1>5. PairOps(V) = PairOps(U)
  BY <1>4 DEF PairOps, PairOp, AllPairs
<1> QED BY <1>1, <1>5 DEF V

\* What is copied is left alone, and a named card that is left alone is copied.
LEMMA CopiedIsLoose ==
    ASSUME NEW U, Sides(U), NEW K, NEW s \in Side
    PROVE  /\ Paired(U, K).copied[s] \subseteq Loose(U, s)
           /\ \A c \in Loose(U, s) : Named(c) => c \in Paired(U, K).copied[s]
<1> DEFINE L == Left3(U)
           M == ContentMatches(Left1(U))
<1>1. Paired(U, K).copied[s] =
         (L[s] \ Ambiguous(L, Contested(U), s)) \ LikelyDuplicates(L, K, Contested(U), s)
  BY PairedFields DEF Copied
<1>2. Other(s) \in Side /\ Other(s) # s /\ \A t \in Side : t = s \/ t = Other(s)
  BY SideValues DEF Other
\* A card left over is contested if somebody has its content.
<1>3. ASSUME NEW c \in L[s]
      PROVE  c \in Contested(U) <=> c \in On(s, M)
  <2>1. c \in Left1(U)[s] /\ c \notin On(s, Pass2(U)) /\ c \notin On(s, UidPairs(U)) /\ c \in U[s]
    BY PassedOn
  <2>2. c \notin Left1(U)[Other(s)]
    <3> SUFFICES ASSUME c \in Left1(U)[Other(s)] PROVE FALSE
      OBVIOUS
    <3>1. c \in U["icloud"] /\ c \in U["fastmail"]
      BY <1>2, <2>1, PassedOn, SideValues
    <3>2. <<c, c>> \in UidPairs(U)
      BY <3>1, PairsMatch
    <3>3. <<c, c>>[1] = c /\ <<c, c>>[2] = c
      OBVIOUS
    <3> QED BY <2>1, <3>2, <3>3, OnMeans, SideValues
  <2>3. \A t \in Side : On(t, M) \subseteq Left1(U)[t]
    BY OnMeans, MatchesAre, SideValues
  <2>4. c \in Contested(U) <=> \E t \in Side : c \in On(t, M) \ On(t, Pass2(U))
    BY DEF Contested
  <2> QED BY <1>2, <2>1, <2>2, <2>3, <2>4
<1>4. \A c, d : NamelessMatch(c, d) => ~ Named(c)
  BY DEF NamelessMatch
<1>5. \A c \in LikelyDuplicates(L, K, Contested(U), s) : ~ Named(c)
  BY DEF LikelyDuplicates
<1>6. \A c \in L[s] : c \in Ambiguous(L, Contested(U), s) <=>
          \/ c \in On(s, M) \/ \E d \in L[Other(s)] : SameName(c, d) \/ NamelessMatch(c, d)
  BY <1>3 DEF Ambiguous
<1>7. Loose(U, s) = {c \in L[s] : c \notin On(s, M) /\ \A d \in L[Other(s)] : ~ SameName(c, d)}
  BY DEF Loose
<1> HIDE DEF L, M
<1> QED BY <1>1, <1>4, <1>5, <1>6, <1>7

\* Who is left alone has its UID on neither side but on its own card.
LEMMA LooseIsThere ==
    ASSUME NEW U, Sides(U), NEW s \in Side, NEW c \in Loose(U, s)
    PROVE  /\ c \in U[s]
           /\ \A t \in Side : \A d \in U[t] : d.uid = c.uid => t = s /\ d = c
<1>1. c \in U[s] /\ c \notin On(s, UidPairs(U))
  BY LooseIsNoMatch, PassedOn DEF Loose
<1>2. ASSUME NEW t \in Side, NEW d \in U[t], d.uid = c.uid
      PROVE  t = s /\ d = c
  <2>1. CASE t = s
    BY <1>1, <1>2, <2>1 DEF Sides
  <2>2. CASE s = "icloud" /\ t = "fastmail"
    <3>1. <<c, d>> \in UidPairs(U) /\ <<c, d>>[1] = c
      BY <1>1, <1>2, <2>2, PairsMatch
    <3> QED BY <1>1, <2>2, <3>1, OnMeans
  <2>3. CASE s = "fastmail" /\ t = "icloud"
    <3>1. <<d, c>> \in UidPairs(U) /\ <<d, c>>[2] = c
      BY <1>1, <1>2, <2>3, PairsMatch
    <3> QED BY <1>1, <2>3, <3>1, OnMeans
  <2> QED BY <2>1, <2>2, <2>3, SideValues
<1> QED BY <1>1, <1>2

\* Nor have the two cards of a match their UIDs anywhere else.
LEMMA PairIsThere ==
    ASSUME NEW U, Sides(U), NEW m \in AllPairs(U)
    PROVE  /\ m[1] \in U["icloud"] /\ m[2] \in U["fastmail"]
           /\ \A c \in U["icloud"] : c.uid \in {m[1].uid, m[2].uid} => c = m[1]
           /\ \A d \in U["fastmail"] : d.uid \in {m[1].uid, m[2].uid} => d = m[2]
           /\ m \notin UidPairs(U) =>
                 /\ \A c \in U["icloud"] : c.uid # m[2].uid
                 /\ \A d \in U["fastmail"] : d.uid # m[1].uid
<1>1. m[1] \in U["icloud"] /\ m[2] \in U["fastmail"] /\ Matching(AllPairs(U)) /\ m = <<m[1], m[2]>>
  BY PairsMatch
<1>2. \A c \in U["icloud"], d \in U["fastmail"] : c.uid = d.uid => <<c, d>> \in UidPairs(U)
  BY PairsMatch
<1>3. \A c, d : <<c, d>>[1] = c /\ <<c, d>>[2] = d
  OBVIOUS
<1>4. UidPairs(U) \subseteq AllPairs(U)
  BY DEF AllPairs
<1>5. \A c \in U["icloud"] : c.uid = m[2].uid => c = m[1] /\ m \in UidPairs(U)
  <2> SUFFICES ASSUME NEW c \in U["icloud"], c.uid = m[2].uid
               PROVE  c = m[1] /\ m \in UidPairs(U)
    OBVIOUS
  <2>1. <<c, m[2]>> \in UidPairs(U) /\ <<c, m[2]>>[2] = m[2] /\ <<c, m[2]>>[1] = c
    BY <1>1, <1>2, <1>3
  <2>2. <<c, m[2]>> = m
    BY <1>1, <1>4, <2>1 DEF Matching
  <2> QED BY <2>1, <2>2
<1>6. \A d \in U["fastmail"] : d.uid = m[1].uid => d = m[2] /\ m \in UidPairs(U)
  <2> SUFFICES ASSUME NEW d \in U["fastmail"], d.uid = m[1].uid
               PROVE  d = m[2] /\ m \in UidPairs(U)
    OBVIOUS
  <2>1. <<m[1], d>> \in UidPairs(U) /\ <<m[1], d>>[1] = m[1] /\ <<m[1], d>>[2] = d
    BY <1>1, <1>2, <1>3
  <2>2. <<m[1], d>> = m
    BY <1>1, <1>4, <2>1 DEF Matching
  <2> QED BY <2>1, <2>2
<1>7. /\ \A c \in U["icloud"] : c.uid = m[1].uid => c = m[1]
      /\ \A d \in U["fastmail"] : d.uid = m[2].uid => d = m[2]
  BY <1>1, SideValues DEF Sides
<1> QED BY <1>1, <1>5, <1>6, <1>7

\* The operation a card is copied by.
LEMMA CopyOpIs ==
    ASSUME NEW s \in Side, NEW c, IsContent(c.content), NEW aliases
    PROVE  LET op == CopyOf(s, c, aliases) IN
           /\ Copies(op) /\ op.uid = c.uid /\ op.cards = {<<s, c>>} /\ op.delete = {}
           /\ \A w \in op.then : w.side = Other(s)
           /\ op.content.members = {} => op = CreateOf(s, c)
           /\ c.content.members = {} => op = CreateOf(s, c)
<1> DEFINE op == CopyOf(s, c, aliases)
<1>1. CASE s = "fastmail" /\ \E a \in aliases : a[1] \in c.content.members
  <2> DEFINE New(u) == IF \E a \in aliases : a[1] = u THEN (CHOOSE a \in aliases : a[1] = u)[2] ELSE u
             content == [c.content EXCEPT !.members = {New(u) : u \in @}]
  <2>1. op = CopyGroup(c, aliases)
    BY <1>1 DEF CopyOf
  <2>2. op = [StateOnly("CopyGroup", c.uid, content, {<<"fastmail", c>>}) EXCEPT
                 !.first = {Put("fastmail", {c}, [c EXCEPT !.content = content])},
                 !.then = {Put("icloud", {}, Minted(c.uid, content, c.photo))}]
    BY <2>1 DEF CopyGroup
  <2> HIDE DEF op
  <2> DEFINE rewritten == [c EXCEPT !.content = content]
  <2>3. c.content.members # {}
    BY <1>1
  <2> HIDE DEF content, rewritten
  <2>4. /\ op.kind = "CopyGroup" /\ op.uid = c.uid /\ op.content = content
        /\ op.cards = {<<"fastmail", c>>} /\ op.delete = {}
        /\ op.then = {Put("icloud", {}, Minted(c.uid, content, c.photo))}
    BY <2>2 DEF StateOnly
  <2>5. \A w \in op.then : w.side = "icloud"
    BY <2>4, PutIs
  <2>6. content.members # {}
    <3>1. CASE "members" \in DOMAIN c.content
      <4>1. content.members = {New(u) : u \in c.content.members}
        BY <3>1 DEF content
      <4> HIDE DEF New
      <4> QED BY <2>3, <4>1
    <3>2. CASE "members" \notin DOMAIN c.content
      <4>1. content = [f \in DOMAIN c.content |-> c.content[f]]
        BY <3>2 DEF content
      <4>2. content = c.content
        BY <4>1 DEF IsContent
      <4> QED BY <2>3, <4>2
    <3> QED BY <3>1, <3>2
  <2> QED BY <1>1, <2>3, <2>4, <2>5, <2>6 DEF Copies, Other, op
<1>2. CASE ~ (s = "fastmail" /\ \E a \in aliases : a[1] \in c.content.members)
  <2>1. op = CreateOf(s, c)
    BY <1>2 DEF CopyOf
  <2>2. \A w \in CreateOf(s, c).then : w.side = Other(s)
    BY CreateIs, PutIs
  <2> QED BY <2>1, <2>2, CreateIs, OthersAbout DEF Copies
<1> QED BY <1>1, <1>2

\* A plan, by its pairs and its copies.
LEMMA PlanIs ==
    ASSUME NEW view, Sides(Unsynced(view)),
           \A s \in Side : \A c \in Unsynced(view)[s] : IsContent(c.content)
    PROVE  LET ops == CycleOps(view)
               U == Unsynced(view)
           IN  /\ ops \ Copying(ops) = PairOps(U)
               /\ Lasting(Copying(ops)) = LastingCopies(U)
               /\ \A op \in Copying(ops) :
                     \E s \in Side : \E c \in Loose(U, s) :
                        /\ op.uid = c.uid /\ op.cards = {<<s, c>>} /\ op.delete = {}
                        /\ \A w \in op.then : w.side = Other(s)
<1> DEFINE U == Unsynced(view)
           K == Known(view)
           P == Paired(U, K)
           al == renamed \cup {<<m[2].uid, m[1].uid>> : m \in P.byContent \cup P.byIdentity}
           pairs == {AdoptOf(m) : m \in {m \in P.byUid : SameContent(m[1], m[2])}}
                    \cup {ConflictOf(m) : m \in {m \in P.byUid : ~ SameContent(m[1], m[2])}}
                    \cup {ContentPair(m) : m \in P.byContent}
                    \cup {IdentityPair(m) : m \in P.byIdentity}
           copies == UNION {{CopyOf(s, c, al) : c \in P.copied[s]} : s \in Side}
           ops == CycleOps(view)
<1>1. ops = pairs \cup copies
  BY DEF CycleOps, PairedIn
<1>2. P.byUid = UidPairs(U) /\ P.byContent = Pass2(U) /\ P.byIdentity = Pass3(U)
  BY PairedFields
<1>3. /\ \A s \in Side : P.copied[s] \subseteq Loose(U, s)
      /\ \A s \in Side : \A c \in Loose(U, s) : Named(c) => c \in P.copied[s]
  BY CopiedIsLoose
<1>4. Apart(P.byUid, P.byContent \cup P.byIdentity) /\ Apart(P.byContent, P.byIdentity)
  BY PassesApart
<1> HIDE DEF P, ops, al, K
<1>5. pairs = PairOps(U)
  <2>1. /\ UidPairs(U) \cap Pass2(U) = {} /\ UidPairs(U) \cap Pass3(U) = {}
        /\ Pass2(U) \cap Pass3(U) = {}
    BY <1>2, <1>4 DEF Apart
  <2> HIDE DEF U
  <2>2. pairs \subseteq PairOps(U)
    BY <1>2, <2>1 DEF PairOps, PairOp, AllPairs
  <2>3. PairOps(U) \subseteq pairs
    BY <1>2, <2>1 DEF PairOps, PairOp, AllPairs
  <2> QED BY <2>2, <2>3
<1>6. \A op \in pairs : ~ Copies(op)
  BY <1>5, PairOpIs DEF PairOps
<1>7. ASSUME NEW op \in copies
      PROVE  \E s \in Side : \E c \in P.copied[s] : op = CopyOf(s, c, al) /\ IsContent(c.content)
  <2>1. PICK s \in Side : op \in {CopyOf(s, c, al) : c \in P.copied[s]}
    OBVIOUS
  <2>2. PICK c \in P.copied[s] : op = CopyOf(s, c, al)
    BY <2>1
  <2>3. c \in U[s]
    BY <1>3, LooseIsThere
  <2> QED BY <2>2, <2>3
<1>8. ASSUME NEW op \in copies
      PROVE  /\ Copies(op)
             /\ \E s \in Side : \E c \in Loose(U, s) :
                   /\ op.uid = c.uid /\ op.cards = {<<s, c>>} /\ op.delete = {}
                   /\ \A w \in op.then : w.side = Other(s)
  <2>0. PICK s \in Side : \E c \in P.copied[s] : op = CopyOf(s, c, al) /\ IsContent(c.content)
    BY <1>7
  <2>1. PICK c \in P.copied[s] : op = CopyOf(s, c, al) /\ IsContent(c.content)
    BY <2>0
  <2> QED BY <1>3, <2>1, CopyOpIs
<1>9. ops \ Copying(ops) = pairs /\ Copying(ops) = copies
  BY <1>1, <1>6, <1>8 DEF Copying
<1>10. ASSUME NEW op \in copies, op.content.members = {}, op.kind = "Create" => op.content.name # Nameless
       PROVE  op \in LastingCopies(U)
  <2>0. PICK s \in Side : \E c \in P.copied[s] : op = CopyOf(s, c, al) /\ IsContent(c.content)
    BY <1>7
  <2>1. PICK c \in P.copied[s] : op = CopyOf(s, c, al) /\ IsContent(c.content)
    BY <2>0
  <2>2. op = CreateOf(s, c)
    BY <1>10, <2>1, CopyOpIs
  <2>3. op.content = c.content /\ op.kind = "Create"
    BY <2>2, CreateIs, OthersAbout
  <2>4. c \in Loose(U, s) /\ Named(c) /\ c.content.members = {}
    BY <1>3, <1>10, <2>3 DEF Named
  <2> QED BY <2>2, <2>4 DEF LastingCopies
<1>11. ASSUME NEW op \in LastingCopies(U)
       PROVE  op \in copies /\ op.content.members = {} /\ op.content.name # Nameless
  <2>1. PICK s \in Side : op \in {CreateOf(s, c) : c \in {c \in Loose(U, s) : Named(c) /\ c.content.members = {}}}
    BY DEF LastingCopies
  <2>2. PICK c \in Loose(U, s) : Named(c) /\ c.content.members = {} /\ op = CreateOf(s, c)
    BY <2>1
  <2>3. c \in P.copied[s] /\ c \in U[s]
    BY <1>3, <2>2, LooseIsThere
  <2>4. op = CopyOf(s, c, al)
    BY <2>2, <2>3, CopyOpIs
  <2>5. op.content = c.content
    BY <2>2, OthersAbout
  <2> QED BY <2>2, <2>3, <2>4, <2>5 DEF Named
<1> HIDE DEF copies, pairs, U
<1>12. Lasting(copies) = LastingCopies(U)
  BY <1>10, <1>11 DEF Lasting
<1> QED BY <1>5, <1>8, <1>9, <1>12 DEF U, ops

\* The rest, as pairing sees it.
LEMMA RestIs ==
    /\ Rest = [s \in Side |-> Rest[s]]
    /\ \A s \in Side : Rest[s] = {c \in book[s] : rows[c.uid] = None /\ (pc \in OpSteps => c.uid \notin About(cur))}
BY DEF Rest

LEMMA RestSides ==
    ASSUME Single(book)
    PROVE  Sides(Rest)
BY RestIs DEF Sides, Single

\* The UIDs of a match.
LEMMA AboutBoth ==
    ASSUME NEW m
    PROVE  {k[2].uid : k \in Both(m)} = {m[1].uid, m[2].uid}
<1>1. <<"icloud", m[1]>>[2].uid = m[1].uid /\ <<"fastmail", m[2]>>[2].uid = m[2].uid
  OBVIOUS
<1>2. ASSUME NEW k \in Both(m)
      PROVE  k[2].uid = m[1].uid \/ k[2].uid = m[2].uid
  <2>1. k = <<"icloud", m[1]>> \/ k = <<"fastmail", m[2]>>
    BY BothIs
  <2> QED BY <1>1, <2>1
<1> QED BY <1>1, <1>2, BothIs

\* An operation is started: its cards leave the rest.
LEMMA StartOpReplans ==
    ASSUME AInv, RInv, Untroubled, StartOp
    PROVE  Replanned'
<1>1. PICK op \in todo : todo' = todo \ {op} /\ cur' = op /\ pc' = StepOf(op, 1)
  BY DEF StartOp
<1>2. pc = "apply" /\ UNCHANGED <<book, rows>>
  BY DEF StartOp, store
<1>3. pc' \in OpSteps
  BY <1>1, EarlyStep
<1>4. Sides(Rest)
  BY RestSides DEF RInv, OneHref
<1>5. /\ todo \ Copying(todo) = PairOps(Rest)
      /\ Lasting(Copying(todo)) = LastingCopies(Rest)
      /\ \A p \in Copying(todo) : CopiesLoose(p, Rest)
  BY DEF RInv, Replanned
<1>6. \A p, q \in todo : p # q => About(p) \cap About(q) = {}
  BY DEF AInv, Bases, Planned, Pending
<1>7. \A s \in Side : Rest[s] = {c \in book[s] : rows[c.uid] = None}
  BY <1>2, RestIs DEF OpSteps
<1>8. Rest' = [s \in Side |-> {c \in Rest[s] : c.uid \notin About(op)}]
  <2>1. \A s \in Side : {c \in book[s] : rows[c.uid] = None /\ c.uid \notin About(op)} = {c \in Rest[s] : c.uid \notin About(op)}
    BY <1>7
  <2>2. Rest' = [s \in Side |-> {c \in book[s] : rows[c.uid] = None /\ c.uid \notin About(op)}]
    BY <1>1, <1>2, <1>3 DEF Rest, About
  <2> QED BY <2>1, <2>2
<1> DEFINE U == Rest
           V == Rest'
<1>9. Copying(todo') = Copying(todo) \ {op}
  BY <1>1 DEF Copying
<1>10. Lasting(Copying(todo')) = Lasting(Copying(todo)) \ {op}
  BY <1>9 DEF Lasting
<1>11. CASE ~ Copies(op)
  <2>1. op \in PairOps(U)
    BY <1>5, <1>11 DEF Copying
  <2>2. PICK m \in AllPairs(U) : op = PairOp(U, m)
    BY <2>1 DEF PairOps
  <2>3. About(op) = {m[1].uid, m[2].uid}
    BY <2>2, PairOpIs, AboutBoth DEF About
  <2>4. /\ m[1] \in U["icloud"] /\ m[2] \in U["fastmail"]
        /\ \A c \in U["icloud"] : c.uid \in {m[1].uid, m[2].uid} => c = m[1]
        /\ \A d \in U["fastmail"] : d.uid \in {m[1].uid, m[2].uid} => d = m[2]
    BY <1>4, PairIsThere
  <2>5. \A s \in Side : {c \in U[s] : c.uid \notin About(op)} = U[s] \ Ends(m)[s]
    BY <2>3, <2>4, EndsAre, SideValues
  <2>6. V = Less(U, Ends(m))
    BY <1>8, <2>5 DEF Less
  <2>7. PairOps(V) = PairOps(U) \ {op} /\ \A s \in Side : Loose(V, s) = Loose(U, s)
    BY <1>4, <2>2, <2>6, PairTaken
  <2> HIDE DEF U, V
  <2>8. LastingCopies(V) = LastingCopies(U)
    BY <2>7 DEF LastingCopies
  <2>9. Copying(todo') = Copying(todo)
    BY <1>9, <1>11 DEF Copying
  <2>10. todo' \ Copying(todo') = PairOps(V)
    BY <1>1, <1>5, <2>7, <2>9 DEF U
  <2>11. Lasting(Copying(todo')) = LastingCopies(V)
    BY <1>5, <2>8, <2>9 DEF U
  <2>12. \A p \in Copying(todo') : CopiesLoose(p, V)
    BY <1>5, <2>7, <2>9 DEF CopiesLoose, U
  <2> QED BY <2>10, <2>11, <2>12 DEF Replanned, V
<1>12. CASE Copies(op)
  <2>0. PICK s \in Side : \E c \in Loose(U, s) : op.uid = c.uid /\ op.cards = {<<s, c>>}
    BY <1>5, <1>12 DEF Copying, CopiesLoose
  <2>1. PICK c \in Loose(U, s) : op.uid = c.uid /\ op.cards = {<<s, c>>}
    BY <2>0
  <2>2. About(op) = {c.uid}
    BY <2>1 DEF About
  <2>3. c \in U[s] /\ \A t \in Side : \A d \in U[t] : d.uid = c.uid => t = s /\ d = c
    BY <1>4, LooseIsThere
  <2>4. \A t \in Side : {d \in U[t] : d.uid \notin About(op)} = U[t] \ Alone(s, c)[t]
    BY <2>2, <2>3 DEF Alone
  <2>5. V = Less(U, Alone(s, c))
    BY <1>8, <2>4 DEF Less
  <2>6. PairOps(V) = PairOps(U) /\ \A t \in Side : Loose(V, t) = Loose(U, t) \ Alone(s, c)[t]
    BY <1>4, <2>5, LooseTaken
  <2>7. \A t \in Side : \A d : d \in Alone(s, c)[t] <=> t = s /\ d = c
    BY DEF Alone
\* No other operation has that card.
  <2>8. \A p \in todo : p.cards = {<<s, c>>} => p = op
    <3> SUFFICES ASSUME NEW p \in todo, p.cards = {<<s, c>>}
                 PROVE  p = op
      OBVIOUS
    <3>1. c.uid \in About(p) /\ c.uid \in About(op)
      BY <2>2 DEF About
    <3> QED BY <1>6, <3>1
  <2> HIDE DEF U, V
  <2>9. \A t \in Side : \A d \in Loose(U, t) : CreateOf(t, d) \in LastingCopies(U) =>
           (CreateOf(t, d) # op <=> d \notin Alone(s, c)[t])
    <3> SUFFICES ASSUME NEW t \in Side, NEW d \in Loose(U, t), CreateOf(t, d) \in LastingCopies(U)
                 PROVE  CreateOf(t, d) # op <=> d \notin Alone(s, c)[t]
      OBVIOUS
    <3>1. CreateOf(t, d).cards = {<<t, d>>}
      BY OthersAbout
    <3>2. CreateOf(t, d) \in todo
      BY <1>5 DEF Lasting, Copying, U
    <3>3. CASE t = s /\ d = c
      BY <2>7, <2>8, <3>1, <3>2, <3>3
    <3>4. CASE ~ (t = s /\ d = c)
      <4>1. ASSUME {<<t, d>>} = {<<s, c>>}
            PROVE  FALSE
        <5>1. <<t, d>> \in {<<s, c>>}
          BY <4>1
        <5>2. <<t, d>> = <<s, c>>
          BY <5>1
        <5> QED BY <3>4, <5>2
      <4> QED BY <2>1, <2>7, <3>1, <3>4, <4>1
    <3> QED BY <3>3, <3>4
  <2>10. LastingCopies(V) = LastingCopies(U) \ {op}
    <3>1. \A p \in LastingCopies(V) : p \in LastingCopies(U) /\ p # op
      <4> SUFFICES ASSUME NEW t \in Side, NEW d \in Loose(V, t), Named(d), d.content.members = {}
                   PROVE  CreateOf(t, d) \in LastingCopies(U) /\ CreateOf(t, d) # op
        BY DEF LastingCopies
      <4>1. d \in Loose(U, t) /\ d \notin Alone(s, c)[t]
        BY <2>6
      <4>2. CreateOf(t, d) \in LastingCopies(U)
        BY <4>1 DEF LastingCopies
      <4> QED BY <2>9, <4>1, <4>2
    <3>2. \A p \in LastingCopies(U) : p # op => p \in LastingCopies(V)
      <4>1. ASSUME NEW t \in Side, NEW d \in Loose(U, t), Named(d), d.content.members = {},
                   CreateOf(t, d) # op
            PROVE  CreateOf(t, d) \in LastingCopies(V)
        <5>1. CreateOf(t, d) \in LastingCopies(U)
          BY <4>1 DEF LastingCopies
        <5>2. d \in Loose(V, t)
          BY <2>6, <2>9, <4>1, <5>1
        <5> QED BY <4>1, <5>2 DEF LastingCopies
      <4>2. \A p \in LastingCopies(U) : \E t \in Side : \E d \in Loose(U, t) :
               Named(d) /\ d.content.members = {} /\ p = CreateOf(t, d)
        BY DEF LastingCopies
      <4> QED BY <4>1, <4>2
    <3> QED BY <3>1, <3>2
  <2>11. todo' \ Copying(todo') = todo \ Copying(todo)
    BY <1>1, <1>9, <1>12 DEF Copying
  <2>12. ASSUME NEW p \in Copying(todo')
         PROVE  CopiesLoose(p, V)
    <3>4. p \in Copying(todo) /\ p # op
      BY <1>9, <2>12
    <3>1. p \in todo /\ p # op /\ p \in Copying(todo)
      BY <3>4 DEF Copying
    <3>0. PICK t \in Side : \E d \in Loose(U, t) : p.uid = d.uid /\ p.cards = {<<t, d>>}
      BY <1>5, <3>1 DEF CopiesLoose, U
    <3>2. PICK d \in Loose(U, t) : p.uid = d.uid /\ p.cards = {<<t, d>>}
      BY <3>0
    <3>3. d \notin Alone(s, c)[t]
      BY <2>7, <2>8, <3>1, <3>2
    <3> QED BY <2>6, <3>2, <3>3 DEF CopiesLoose
  <2>13. todo' \ Copying(todo') = PairOps(V) /\ Lasting(Copying(todo')) = LastingCopies(V)
    BY <1>5, <1>10, <2>6, <2>10, <2>11 DEF U
  <2> QED BY <2>12, <2>13 DEF Replanned, V
<1> QED BY <1>11, <1>12

(***************************************************************************)
(* The plan, and the steps of its operations.                              *)
(***************************************************************************)

\* Where nothing is held and no UID is there twice, every card without a row
\* may be paired.
LEMMA UnsyncedIs ==
    ASSUME NEW view, HeldCards(view) = {}, Single(view)
    PROVE  Unsynced(view) = [s \in Side |-> {c \in view[s] : rows[c.uid] = None}]
<1>1. \A s \in Side : Free(view, s) = view[s]
  BY DEF Free
<1>2. ASSUME NEW u \in Duplicated(view)
      PROVE  FALSE
  <2>1. PICK s \in Side : u \in {c.uid : c \in {c \in Free(view, s) : \E d \in Free(view, s) : d # c /\ d.uid = c.uid}}
    BY DEF Duplicated
  <2>2. PICK c \in Free(view, s) : \E d \in Free(view, s) : d # c /\ d.uid = c.uid
    BY <2>1
  <2> QED BY <1>1, <2>2 DEF Single
<1>3. \A s \in Side : {c \in Free(view, s) : rows[c.uid] = None /\ c.uid \notin Duplicated(view)}
                          = {c \in view[s] : rows[c.uid] = None}
  BY <1>1, <1>2
<1> QED BY <1>3 DEF Unsynced

\* The cards of a plan's operations may be paired.
LEMMA OpCards ==
    ASSUME NEW U, Sides(U), NEW op,
           \/ \E m \in AllPairs(U) : op = PairOp(U, m)
           \/ CopiesLoose(op, U)
    PROVE  \A k \in op.cards : k[1] \in Side /\ k[2] \in U[k[1]]
<1>1. ASSUME NEW m \in AllPairs(U), op = PairOp(U, m), NEW k \in op.cards
      PROVE  k[1] \in Side /\ k[2] \in U[k[1]]
  <2>1. op.cards = Both(m)
    BY <1>1, PairOpIs
  <2>2. k = <<"icloud", m[1]>> \/ k = <<"fastmail", m[2]>>
    BY <1>1, <2>1, BothIs
  <2> QED BY <2>2, PairsMatch, SideValues
<1>2. ASSUME NEW s \in Side, NEW c \in Loose(U, s), op.cards = {<<s, c>>}, NEW k \in op.cards
      PROVE  k[1] \in Side /\ k[2] \in U[k[1]]
  <2>1. k = <<s, c>>
    BY <1>2
  <2> QED BY <2>1, LooseIsThere
<1> QED BY <1>1, <1>2 DEF CopiesLoose

\* What an operation of a plan creates, and what it deletes.
LEMMA OpHrefs ==
    ASSUME NEW U, Sides(U), NEW op,
           \/ \E m \in AllPairs(U) : op = PairOp(U, m)
           \/ \E s \in Side : \E c \in Loose(U, s) :
                 op.uid = c.uid /\ op.delete = {} /\ \A w \in op.then : w.side = Other(s)
    PROVE  /\ \E s \in Side : \E c \in U[s] : c.uid = op.uid
           /\ \A w \in op.then : w.over = {} => w.side \in Side /\ \A d \in U[w.side] : d.uid # op.uid
           /\ \A c \in op.delete :
                 /\ c \in U["fastmail"] /\ \A d \in U["icloud"] : d.uid # c.uid
                 /\ \A d \in U["fastmail"] : d.uid = c.uid => d = c
<1>1. CASE \E m \in AllPairs(U) : op = PairOp(U, m)
  <2>1. PICK m \in AllPairs(U) : op = PairOp(U, m)
    BY <1>1
  <2>2. /\ op.uid = m[1].uid /\ \A c \in op.delete : c = m[2] /\ m \notin UidPairs(U)
        /\ \A w \in op.then : w.over = {} => w.side = "fastmail" /\ m \notin UidPairs(U)
    BY <2>1, PairOpIs
  <2>3. /\ m[1] \in U["icloud"] /\ m[2] \in U["fastmail"]
        /\ \A d \in U["fastmail"] : d.uid \in {m[1].uid, m[2].uid} => d = m[2]
        /\ m \notin UidPairs(U) =>
              /\ \A c \in U["icloud"] : c.uid # m[2].uid
              /\ \A d \in U["fastmail"] : d.uid # m[1].uid
    BY PairIsThere
  <2> QED BY <2>2, <2>3, SideValues
<1>2. CASE \E s \in Side : \E c \in Loose(U, s) :
              op.uid = c.uid /\ op.delete = {} /\ \A w \in op.then : w.side = Other(s)
  <2>1. PICK s \in Side : \E c \in Loose(U, s) :
              op.uid = c.uid /\ op.delete = {} /\ \A w \in op.then : w.side = Other(s)
    BY <1>2
  <2>2. PICK c \in Loose(U, s) : op.uid = c.uid /\ op.delete = {} /\ \A w \in op.then : w.side = Other(s)
    BY <2>1
  <2>3. c \in U[s] /\ \A t \in Side : \A d \in U[t] : d.uid = c.uid => t = s /\ d = c
    BY LooseIsThere
  <2>4. Other(s) \in Side /\ Other(s) # s
    BY SideValues DEF Other
  <2> QED BY <2>2, <2>3, <2>4
<1> QED BY <1>1, <1>2

\* A plan, and what it holds or fails.
LEMMA PlanReplans ==
    ASSUME AInv, RInv, Plan
    PROVE  RInv'
<1> DEFINE twins == UNION {{<<s, c>> : c \in {c \in Free(seen, s) : c.uid \in Duplicated(seen)
                                   /\ \E d \in Free(seen, s) : d # c /\ d.uid = c.uid}} : s \in Side}
           U == Unsynced(seen)
<1>1. /\ pc = "plan" /\ pc' = "apply" /\ todo' = CycleOps(seen) /\ held' = HeldCards(seen)
      /\ failures' = Without(twins) \cup {Failure(k[2].uid, k[1], k[2]) : k \in twins} /\ failed' = twins
      /\ UNCHANGED <<book, rows, seen, summary, edits>>
  BY DEF Plan
<1>2. CardsOf(seen) /\ CardsOf(book) /\ edits \in Nat
  BY DEF AInv, Bases
<1>3. Sides(U) /\ \A s \in Side : \A c \in U[s] : Typed(c)
  BY <1>2, UnsyncedTyped
<1>4. /\ todo' \ Copying(todo') = PairOps(U)
      /\ Lasting(Copying(todo')) = LastingCopies(U)
      /\ \A op \in Copying(todo') :
            \E s \in Side : \E c \in Loose(U, s) :
               /\ op.uid = c.uid /\ op.cards = {<<s, c>>} /\ op.delete = {}
               /\ \A w \in op.then : w.side = Other(s)
  BY <1>1, <1>3, PlanIs DEF Typed
<1>5. Pending' = todo'
  BY <1>1 DEF Pending, OpSteps
<1>6. \A op \in todo' : op \in Copying(todo') \/ \E m \in AllPairs(U) : op = PairOp(U, m)
  BY <1>4 DEF PairOps
<1>7. \A op \in todo' : \A k \in op.cards : k[1] \in Side /\ k[2] \in U[k[1]]
  BY <1>3, <1>4, <1>6, OpCards DEF CopiesLoose
<1>8. \A s \in Side : \A c \in U[s] :
         /\ c \in Free(seen, s) /\ rows[c.uid] = None /\ c.uid \notin Duplicated(seen)
  BY DEF Unsynced
<1>9. ASSUME NEW k \in twins
      PROVE  k[2].uid \in Duplicated(seen)
  <2>1. PICK s \in Side : k \in {<<s, c>> : c \in {c \in Free(seen, s) : c.uid \in Duplicated(seen)
                                   /\ \E d \in Free(seen, s) : d # c /\ d.uid = c.uid}}
    OBVIOUS
  <2>2. PICK c \in Free(seen, s) : k = <<s, c>> /\ c.uid \in Duplicated(seen)
    BY <2>1
  <2> QED BY <2>2
<1>10. ASSUME NEW s \in Side, NEW c \in seen[s], NEW d \in seen[s], c # d, c.uid = d.uid, HeldCards(seen) = {}
       PROVE  <<s, c>> \in twins
  <2>1. c \in Free(seen, s) /\ d \in Free(seen, s)
    BY <1>10 DEF Free
  <2>2. c.uid \in Duplicated(seen)
    BY <1>10, <2>1 DEF Duplicated
  <2> QED BY <1>10, <2>1, <2>2
<1> HIDE DEF twins, U
<1>11. ASSUME NEW k \in failed'
       PROVE  FailsAt(k[1], k[2])' /\ \A op \in Pending' : k[2].uid \notin About(op)
  <2> DEFINE f == Failure(k[2].uid, k[1], k[2])
  <2>1. f \in failures' /\ f.side = k[1] /\ f.card = k[2]
    BY <1>1, <1>11 DEF Failure
  <2> HIDE DEF f
  <2>2. FailsAt(k[1], k[2])'
    BY <2>1, HrefsEqual DEF FailsAt
  <2>3. k[2].uid \in Duplicated(seen)
    BY <1>1, <1>9, <1>11
  <2>4. \A op \in Pending' : k[2].uid \notin About(op)
    BY <1>5, <1>7, <1>8, <2>3 DEF About
  <2> QED BY <2>2, <2>4
<1>12. ASSUME NEW k \in held'
       PROVE  /\ FailsAt(k[1], k[2])'
              /\ \A op \in Pending' : \A l \in op.cards : ~ (l[1] = k[1] /\ SameHref(l[2], k[2]))
  <2>1. k \in HeldCards(seen) /\ SameHref(k[2], k[2])
    BY <1>1, <1>12, HrefsEqual
  <2>2. \E f \in failures' : f.side = k[1] /\ SameHref(f.card, k[2])
    BY <1>1, <2>1, HeldHasFailure
  <2>3. ASSUME NEW op \in Pending', NEW l \in op.cards, l[1] = k[1], SameHref(l[2], k[2])
        PROVE  FALSE
    <3>1. l[2] \in Free(seen, l[1])
      BY <1>5, <1>7, <1>8, <2>3
    <3>2. SameHref(k[2], l[2])
      BY <2>3, HrefsEqual
    <3> QED BY <2>1, <2>3, <3>1, <3>2 DEF Free
  <2> QED BY <2>2, <2>3 DEF FailsAt
<1>13. HoldsFailures'
  BY <1>11, <1>12 DEF HoldsFailures
<1>14. ASSUME Untroubled'
       PROVE  Replanned' /\ OneHref'
  <2>1. twins = {} /\ HeldCards(seen) = {} /\ edits = 0
    BY <1>1, <1>14 DEF Untroubled
  <2>2. seen = book
    BY <1>1, <2>1 DEF AInv, Fresh, Reads
  <2>3. Single(seen)
    BY <1>10, <2>1 DEF Single
  <2>4. U = [s \in Side |-> {c \in book[s] : rows[c.uid] = None}]
    BY <2>1, <2>2, <2>3, UnsyncedIs DEF U
  <2>5. Rest' = U
    BY <1>1, <2>4 DEF Rest, OpSteps
  <2>6. Replanned'
    BY <1>4, <2>5 DEF Replanned, CopiesLoose
  <2>7. ASSUME NEW op \in todo'
        PROVE  /\ \E s \in Side : \E c \in U[s] : c.uid = op.uid
               /\ \A w \in op.then : w.over = {} => w.side \in Side /\ \A d \in U[w.side] : d.uid # op.uid
               /\ \A c \in op.delete :
                     /\ c \in U["fastmail"] /\ \A d \in U["icloud"] : d.uid # c.uid
                     /\ \A d \in U["fastmail"] : d.uid = c.uid => d = c
    <3>1. \/ \E m \in AllPairs(U) : op = PairOp(U, m)
          \/ \E s \in Side : \E c \in Loose(U, s) :
                op.uid = c.uid /\ op.delete = {} /\ \A w \in op.then : w.side = Other(s)
      BY <1>4, <1>6
    <3> QED BY <1>3, <3>1, OpHrefs
\* Whoever has the UID of a card without a row has none either.
  <2>8. \A s \in Side, t \in Side : \A c \in U[s] : \A d \in book[t] : d.uid = c.uid => d \in U[t]
    BY <2>4
  <2>9. ASSUME NEW op \in todo', NEW w \in op.then, w.over = {}
        PROVE  op.uid \notin Present(book', w.side)
    BY <1>1, <2>7, <2>8, <2>9 DEF Present
  <2>10. ASSUME NEW op \in todo', NEW c \in op.delete
         PROVE  /\ c.uid \notin Present(book', "icloud")
                /\ \A d \in book'["fastmail"] : d.uid = c.uid => d = c
    BY <1>1, <2>7, <2>8, SideValues DEF Present
  <2>11. OneHref'
    BY <1>1, <1>5, <2>2, <2>3, <2>9, <2>10 DEF OneHref
  <2> QED BY <2>6, <2>11
<1> QED BY <1>13, <1>14 DEF RInv

\* As long as nothing is recorded, whoever failed stays failed.
LEMMA FailuresHeld ==
    ASSUME HoldsFailures, Working, Pending' \subseteq Pending, UNCHANGED <<failures, failed, held>>
    PROVE  HoldsFailures'
BY DEF HoldsFailures, FailsAt

\* Fewer cards, and fewer operations.
LEMMA OneHrefShrinks ==
    ASSUME AInv, OneHref, Pending' \subseteq Pending, pc = "save" => cur \notin Pending',
           \A s \in Side : book'[s] \subseteq book[s]
    PROVE  OneHref'
<1>1. Single(book)'
  BY DEF OneHref, Single
<1>2. \A s \in Side : \A u \in Present(book', s) : u \in Present(book, s)
  BY DEF Present
<1>3. ASSUME NEW op \in Pending', NEW w \in op.then, w.over = {}
      PROVE  op.uid \notin Present(book', w.side)
  <2>1. op \in Pending /\ ~ (op = cur /\ pc = "save")
    BY <1>3
  <2>2. w.side \in Side
    BY <2>1, <1>3 DEF AInv, Bases, Planned, OpOwn, PutOf
  <2>3. op.uid \notin Present(book, w.side)
    BY <1>3, <2>1 DEF OneHref
  <2> QED BY <1>2, <2>2, <2>3
<1>4. ASSUME NEW op \in Pending', NEW c \in op.delete
      PROVE  /\ c.uid \notin Present(book', "icloud")
             /\ \A d \in book'["fastmail"] : d.uid = c.uid => d = c
  <2>1. /\ c.uid \notin Present(book, "icloud")
        /\ \A d \in book["fastmail"] : d.uid = c.uid => d = c
    BY <1>4 DEF OneHref
  <2> QED BY <1>2, <2>1, SideValues
<1> QED BY <1>1, <1>3, <1>4 DEF OneHref

\* A card is written whose UID was not there, or was on the card it replaces.
LEMMA OneHrefServed ==
    ASSUME AInv, OneHref, RunPut, pc' \in OpSteps, pc = "then" => pc' = "save"
    PROVE  OneHref'
<1>1. PICK w \in cur[pc] : Accepts(w) /\ Served(w)
  BY DEF RunPut
<1>2. pc \in {"first", "then"} /\ pc \in OpSteps /\ UNCHANGED <<todo, cur>>
  BY DEF RunPut, OpSteps
<1>3. /\ PutOf(cur, w)
      /\ \A s \in Side : \A c \in book'[s] : c \in book[s] \/ (s = w.side /\ c = w.card)
      /\ cur.uid \in About(cur)
  BY <1>1, <1>2, PutStep
<1>4. /\ OpOwn(cur) /\ cur \in Pending /\ cur \notin todo /\ Pending = todo \cup {cur}
      /\ \A op \in todo : OpOwn(op) /\ About(op) \cap About(cur) = {}
  BY <1>2, CurOwn
<1>5. Pending' = Pending
  BY <1>2 DEF Pending
<1>6. w.side \in Side /\ w.card.uid = cur.uid
  BY <1>3 DEF PutOf
<1>7. w.over = {} => pc = "then" /\ w \in cur.then
  BY <1>1, <1>2, <1>4 DEF OpOwn
<1>8. /\ book'[w.side] = (book[w.side] \ w.over) \cup {w.card}
      /\ \A t \in Side \ {w.side} : book'[t] = book[t]
  BY <1>1, <1>3, ServedCards DEF AInv, Bases
<1>9. w.over = {} => cur.uid \notin Present(book, w.side)
  BY <1>4, <1>7 DEF OneHref
<1>10. \A c \in w.over : w.over = {c} /\ c \in book[w.side] /\ c.uid = cur.uid
  BY <1>1, <1>3 DEF PutOf, Accepts, SameHref
<1>11. Single(book)'
  <2> SUFFICES ASSUME NEW s \in Side, NEW c \in book'[s], NEW d \in book'[s], c.uid = d.uid
               PROVE  c = d
    BY DEF Single
  <2>1. ASSUME NEW e \in book'[s], e.uid = cur.uid, s = w.side
        PROVE  e = w.card
    <3>1. CASE w.over = {}
      BY <1>3, <1>9, <2>1, <3>1 DEF Present
    <3>2. CASE w.over # {}
      <4>1. PICK o : w.over = {o} /\ o \in book[s] /\ o.uid = cur.uid
        BY <1>10, <2>1, <3>2
      <4>2. e # w.card => e \in book[s] /\ e # o
        BY <1>8, <2>1, <4>1
      <4> QED BY <2>1, <4>1, <4>2 DEF OneHref, Single
    <3> QED BY <3>1, <3>2
  <2>2. CASE s = w.side /\ c.uid = cur.uid
    BY <2>1, <2>2
  <2>3. CASE ~ (s = w.side /\ c.uid = cur.uid)
    <3>1. c \in book[s] /\ d \in book[s]
      BY <1>3, <1>6, <2>3
    <3> QED BY <3>1 DEF OneHref, Single
  <2> QED BY <2>2, <2>3
<1>12. \A s \in Side : \A u \in Present(book', s) : u \in Present(book, s) \/ u = cur.uid
  BY <1>3, <1>6 DEF Present
<1>13. w.over # {} => \A s \in Side : \A u \in Present(book', s) : u \in Present(book, s)
  <2> SUFFICES ASSUME w.over # {}, NEW s \in Side, NEW c \in book'[s]
               PROVE  c.uid \in Present(book, s)
    BY DEF Present
  <2>1. CASE c \in book[s]
    BY <2>1 DEF Present
  <2>2. CASE c \notin book[s]
    <3>1. s = w.side /\ c.uid = cur.uid
      BY <1>3, <1>6, <2>2
    <3> QED BY <1>10, <3>1 DEF Present
  <2> QED BY <2>1, <2>2
<1>14. ASSUME NEW op \in Pending', NEW v \in op.then, v.over = {}, ~ (op = cur /\ pc' = "save")
       PROVE  op.uid \notin Present(book', v.side)
  <2>1. op \in Pending /\ OpOwn(op)
    BY <1>4, <1>5, <1>14
  <2>2. v.side \in Side /\ op.uid \in About(op)
    BY <1>14, <2>1 DEF OpOwn, PutOf
  <2>3. op.uid \notin Present(book, v.side)
    BY <1>2, <1>14, <2>1 DEF OneHref
  <2>4. CASE w.over # {}
    BY <1>13, <2>2, <2>3, <2>4
  <2>5. CASE w.over = {}
    <3>1. op \in todo
      BY <1>4, <1>7, <1>14, <2>1, <2>5
    <3>2. op.uid # cur.uid
      BY <1>3, <1>4, <2>2, <3>1
    <3> QED BY <1>12, <2>2, <2>3, <3>2
  <2> QED BY <2>4, <2>5
<1>15. ASSUME NEW op \in Pending', NEW c \in op.delete
       PROVE  /\ c.uid \notin Present(book', "icloud")
              /\ \A d \in book'["fastmail"] : d.uid = c.uid => d = c
  <2>1. op \in Pending /\ OpOwn(op)
    BY <1>4, <1>5, <1>15
  <2>2. c.uid # op.uid /\ c.uid \in About(op)
    <3>1. <<"fastmail", c>> \in op.cards /\ c.uid # op.uid
      BY <1>15, <2>1 DEF OpOwn
    <3>2. <<"fastmail", c>>[2].uid = c.uid
      OBVIOUS
    <3> QED BY <3>1, <3>2 DEF About
  <2>3. c.uid # cur.uid
    <3>1. CASE op = cur
      BY <2>2, <3>1
    <3>2. CASE op # cur
      BY <1>3, <1>4, <2>1, <2>2, <3>2
    <3> QED BY <3>1, <3>2
  <2>4. /\ c.uid \notin Present(book, "icloud")
        /\ \A d \in book["fastmail"] : d.uid = c.uid => d = c
    BY <1>15, <2>1 DEF OneHref
  <2>5. ASSUME NEW d \in book'["fastmail"], d.uid = c.uid
        PROVE  d = c
    <3>1. d \in book["fastmail"]
      BY <1>3, <1>6, <2>3, <2>5, SideValues
    <3> QED BY <2>4, <2>5, <3>1
  <2> QED BY <1>12, <2>3, <2>4, <2>5, SideValues
<1> QED BY <1>5, <1>11, <1>14, <1>15, <1>2 DEF OneHref

\* A step touches no card but the current operation's.
LEMMA StepReplans ==
    ASSUME Untroubled, Replanned, pc \in OpSteps, pc' \in OpSteps, UNCHANGED <<rows, todo, cur>>,
           \A s \in Side : \A c : c.uid \notin About(cur) => (c \in book[s] <=> c \in book'[s])
    PROVE  Replanned'
<1>1. \A s \in Side : {c \in book[s] : rows[c.uid] = None /\ c.uid \notin About(cur)}
                       = {c \in book'[s] : rows[c.uid] = None /\ c.uid \notin About(cur)}
  OBVIOUS
<1>2. Rest' = Rest
  <2>1. Rest = [s \in Side |-> {c \in book[s] : rows[c.uid] = None /\ c.uid \notin About(cur)}]
    BY DEF Rest
  <2>2. Rest' = [s \in Side |-> {c \in book'[s] : rows[c.uid] = None /\ c.uid \notin About(cur)}]
    BY DEF Rest, About
  <2> QED BY <1>1, <2>1, <2>2
<1> QED BY <1>2 DEF Replanned

\* An operation is started.
LEMMA StartOpRest ==
    ASSUME AInv, RInv, StartOp
    PROVE  RInv'
<1>1. PICK op \in todo : todo' = todo \ {op} /\ cur' = op /\ pc' = StepOf(op, 1)
  BY DEF StartOp
<1>2. pc = "apply" /\ UNCHANGED <<book, rows, failures, failed, held, summary, edits>>
  BY DEF StartOp, store, said
<1>3. pc' \in OpSteps
  BY <1>1, EarlyStep
<1>4. Pending' = todo /\ Pending = todo
  BY <1>1, <1>2, <1>3 DEF Pending, OpSteps
<1>5. HoldsFailures'
  BY <1>2, <1>4, FailuresHeld DEF RInv, Working
<1>6. ASSUME Untroubled'
      PROVE  Replanned' /\ OneHref'
  <2>1. Untroubled
    BY <1>2, <1>6 DEF Untroubled, Working
  <2>2. Replanned'
    BY <2>1, StartOpReplans
  <2>3. OneHref'
    BY <1>2, <1>4, <2>1, OneHrefShrinks DEF RInv
  <2> QED BY <2>2, <2>3
<1> QED BY <1>5, <1>6 DEF RInv

\* A step that neither fails nor ends its operation.
LEMMA StepRest ==
    ASSUME AInv, RInv, pc \in OpSteps, pc' \in OpSteps,
           UNCHANGED <<rows, todo, cur, failures, failed, held, summary, edits>>,
           \A s \in Side : \A c : c.uid \notin About(cur) => (c \in book[s] <=> c \in book'[s]),
           Untroubled => OneHref'
    PROVE  RInv'
<1>1. Pending' = Pending
  BY DEF Pending
<1>2. HoldsFailures'
  BY <1>1, FailuresHeld DEF RInv, Working
<1>3. ASSUME Untroubled'
      PROVE  Replanned' /\ OneHref'
  <2>1. Untroubled
    BY <1>3 DEF Untroubled, Working
  <2> QED BY <2>1, StepReplans DEF RInv
<1> QED BY <1>2, <1>3 DEF RInv

\* The two versions go to the history, or the journal keeps the card.
LEMMA QuietRest ==
    ASSUME AInv, RInv, Archive \/ Journal
    PROVE  RInv'
<1>1. /\ pc \in {"archive", "journal"} /\ Continue
      /\ UNCHANGED <<book, rows, todo, cur, failures, failed, held, summary, edits>>
  BY DEF Archive, Journal, said
<1>2. PICK k \in 1 .. 4 : pc' = StepOf(cur, k)
  BY <1>1, NextStep
<1>3. pc \in OpSteps /\ pc' \in OpSteps
  BY <1>1, <1>2, EarlyStep DEF OpSteps
<1>4. Pending' = Pending
  BY <1>1, <1>3 DEF Pending
<1>5. Untroubled => OneHref'
  BY <1>1, <1>4, OneHrefShrinks DEF RInv
<1> QED BY <1>1, <1>3, <1>5, StepRest

\* A PUT that the server takes.
LEMMA RunPutRest ==
    ASSUME AInv, RInv, RunPut
    PROVE  RInv'
<1>1. PICK w \in cur[pc] : Accepts(w) /\ Served(w)
  BY DEF RunPut
<1>2. /\ pc \in {"first", "then"} /\ pc \in OpSteps /\ Continue
      /\ UNCHANGED <<rows, todo, cur, failures, failed, held, summary, edits>>
  BY DEF RunPut, store, said, OpSteps
<1>3. pc' \in OpSteps /\ (pc = "then" => pc' = "save")
  <2>1. CASE pc = "first"
    <3>1. PICK k \in 1 .. 4 : pc' = StepOf(cur, k)
      BY <1>2, <2>1, NextStep
    <3> QED BY <1>2, <2>1, <3>1, EarlyStep
  <2>2. CASE pc = "then"
    BY <1>2, <2>2, ContinueMeans, OrderIs, StepFacts DEF OpSteps
  <2> QED BY <1>2, <2>1, <2>2
<1>4. /\ PutOf(cur, w) /\ cur.uid \in About(cur)
      /\ \A s \in Side : \A c \in book'[s] : c \in book[s] \/ (s = w.side /\ c = w.card)
      /\ \A s \in Side : \A c \in book[s] : c \in book'[s] \/ c.uid = cur.uid
  BY <1>1, <1>2, PutStep
<1>5. w.card.uid = cur.uid
  BY <1>4 DEF PutOf
<1>6. \A s \in Side : \A c : c.uid \notin About(cur) => (c \in book[s] <=> c \in book'[s])
  BY <1>4, <1>5
<1>7. Untroubled => OneHref'
  BY <1>3, OneHrefServed DEF RInv
<1> QED BY <1>2, <1>3, <1>6, <1>7, StepRest

\* The replaced card is deleted.
LEMMA RunDeleteRest ==
    ASSUME AInv, RInv, RunDelete
    PROVE  RInv'
<1>1. /\ pc = "delete" /\ pc \in OpSteps /\ Continue
      /\ book' = [book EXCEPT !["fastmail"] = @ \ cur.delete]
      /\ UNCHANGED <<rows, todo, cur, failures, failed, held, summary, edits>>
  BY DEF RunDelete, store, said, OpSteps
<1>2. pc' \in OpSteps
  BY <1>1, ContinueMeans, OrderIs, StepFacts DEF OpSteps
<1>3. book = [s \in Side |-> book[s]]
  BY DEF AInv, Bases, CardsOf
<1>4. /\ book'["icloud"] = book["icloud"] /\ book'["fastmail"] = book["fastmail"] \ cur.delete
  BY <1>1, <1>3, SideValues
<1>5. OpOwn(cur)
  BY <1>1, CurOwn
<1>6. \A c \in cur.delete : c.uid \in About(cur)
  <2> TAKE c \in cur.delete
  <2>1. <<"fastmail", c>> \in cur.cards /\ <<"fastmail", c>>[2] = c
    BY <1>5 DEF OpOwn
  <2> QED BY <2>1 DEF About
<1>7. \A s \in Side : \A c : c.uid \notin About(cur) => (c \in book[s] <=> c \in book'[s])
  BY <1>4, <1>6, SideValues
<1>8. Pending' = Pending
  BY <1>1, <1>2 DEF Pending
<1>9. \A s \in Side : book'[s] \subseteq book[s]
  BY <1>4, SideValues
<1>10. Untroubled => OneHref'
  BY <1>1, <1>8, <1>9, OneHrefShrinks DEF RInv
<1> QED BY <1>1, <1>2, <1>7, <1>10, StepRest

\* The row is stored: the operation's contact leaves the model, and its cards
\* were not in the rest.
LEMMA SaveRest ==
    ASSUME ~ IsContent(None), AInv, RInv, Save
    PROVE  RInv'
<1>1. /\ pc = "save" /\ pc \in OpSteps /\ pc' = "apply"
      /\ rows' = [rows EXCEPT ![cur.uid] = cur.content]
      /\ failures' = Without(cur.cards) /\ summary' = Applied(summary, cur)
      /\ UNCHANGED <<book, todo, failed, held, edits>>
  BY DEF Save, EndOp, OpSteps
<1>2. /\ OpOwn(cur) /\ OpCounts(cur) /\ cur \in Pending /\ cur \notin todo /\ Pending = todo \cup {cur}
  BY <1>1, CurOwn
<1>3. Pending' = todo
  BY <1>1 DEF Pending, OpSteps
<1>4. cur.content # None /\ cur.uid \in Uid /\ DOMAIN rows = Uid
  BY <1>2 DEF AInv, Bases, OpOwn
<1>5. summary'.state_errors = summary.state_errors
  BY <1>1, <1>2, AppliedIs DEF AInv, Reported, Working
\* Clearing the failures of this operation's cards clears nobody else's.
<1>6. ASSUME NEW s, NEW c, FailsAt(s, c), \A k \in cur.cards : ~ (k[1] = s /\ SameHref(k[2], c))
      PROVE  FailsAt(s, c)'
  <2>1. PICK f \in failures : f.side = s /\ SameHref(f.card, c)
    BY <1>6 DEF FailsAt
  <2>2. \A k \in cur.cards : ~ (k[1] = f.side /\ SameHref(k[2], f.card))
    BY <1>6, <2>1, HrefsEqual
  <2>3. f \in failures'
    BY <1>1, <2>2 DEF Without
  <2> QED BY <2>1, <2>3 DEF FailsAt
<1>7. HoldsFailures'
  <2>1. ASSUME NEW k \in failed
        PROVE  FailsAt(k[1], k[2])' /\ \A op \in Pending' : k[2].uid \notin About(op)
    <3>1. FailsAt(k[1], k[2]) /\ \A op \in Pending : k[2].uid \notin About(op)
      BY <1>1, <2>1 DEF RInv, HoldsFailures, Working
    <3>2. \A l \in cur.cards : ~ (l[1] = k[1] /\ SameHref(l[2], k[2]))
      BY <1>2, <3>1 DEF About, SameHref
    <3> QED BY <1>2, <1>3, <1>6, <3>1, <3>2
  <2>2. ASSUME NEW k \in held
        PROVE  /\ FailsAt(k[1], k[2])'
               /\ \A op \in Pending' : \A l \in op.cards : ~ (l[1] = k[1] /\ SameHref(l[2], k[2]))
    <3>1. /\ FailsAt(k[1], k[2])
          /\ \A op \in Pending : \A l \in op.cards : ~ (l[1] = k[1] /\ SameHref(l[2], k[2]))
      BY <1>1, <2>2 DEF RInv, HoldsFailures, Working
    <3> QED BY <1>2, <1>3, <1>6, <3>1
  <2> QED BY <1>1, <2>1, <2>2 DEF HoldsFailures
<1>8. ASSUME Untroubled'
      PROVE  Replanned' /\ OneHref'
  <2>1. Untroubled
    BY <1>1, <1>5, <1>8 DEF Untroubled, Working
  <2>2. Replanned /\ OneHref /\ edits = 0
    BY <2>1 DEF RInv, Untroubled
  <2>3. OneHref'
    BY <1>1, <1>2, <1>3, <2>2, OneHrefShrinks
  <2>4. ASSUME NEW s \in Side, NEW c \in book[s], rows'[c.uid] = None
        PROVE  rows[c.uid] = None /\ c.uid \notin About(cur)
    <3>1. c.uid \in Uid
      BY DEF AInv, Bases, CardsOf, Typed
    <3>2. c.uid # cur.uid /\ rows[c.uid] = None
      BY <1>1, <1>4, <2>4, <3>1
    <3>3. ASSUME NEW k \in cur.cards, k[2].uid = c.uid
          PROVE  FALSE
      <4>1. k[2] \in cur.delete
        BY <1>2, <3>2, <3>3 DEF OpOwn, CardOf
      <4>2. /\ k[2].uid \notin Present(book, "icloud")
            /\ \A d \in book["fastmail"] : d.uid = k[2].uid => d = k[2]
        BY <1>2, <2>2, <4>1 DEF OneHref
      <4>3. At("fastmail", k[2]) = {}
        BY <1>1, <2>2, <4>1 DEF AInv, Deleted
      <4>4. s = "fastmail" /\ c = k[2]
        BY <3>3, <4>2, SideValues DEF Present
      <4> QED BY <4>3, <4>4 DEF At
    <3> QED BY <3>2, <3>3 DEF About
  <2>5. ASSUME NEW s \in Side, NEW c \in book[s], rows[c.uid] = None, c.uid \notin About(cur)
        PROVE  rows'[c.uid] = None
    <3>1. c.uid \in Uid /\ cur.uid \in About(cur)
      BY <1>2 DEF AInv, Bases, CardsOf, Typed, OpOwn
    <3> QED BY <1>1, <1>4, <2>5, <3>1
  <2>6. Rest' = Rest
    <3>1. Rest = [s \in Side |-> {c \in book[s] : rows[c.uid] = None /\ c.uid \notin About(cur)}]
      BY <1>1 DEF Rest
    <3>2. Rest' = [s \in Side |-> {c \in book[s] : rows'[c.uid] = None}]
      BY <1>1 DEF Rest, OpSteps
    <3>3. \A s \in Side : {c \in book[s] : rows'[c.uid] = None}
                              = {c \in book[s] : rows[c.uid] = None /\ c.uid \notin About(cur)}
      BY <2>4, <2>5
    <3> QED BY <3>1, <3>2, <3>3
  <2>7. Replanned'
    BY <1>1, <2>2, <2>6 DEF Replanned
  <2> QED BY <2>3, <2>7
<1> QED BY <1>7, <1>8 DEF RInv

\* An operation fails: its cycle is no longer untroubled.
LEMMA FailOpRest ==
    ASSUME AInv, RInv, pc \in OpSteps, FailOp
    PROVE  RInv'
<1>1. /\ pc' = "apply" /\ RecordFailures(cur.uid, FailedCards)
      /\ failed' = failed \cup FailedCards /\ summary' = FailedOp(summary, cur)
      /\ UNCHANGED <<rows, todo, held, edits>>
  BY DEF FailOp, EndOp
<1>2. /\ OpOwn(cur) /\ OpCounts(cur) /\ cur \in Pending /\ cur \notin todo /\ Pending = todo \cup {cur}
      /\ \A op \in todo : About(op) \cap About(cur) = {}
  BY CurOwn
<1>3. Pending' = todo
  BY <1>1 DEF Pending, OpSteps
<1>4. ASSUME NEW k \in FailedCards
      PROVE  k[2].uid \in About(cur)
  <2>1. CASE k \in wrote
    BY <1>2, <2>1 DEF AInv, Bases, Written, OpOwn
  <2>2. CASE k \in cur.cards
    BY <2>2 DEF About
  <2> QED BY <2>1, <2>2 DEF FailedCards
<1>5. ASSUME NEW k \in failed'
      PROVE  FailsAt(k[1], k[2])' /\ \A op \in Pending' : k[2].uid \notin About(op)
  <2>1. CASE k \in FailedCards
    <3>1. \E l \in FailedCards : l[1] = k[1] /\ SameHref(l[2], k[2])
      BY <2>1, HrefsEqual
    <3>2. FailsAt(k[1], k[2])'
      BY <1>1, <3>1, FailureStays DEF FailsAt
    <3> QED BY <1>2, <1>3, <1>4, <2>1, <3>2
  <2>2. CASE k \in failed
    <3>1. FailsAt(k[1], k[2]) /\ \A op \in Pending : k[2].uid \notin About(op)
      BY <2>2 DEF RInv, HoldsFailures, Working
    <3>2. FailsAt(k[1], k[2])'
      BY <1>1, <3>1, FailureStays DEF FailsAt
    <3> QED BY <1>2, <1>3, <3>1, <3>2
  <2> QED BY <1>1, <1>5, <2>1, <2>2
<1>6. ASSUME NEW k \in held'
      PROVE  /\ FailsAt(k[1], k[2])'
             /\ \A op \in Pending' : \A l \in op.cards : ~ (l[1] = k[1] /\ SameHref(l[2], k[2]))
  <2>1. /\ FailsAt(k[1], k[2])
        /\ \A op \in Pending : \A l \in op.cards : ~ (l[1] = k[1] /\ SameHref(l[2], k[2]))
    BY <1>1, <1>6 DEF RInv, HoldsFailures, Working
  <2>2. FailsAt(k[1], k[2])'
    BY <1>1, <2>1, FailureStays DEF FailsAt
  <2> QED BY <1>2, <1>3, <2>1, <2>2
<1>7. HoldsFailures'
  BY <1>5, <1>6 DEF HoldsFailures
<1>8. failed' # {} \/ summary'.state_errors # 0
  <2>1. CASE cur.kind = "Adopt"
    BY <1>1, <1>2, <2>1, FailedIs DEF AInv, Reported, Working
  <2>2. CASE cur.kind # "Adopt"
    <3>1. PICK k \in cur.cards : TRUE
      BY <1>2 DEF OpOwn, About
    <3>2. FailedCards = wrote \cup {l \in cur.cards : ~ \E w \in wrote : w[1] = l[1] /\ SameHref(w[2], l[2])}
      BY <2>2 DEF FailedCards
    <3>3. FailedCards # {}
      BY <3>1, <3>2
    <3> QED BY <1>1, <3>3
  <2> QED BY <2>1, <2>2
<1>9. ~ Untroubled'
  BY <1>8 DEF Untroubled
<1> QED BY <1>7, <1>9 DEF RInv

\* Outside a cycle that runs its plan there is nothing to say.
LEMMA IdleRest ==
    ASSUME ~ Working'
    PROVE  RInv'
BY DEF RInv, HoldsFailures, Untroubled

\* People, who write: nothing is asked of the plan any more.
LEMMA EditRest ==
    ASSUME AInv, RInv, UserEdit \/ UserDelete
    PROVE  RInv'
<1>1. edits' = edits + 1 /\ UNCHANGED <<store, cycle>>
  BY DEF UserEdit, UserDelete, MayEdit
<1>2. UNCHANGED <<pc, todo, cur, failures, failed, held>>
  BY <1>1 DEF store, cycle
<1>3. edits' # 0
  BY <1>1 DEF AInv, Bases
<1>4. Pending' = Pending
  BY <1>2 DEF Pending
<1>5. HoldsFailures'
  <2>1. CASE Working
    BY <1>2, <1>4, <2>1, FailuresHeld DEF RInv
  <2>2. CASE ~ Working
    BY <1>2, <2>2 DEF HoldsFailures, Working
  <2> QED BY <2>1, <2>2
<1> QED BY <1>3, <1>5 DEF RInv, Untroubled

\* A run begins with nothing planned, and no step changes what is left to run.
LEMMA InitRest == Init => RInv
BY DEF Init, RInv, HoldsFailures, Untroubled, Working, OpSteps

LEMMA NextRest ==
    ASSUME ~ IsContent(None)
    PROVE  AInv /\ RInv /\ [Next]_vars => RInv'
<1> SUFFICES ASSUME AInv, RInv, [Next]_vars
             PROVE  RInv'
  OBVIOUS
<1>1. CASE UserEdit \/ UserDelete
  BY <1>1, EditRest
<1>2. CASE BackoffPasses
  <2>1. pc' = "wait"
    BY <1>2 DEF BackoffPasses, cycle
  <2> QED BY <2>1, IdleRest DEF Working, OpSteps
<1>3. CASE Wake \/ Look \/ DropEntry \/ ReplayPut \/ Replayed \/ ReplayRejected
  <2>1. pc' \notin OpSteps \cup {"apply"}
    <3>1. CASE Wake \/ Replayed
      BY <3>1 DEF Wake, Replayed, OpSteps
    <3>2. CASE Look
      <4>1. pc' \in {"list icloud", "replay", "read fastmail", "plan"}
        BY <3>2, LookIs
      <4> QED BY <4>1 DEF OpSteps
    <3>3. CASE DropEntry \/ ReplayPut \/ ReplayRejected
      <4>1. pc = "replay" /\ pc' = pc
        BY <3>3 DEF DropEntry, ReplayPut, ReplayRejected
      <4> QED BY <4>1 DEF OpSteps
    <3> QED BY <1>3, <3>1, <3>2, <3>3
  <2> QED BY <2>1, IdleRest DEF Working
<1>4. CASE Plan
  BY <1>4, PlanReplans
<1>5. CASE StartOp
  BY <1>5, StartOpRest
<1>6. CASE Archive \/ Journal
  BY <1>6, QuietRest
<1>7. CASE RunPut
  BY <1>7, RunPutRest
<1>8. CASE RunDelete
  BY <1>8, RunDeleteRest
<1>9. CASE Save
  BY <1>9, SaveRest
<1>10. CASE Refused \/ Rejected
  <2>1. pc \in OpSteps /\ FailOp
    BY <1>10 DEF Refused, Rejected, OpSteps
  <2> QED BY <2>1, FailOpRest
<1>11. CASE Finish \/ Crash \/ ReplayAborted \/ Aborted
  <2>1. pc' = "wait"
    BY <1>11 DEF Finish, Crash, ReplayAborted, Aborted, CutOff, EndCycle
  <2> QED BY <2>1, IdleRest DEF Working, OpSteps
<1>12. CASE UNCHANGED vars
  <2>1. UNCHANGED <<book, rows, failures, pc, todo, cur, failed, held, summary, edits>>
    BY <1>12 DEF vars, store, cycle, said
  <2>2. Pending' = Pending /\ Rest' = Rest
    BY <2>1 DEF Pending, Rest, About
  <2>3. HoldsFailures'
    BY <2>1, <2>2 DEF RInv, HoldsFailures, FailsAt, Working
  <2>4. Untroubled' => Replanned' /\ OneHref'
    BY <2>1, <2>2 DEF RInv, Untroubled, Working, Replanned, OneHref
  <2> QED BY <2>3, <2>4 DEF RInv
<1> QED
  BY <1>1, <1>2, <1>3, <1>4, <1>5, <1>6, <1>7, <1>8, <1>9, <1>10, <1>11, <1>12
  DEF Next, Daemon, Faulty

\* Between two operations, with nothing failed, a plan made afresh is what is
\* left of the old one.
LEMMA RestReplans == AInv /\ RInv /\ edits = 0 => ReplansTheRest
<1> SUFFICES ASSUME AInv, RInv, edits = 0, pc = "apply", failures = {}, summary.state_errors = 0
             PROVE  Lasting(CycleOps(book)) = Lasting(todo)
  BY DEF ReplansTheRest
<1>1. Working
  BY DEF Working
<1>2. failed = {} /\ held = {}
  BY <1>1 DEF RInv, HoldsFailures, FailsAt
<1>3. Replanned /\ OneHref
  BY <1>1, <1>2 DEF RInv, Untroubled
<1>4. HeldCards(book) = {}
  BY DEF HeldCards
<1>5. Unsynced(book) = Rest
  <2>1. Unsynced(book) = [s \in Side |-> {c \in book[s] : rows[c.uid] = None}]
    BY <1>3, <1>4, UnsyncedIs DEF OneHref
  <2> QED BY <2>1 DEF Rest, OpSteps
<1>6. Sides(Rest)
  BY <1>3, RestSides DEF OneHref
<1>7. \A s \in Side : \A c \in Rest[s] : IsContent(c.content)
  BY RestIs DEF AInv, Bases, CardsOf, Typed
<1> DEFINE ops == CycleOps(book)
<1>8. ops \ Copying(ops) = PairOps(Rest) /\ Lasting(Copying(ops)) = LastingCopies(Rest)
  BY <1>5, <1>6, <1>7, PlanIs
<1>9. todo \ Copying(todo) = PairOps(Rest) /\ Lasting(Copying(todo)) = LastingCopies(Rest)
  BY <1>3 DEF Replanned
<1> HIDE DEF ops
<1>10. \A set : Lasting(set) = Lasting(set \ Copying(set)) \cup Lasting(Copying(set))
  BY DEF Lasting, Copying
<1>11. Lasting(ops) = Lasting(todo)
  BY <1>8, <1>9, <1>10
<1> QED BY <1>11 DEF ops

\* Interrupting a cycle between two operations changes neither how cards are
\* paired nor which named contacts are copied (ReplansTheRest), whatever the
\* address books held, whoever won and whatever failed before, as long as
\* nobody edits a card.  What stands for no row is no card's content.
THEOREM ReplansTheRestHolds ==
    ASSUME ~ IsContent(None)
    PROVE  Spec /\ [] (edits = 0) => [] ReplansTheRest
<1>1. Spec => [] AInv
  BY InitAccounts, NextAccounts, PTL DEF Spec
<1>2. Spec => [] RInv
  BY <1>1, InitRest, NextRest, PTL DEF Spec
<1>3. AInv /\ RInv /\ edits = 0 => ReplansTheRest
  BY RestReplans
<1> QED BY <1>1, <1>2, <1>3, PTL
=============================================================================
