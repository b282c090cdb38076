---------------------------- MODULE AddressBooks ----------------------------
(***************************************************************************)
(* The two CardDAV collections Cardigan keeps in sync, and the people who  *)
(* edit them.  The servers are outside the repository; what is modelled is *)
(* what core/src/addressbook/port.rs relies on and                         *)
(* carddav/src/{write,multiget,sync}.rs asks of them.                      *)
(*                                                                         *)
(* A card is its UID and a body.  Two cards with equal bodies have equal   *)
(* canonical hashes.  An ETag is the number of writes its href has had,    *)
(* so an href never carries one ETag for two contents.                     *)
(***************************************************************************)
EXTENDS Naturals

CONSTANTS
    Uid,         \* contacts; different UIDs are different people
    Href,        \* resource names within a collection
    Body,        \* contents a card can have
    Unreadable,  \* the content of a card that does not parse
    None,        \* no card, no row, no failure
    UserCopies,  \* whether people put one UID at a second href of a side
    PutsBack     \* whether people put a card at an href or side that lost one

Side == {"icloud", "fastmail"}

Other(s) == IF s = "icloud" THEN "fastmail" ELSE "icloud"

Card == [uid : Uid, body : Body \cup {Unreadable}]

ASSUME NoneAssumption == None \notin Card

\* An href and the ETag its card had when it was read or written.
Resource == [href : Href, etag : Nat]

VARIABLES
    card,        \* card[s][h]: the card at href h of side s, or None
    ver,         \* ver[s][h]: how many writes h has had; its card's ETag
    sinceStored, \* sinceStored[s]: s changed after the stored sync token
    sinceListed  \* sinceListed[s]: s changed after this cycle's listing

books == <<card, ver, sinceStored, sinceListed>>

BooksTypeOK ==
    /\ card \in [Side -> [Href -> Card \cup {None}]]
    /\ ver \in [Side -> [Href -> Nat]]
    /\ sinceStored \in [Side -> BOOLEAN]
    /\ sinceListed \in [Side -> BOOLEAN]

(***************************************************************************)
(* What a side answers.                                                    *)
(***************************************************************************)

\* The cards of contact u on side s.
CardsOf(s, u) == {h \in Href : card[s][h] # None /\ card[s][h].uid = u}

\* A full listing: every href with its ETag, 0 where there is no card.
Listing(s) == [h \in Href |-> IF card[s][h] = None THEN 0 ELSE ver[s][h]]

\* A conditional write's precondition: If-None-Match: * is written as the
\* ETag 0, anything else is If-Match.
Matches(s, target) ==
    IF target.etag = 0
    THEN card[s][target.href] = None
    ELSE card[s][target.href] # None /\ ver[s][target.href] = target.etag

(***************************************************************************)
(* How a side changes.  Every change, the daemon's own included, shows in  *)
(* the sync-collection delta of any token handed out before it.            *)
(***************************************************************************)
Touch(s) ==
    /\ sinceStored' = [sinceStored EXCEPT ![s] = TRUE]
    /\ sinceListed' = [sinceListed EXCEPT ![s] = TRUE]

Write(s, h, c) ==
    /\ card' = [card EXCEPT ![s][h] = c]
    /\ ver' = [ver EXCEPT ![s][h] = @ + 1]
    /\ Touch(s)

Remove(s, h) ==
    /\ card' = [card EXCEPT ![s][h] = None]
    /\ Touch(s)
    /\ UNCHANGED ver

\* A person, or another client, writes or edits a card.
UserWrites(s, h, c) ==
    /\ card[s][h] # c
    /\ UserCopies \/ CardsOf(s, c.uid) \subseteq {h}
    /\ PutsBack \/ card[s][h] # None \/ \A g \in Href : ver[s][g] = 0
    /\ Write(s, h, c)

UserDeletes(s, h) ==
    /\ card[s][h] # None
    /\ Remove(s, h)
=============================================================================
