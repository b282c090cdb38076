------------------------------ MODULE AtomicBook ------------------------------
(***************************************************************************)
(* What a sync cycle relies on of one side's address book                  *)
(* (core/src/addressbook/port.rs), however many requests a listing takes:  *)
(* a listing is the whole collection at one instant, and the token stored  *)
(* with it knows of every change since that instant.                       *)
(***************************************************************************)
EXTENDS Naturals

CONSTANT Href

VARIABLES
    book,    \* book[h]: the ETag of the card at h; 0 where there is none
    listing, \* this cycle's listing, if it has one: {} or a singleton
    kept     \* the listing the state store and its token stand for

vars == <<book, listing, kept>>

\* What was there, and the hrefs a delta from its token would name.
Listing == [entries : [Href -> Nat], since : SUBSET Href]

Init ==
    /\ book \in [Href -> Nat]
    /\ listing = {}
    /\ kept = [entries |-> [h \in Href |-> 0], since |-> Href]

After(list, h) == [list EXCEPT !.since = @ \cup {h}]

\* Anybody, the daemon included, changes a card.
Change(h) ==
    /\ book' = [book EXCEPT ![h] = book'[h]] /\ book'[h] \in Nat
    /\ listing' = {After(list, h) : list \in listing}
    /\ kept' = After(kept, h)

\* Without sync-collection there is no token, and nothing knows what changed.
List ==
    /\ \E since \in {{}, Href} : listing' = {[entries |-> book, since |-> since]}
    /\ UNCHANGED <<book, kept>>

Store ==
    /\ kept' \in listing /\ listing' = {}
    /\ UNCHANGED book

Drop == listing' = {} /\ UNCHANGED <<book, kept>>

\* The token is no longer of use.
Forget ==
    /\ kept' = [kept EXCEPT !.since = Href]
    /\ UNCHANGED <<book, listing>>

Next == (\E h \in Href : Change(h)) \/ List \/ Store \/ Drop \/ Forget

Spec == Init /\ [][Next]_vars

TypeOK ==
    /\ book \in [Href -> Nat]
    /\ listing \subseteq Listing
    /\ kept \in Listing

\* What a listing says of an href holds until the token tells otherwise.
True(list) == \A h \in Href \ list.since : list.entries[h] = book[h]

NothingMissed == \A list \in listing \cup {kept} : True(list)
=============================================================================
