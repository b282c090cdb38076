------------------------------ MODULE MCBaseline ------------------------------
(***************************************************************************)
(* Values for the constants of Baseline.                                   *)
(***************************************************************************)
EXTENDS Baseline

CONSTANTS x1, x2, y1, y2, g

Face(name, points, org, note) ==
    [name |-> name, points |-> points, org |-> org, members |-> {}, note |-> note]

Own(u, content, photo) == [uid |-> u, at |-> "own", content |-> content, photo |-> photo]

\* One person under two UIDs, with the Fastmail card's own photo, and the
\* versions people may turn either card into.
Ann(note) == Face("ann", {"a@"}, NoOrg, note)
AnnVersions == {Ann(1), Ann(2), Ann(3)}

OnePerson ==
    {[s \in Side |-> IF s = "icloud" THEN {Own(x1, Ann(1), FALSE)}
                     ELSE {Own(y1, Ann(n), TRUE)}] : n \in {1, 2}}

\* A Fastmail group that lists the person.
Family == [name |-> "family", points |-> {}, org |-> NoOrg, members |-> {y1}, note |-> 1]

PersonInGroup ==
    {[s \in Side |-> IF s = "icloud" THEN {Own(x1, Ann(1), FALSE)}
                     ELSE {Own(y1, Ann(1), TRUE), Own(g, Family, FALSE)}]}

\* Up to two cards a side, of people who may share a name, an email, a
\* phone, a company or a UID, or have no name at all.
Faces ==
    {Face("ann", {"a@"}, NoOrg, 1), Face("ann", {"a@", "555"}, NoOrg, 2),
     Face("ann", {"b@"}, NoOrg, 1), Face("ann", {}, "acme", 1),
     Face(Nameless, {"555"}, NoOrg, 1), Face(Nameless, {"b@", "555"}, NoOrg, 1)}

Cards(u) == {Own(u, f, FALSE) : f \in Faces}

UpToTwo(u, v) ==
    {{}} \cup {{c} : c \in Cards(u)} \cup {{c, d} : c \in Cards(u), d \in Cards(v)}

TwoCards ==
    {[s \in Side |-> IF s = "icloud" THEN i ELSE f] :
        i \in UpToTwo(x1, x2), f \in UpToTwo(y1, y2)}

\* The same with one UID on both sides, for two versions of one named card.
SharedUid ==
    {[s \in Side |-> IF s = "icloud" THEN i ELSE f] :
        i \in {u \in UpToTwo(x1, x2) : \E c \in u : c.uid = x1 /\ c.content.name = "ann"},
        f \in {u \in UpToTwo(x1, y2) : \E c \in u : c.uid = x1 /\ c.content.name = "ann"}}

Steps == {"list fastmail", "list icloud", "replay", "read icloud", "read fastmail", "plan",
          "apply", "archive", "first", "journal", "delete", "then", "save"}

\* Any two faults but a replayed card that the server rejects: pairing then
\* copies the iCloud card instead.
NoRejectedReplay ==
    LET any == ({"crash", "reject", "unsent", "lost", "store"} \X Steps) \ {<<"reject", "replay">>}
    IN  <<any, any>>

\* One crash, or a row that cannot be stored, and then perhaps a replay that
\* is rejected.
OneFault == <<({"crash"} \X Steps) \cup {<<"store", "save">>}, {<<"reject", "replay">>}>>

\* A Fastmail group of the person, who is on iCloud once or twice (and then
\* is skipped), and of somebody who is on Fastmail alone.
Ben == Face("ben", {"b@"}, NoOrg, 1)

LargerFamily == [Family EXCEPT !.members = {y1, y2}]

MembersSkipped ==
    {[s \in Side |-> IF s = "icloud" THEN {Own(u, Ann(1), FALSE) : u \in people}
                     ELSE {Own(y1, Ann(1), TRUE), Own(y2, Ben, FALSE), Own(g, LargerFamily, FALSE)}] :
        people \in {{x1}, {x1, x2}}}

\* Three contacts without a name: the first and the second share a phone,
\* the second and the third an email.
Chain ==
    {[s \in Side |-> IF s = "fastmail" THEN {}
                     ELSE {Own(x1, Face(Nameless, {"555"}, NoOrg, 1), FALSE),
                           Own(x2, Face(Nameless, {"b@", "555"}, NoOrg, 1), FALSE),
                           Own(y2, Face(Nameless, {"b@"}, NoOrg, 1), FALSE)}]}

\* One UID under two names, of which a second Fastmail card has one.
TwoNames ==
    {[s \in Side |-> IF s = "icloud" THEN {Own(x1, Ann(1), FALSE)}
                     ELSE {Own(x1, Ben, FALSE), Own(y1, Ann(2), FALSE)}]}

CutBooks == TwoCards \cup SharedUid \cup PersonInGroup \cup MembersSkipped \cup Chain \cup TwoNames
=============================================================================
