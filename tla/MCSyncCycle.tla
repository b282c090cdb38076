----------------------------- MODULE MCSyncCycle -----------------------------
(***************************************************************************)
(* Values for the constants of SyncCycle.                                  *)
(***************************************************************************)
EXTENDS SyncCycle, TLC

CONSTANTS ann, bob, h1, h2, b1, b2, b3, garbage

\* One contact's cards are created at h1, the other's at h2.
MintOne == (ann :> h1)
MintTwo == (ann :> h1) @@ (bob :> h2)

\* Where the contacts synced at the start are: ann where she was created; or
\* each on Fastmail at the href the other's card would be created at.
NoHome == [u \in {} |-> MintOne]
HomeBoth ==
    (ann :> [s \in Side |-> IF s = "icloud" THEN h1 ELSE h2]) @@
    (bob :> [s \in Side |-> IF s = "icloud" THEN h2 ELSE h1])
HomeMinted == [u \in {ann} |-> [s \in Side |-> h1]]

BodySymmetry == Permutations(Body)

BothSides == {"icloud", "fastmail"}
ICloudOnly == {"icloud"}
AllFaults == FaultKinds
AlwaysEtag == {TRUE}
SometimesEtag == {TRUE, FALSE}
=============================================================================
