----------------------------- MODULE MCPhotoCycle -----------------------------
(***************************************************************************)
(* Values for the constants of PhotoCycle.                                 *)
(***************************************************************************)
EXTENDS PhotoCycle

CONSTANTS small, big, huge, odd, shrunk

\* A picture that fits, one that is shrunk to fit, and one that cannot be.
Fits == [p \in Picture |-> IF p = big THEN shrunk ELSE IF p = huge THEN None ELSE p]

Begin(s, pic) ==
    Card("a", IF s = "icloud" /\ pic # None /\ pic \notin Odd THEN Photo(pic, 1) ELSE Photo(pic, NoUri),
         IF s = "icloud" THEN 1 ELSE 2)

\* A new contact on either side, and pairs with a photo on one side alone,
\* or with two different ones.
OneSide ==
    {[s \in Side |-> IF s = from THEN Begin(s, p) ELSE Gone(IF s = "icloud" THEN 1 ELSE 2)] :
        from \in Side, p \in {None, big, odd}}

Pair(p, q) == [s \in Side |-> Begin(s, IF s = "icloud" THEN p ELSE q)]

AnyStart == OneSide \cup {Pair(None, big), Pair(big, None), Pair(None, huge), Pair(small, big)}
=============================================================================
