------------------------------ MODULE Failures ------------------------------
(***************************************************************************)
(* What a failing card costs: the errors that end a cycle, the backoff of  *)
(* a card that keeps failing, and the cards a cycle leaves alone.  Times   *)
(* are counted down: `wait` is what is left until next_retry_at.           *)
(***************************************************************************)
EXTENDS Integers, FiniteSets

CONSTANTS Poll,          \* the poll interval
          BackoffCap,    \* the longest wait of a failing card
          MaxAttempts,   \* bound on the attempts counted
          None

ASSUME FailuresAssumption ==
    /\ Poll \in Nat \ {0}
    /\ BackoffCap \in Nat \ {0}
    /\ MaxAttempts \in Nat \ {0}

Least(a, b) == IF a < b THEN a ELSE b
Most(a, b) == IF a > b THEN a ELSE b

\* Counts down to zero.
Left(wait, passed) == Most(wait - passed, 0)

(***************************************************************************)
(* Errors of an address book, and what they do to a cycle.                 *)
(***************************************************************************)
Errors == {"PreconditionFailed", "Permanent", "Transient", "RateLimited", "Unauthorized"}

IsTransient(error) == error \in {"Transient", "RateLimited"}

\* The error ends the cycle, not one card's operation.
IsCycleFatal(error) == IsTransient(error) \/ error = "Unauthorized"

(***************************************************************************)
(* Backoff (BackoffPolicy).                                                *)
(***************************************************************************)
Base == Least(Poll, BackoffCap)

\* Faulty: the wait never grows.
DelayFlat(attempts) == Base

Delay(attempts) ==
    LET delay[n \in 1..MaxAttempts] ==
            IF n = 1 THEN Base
            ELSE IF 2 * delay[n - 1] < BackoffCap THEN 2 * delay[n - 1] ELSE BackoffCap
    IN  Least(delay[attempts], BackoffCap)

FailureRow(Etags) == [etag : Etags, attempts : 1..MaxAttempts, wait : 0..BackoffCap]

\* The row of a failure of this version of the card, `elapsed` after the
\* instant the cycle takes for now.
RecordFailure(known, etag, elapsed) ==
    LET again == known # None /\ known.etag = etag
        attempts == IF again THEN Least(known.attempts + 1, MaxAttempts) ELSE 1
    IN  [etag |-> etag, attempts |-> attempts, wait |-> Left(Delay(attempts), elapsed)]

\* The backoff is over, or the card is no longer the version that failed.
IsDue(known, over, current) == over \/ current # known.etag
=============================================================================
