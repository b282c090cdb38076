---------------------------- MODULE Daemon_proofs ----------------------------
(***************************************************************************)
(* The daemon, for every set of contacts, interval, length of a cycle and  *)
(* Retry-After: no cycle starts too soon, and none after a signal; no      *)
(* cycle deletes more than its limit; a merged entry that somebody deletes *)
(* leaves a card; a card that keeps failing is tried ever less often.      *)
(***************************************************************************)
EXTENDS Daemon, FiniteSetTheorems, TLAPS

\* The loop's times are natural numbers.
Times == tick \in Nat /\ since \in Nat /\ embargo \in Nat

\* What is left of the interval since the last cycle, and of the time a
\* server asked for, is never more than what is left until the next tick.
Timer == Poll <= tick + since /\ embargo <= tick

\* The interval, the cap of a backoff and the bound on a cycle are numbers.
LEMMA Intervals ==
    Poll \in Nat /\ Poll > 0 /\ BackoffCap \in Nat /\ BackoffCap > 0 /\ Longest \in Nat
BY FailuresAssumption, DaemonAssumption

\* The loop starts its first cycle at once.
LEMMA TimerInit == Init => Times /\ Timer
<1> SUFFICES ASSUME Init PROVE Times /\ Timer
  OBVIOUS
<1> USE Intervals
<1>1. tick = 0 /\ since = Most(Poll, Longest) /\ embargo = 0
  BY DEF Init
<1>2. since \in Nat /\ since >= Poll
  BY <1>1 DEF Most
<1> QED BY <1>1, <1>2 DEF Times, Timer

\* A step that leaves the timer alone.
LEMMA TimerKept ==
    ASSUME Times, Timer, UNCHANGED <<tick, since, embargo>>
    PROVE  Times' /\ Timer'
BY DEF Times, Timer

\* A failed cycle puts the next tick off, or leaves it.
LEMMA TimerFailed ==
    ASSUME Times, Timer, NEW error, Failed(error)
    PROVE  Times' /\ Timer'
<1> USE Intervals
<1>1. since' = since
  BY DEF Failed
<1>2. PICK delay \in IF error = "RateLimited" THEN RetryAfters ELSE {0} :
          IF delay = 0 THEN UNCHANGED <<tick, embargo>>
          ELSE tick' = TickAfter(delay) /\ embargo' = delay
  BY DEF Failed
<1>3. delay \in Nat
  BY <1>2, DaemonAssumption
<1>4. CASE delay = 0
  BY <1>1, <1>2, <1>4, TimerKept
<1>5. CASE delay # 0
  <2>1. tick' = Most(Poll - since, delay) /\ embargo' = delay
    BY <1>2, <1>5 DEF TickAfter
  <2>2. Poll - since \in Int
    BY DEF Times
  <2>3. tick' \in {Poll - since, delay} /\ tick' >= Poll - since /\ tick' >= delay
    BY <2>1, <2>2, <1>3 DEF Most
  <2> QED BY <2>1, <2>2, <2>3, <1>1, <1>3 DEF Times, Timer
<1> QED BY <1>4, <1>5

\* Time runs for all three at once.
LEMMA TimerPass ==
    ASSUME Times, Timer, Pass
    PROVE  Times' /\ Timer'
<1> USE Intervals
<1>1. /\ tick' = Left(tick, 1) /\ embargo' = Left(embargo, 1)
      /\ since' = Least(since + 1, Most(Poll, Longest))
  BY DEF Pass
<1>2. Most(Poll, Longest) \in Nat /\ Most(Poll, Longest) >= Poll
  BY DEF Most
<1>3. since' = since + 1 \/ since' = Most(Poll, Longest)
  BY <1>1, <1>2 DEF Times, Least
<1>4. tick' \in Nat /\ tick' >= tick - 1 /\ embargo' \in Nat /\ embargo' <= tick'
  BY <1>1 DEF Times, Timer, Left, Most
<1>5. since' \in Nat /\ tick' + since' >= Poll
  <2>1. CASE since' = since + 1
    <3>1. \A t, u, n \in Nat : u >= t - 1 /\ Poll <= t + n => u + (n + 1) >= Poll
      OBVIOUS
    <3>2. tick \in Nat /\ since \in Nat /\ tick' \in Nat /\ tick' >= tick - 1 /\ Poll <= tick + since
      BY <1>4 DEF Times, Timer
    <3>3. tick' + (since + 1) >= Poll
      BY <3>1, <3>2
    <3>4. since + 1 \in Nat
      BY <3>2
    <3>5. since' \in Nat
      BY <2>1, <3>4, Zenon
    <3>6. tick' + since' >= Poll
      BY <2>1, <3>3, Zenon
    <3> QED BY <3>5, <3>6, Zenon
  <2>2. CASE since' = Most(Poll, Longest)
    BY <1>2, <1>4, <2>2
  <2> QED BY <1>3, <2>1, <2>2
<1> QED BY <1>4, <1>5 DEF Times, Timer

\* Every step keeps the timer's invariant.
LEMMA TimerStep ==
    ASSUME Times, Timer, [Next]_vars
    PROVE  Times' /\ Timer'
<1> USE FailuresAssumption
<1>1. CASE Start
  <2>1. tick' = Poll /\ since' = 0 /\ embargo' = embargo /\ tick = 0
    BY <1>1 DEF Start, Starts
  <2> QED BY <2>1 DEF Times, Timer
<1>2. CASE Reset
  BY <1>2, TimerKept DEF Reset, loop
<1>3. CASE Refused
  BY <1>3, TimerFailed DEF Refused
<1>4. CASE Look
  BY <1>4, TimerKept DEF Look, Finished, loop
<1>5. CASE List
  BY <1>5, TimerKept DEF List, Block, Finished, loop
<1>6. CASE Operate
  <2>1. PICK op, answer : Succeed(op) \/ Fail(op, answer)
    BY <1>6 DEF Operate
  <2>2. CASE Succeed(op)
    BY <2>2, TimerKept DEF Succeed, loop
  <2>3. CASE Fail(op, answer)
    <3>1. Failed(answer) \/ UNCHANGED loop
      BY <2>3 DEF Fail
    <3> QED BY <3>1, TimerFailed, TimerKept DEF loop
  <2> QED BY <2>1, <2>2, <2>3
<1>7. CASE Finish
  BY <1>7, TimerKept DEF Finish, Finished
<1>8. CASE Stop
  BY <1>8, TimerKept DEF Stop, loop
<1>9. CASE Pass
  BY <1>9, TimerPass
<1>10. CASE Edit
  BY <1>10, TimerKept DEF Edit, Touch, loop
<1>11. CASE DeleteMerged
  BY <1>11, TimerKept DEF DeleteMerged, Touch, loop
<1>12. CASE Break
  BY <1>12, TimerKept DEF Break, Touch, loop
<1>13. CASE Fault
  BY <1>13, TimerKept DEF Fault, loop
<1>14. CASE Signal
  BY <1>14, TimerKept DEF Signal
<1>15. CASE UNCHANGED vars
  BY <1>15, TimerKept DEF vars, loop
<1> QED BY <1>1, <1>2, <1>3, <1>4, <1>5, <1>6, <1>7, <1>8, <1>9, <1>10, <1>11,
           <1>12, <1>13, <1>14, <1>15 DEF Next, Cycle, World

\* Only Start leaves the wait for a cycle.
LEMMA OnlyStartStarts ==
    ASSUME [Next]_vars, cycle.pc = "waiting", cycle'.pc \in {"resetting", "looking"}
    PROVE  Start
<1>1. cycle' # cycle /\ cycle' # Idling /\ cycle' # [Idling EXCEPT !.pc = "stopped"]
  BY DEF Idling
<1>2. ~ (Reset \/ Refused \/ Look \/ List \/ Operate \/ Finish)
  BY DEF Reset, Refused, Look, List, Operate, Finish
<1>3. ~ Stop
  BY <1>1 DEF Stop
<1>4. ~ Pass /\ ~ Fault /\ ~ Signal /\ cycle' # cycle
  BY <1>1 DEF Pass, Fault, Signal
<1>5. ~ (Edit \/ DeleteMerged \/ Break)
  BY <1>1 DEF Edit, DeleteMerged, Break, Touch
<1> QED BY <1>1, <1>2, <1>3, <1>4, <1>5 DEF Next, Cycle, World, vars

\* Between two cycles lies the poll interval, whatever the cycles met and
\* however long they took, and at least what a server that limits asked for;
\* a process asked to stop starts none (run_loop).
THEOREM CyclesAreSpaced == Spec => Spaced
<1>1. Init => Times /\ Timer
  BY TimerInit
<1>2. Times /\ Timer /\ [Next]_vars => (Times /\ Timer)'
  BY TimerStep
<1>3. Times /\ Timer /\ [Next]_vars =>
          [cycle.pc = "waiting" /\ cycle'.pc \in {"resetting", "looking"} =>
               since >= Poll /\ embargo = 0 /\ ~ Stopping]_vars
  <2> SUFFICES ASSUME Times, Timer, [Next]_vars, cycle.pc = "waiting",
                      cycle'.pc \in {"resetting", "looking"}
               PROVE  since >= Poll /\ embargo = 0 /\ ~ Stopping
    OBVIOUS
  <2>1. tick = 0 /\ ~ Stopping
    BY OnlyStartStarts DEF Start, Starts
  <2> QED BY <2>1, FailuresAssumption DEF Times, Timer
<1> QED BY <1>1, <1>2, <1>3, PTL DEF Spec, Spaced

(***************************************************************************)
(* Numbers and finite sets.                                                *)
(***************************************************************************)
\* A set of numbers that is not empty has a least.
LEMMA LeastExists ==
    ASSUME NEW S, S \subseteq Nat, S # {}
    PROVE  \E x \in S : \A y \in S : x <= y
<1> DEFINE below(k) == 0..k
           all == {below(k) : k \in S}
<1>1. \A k \in Nat : below(k) \in FiniteSubsetsOf(Nat)
  BY FS_Interval DEF FiniteSubsetsOf
<1>2. all \subseteq FiniteSubsetsOf(Nat) /\ all # {}
  BY <1>1
<1>3. PICK B \in all : \A C \in all : <<C, B>> \notin StrictSubsetOrdering(Nat)
  BY <1>2, FS_StrictSubsetOrderingWellFounded, WFMin
<1>4. PICK m \in S : B = below(m)
  OBVIOUS
<1>5. ASSUME NEW y \in S, y < m
      PROVE  FALSE
  <2>1. below(y) \subseteq below(m) /\ m \in below(m) /\ m \notin below(y)
    BY <1>5
  <2>2. <<below(y), B>> \in StrictSubsetOrdering(Nat)
    BY <1>4, <2>1 DEF StrictSubsetOrdering
  <2> QED BY <1>3, <2>2
<1>6. \A y \in S : m <= y
  BY <1>5
<1> QED BY <1>6

\* Induction over numbers, by sets: there would be a least counterexample.
LEMMA NatSetInduction ==
    ASSUME NEW T, 0 \in T, \A n \in Nat : n \in T => n + 1 \in T
    PROVE  Nat \subseteq T
<1> SUFFICES ASSUME Nat \ T # {}
             PROVE  FALSE
  OBVIOUS
<1>1. PICK m \in Nat \ T : \A y \in Nat \ T : m <= y
  BY LeastExists
<1>2. m - 1 \in Nat /\ m - 1 \in T
  BY <1>1
<1> QED BY <1>2

(***************************************************************************)
(* The backoff.                                                            *)
(***************************************************************************)
\* The recursion of the delay, over a function that satisfies it so far.
Doubled(f, n) ==
    IF n = 1 THEN Base
    ELSE IF 2 * f[n - 1] < BackoffCap THEN 2 * f[n - 1] ELSE BackoffCap

\* There is a function that satisfies it.
LEMMA DelayExists ==
    \E f \in [1..MaxAttempts -> Nat] : \A n \in 1..MaxAttempts : f[n] = Doubled(f, n)
<1> USE FailuresAssumption
<1> DEFINE Upto(m) == {f \in [1..m -> Nat] : \A n \in 1..m : f[n] = Doubled(f, n)}
           T == {m \in Nat : Upto(m) # {}}
<1>1. 0 \in T
  <2>1. [n \in 1..0 |-> 0] \in Upto(0)
    OBVIOUS
  <2> QED BY <2>1
<1>2. ASSUME NEW m \in Nat, m \in T
      PROVE  m + 1 \in T
  <2>1. PICK f \in [1..m -> Nat] : \A n \in 1..m : f[n] = Doubled(f, n)
    BY <1>2
  <2> DEFINE next == Doubled(f, m + 1)
             g == [n \in 1..(m + 1) |-> IF n = m + 1 THEN next ELSE f[n]]
  <2>2. next \in Nat
    <3>1. CASE m = 0
      BY <3>1 DEF Doubled, Base, Least
    <3>2. CASE m # 0
      <4>1. m \in 1..m /\ f[m] \in Nat /\ m + 1 - 1 = m /\ m + 1 # 1
        BY <3>2
      <4> QED BY <4>1 DEF Doubled
    <3> QED BY <3>1, <3>2
  <2>3. g \in [1..(m + 1) -> Nat]
    BY <2>2
  <2>4. ASSUME NEW n \in 1..(m + 1)
        PROVE  g[n] = Doubled(g, n)
    <3>1. CASE n = m + 1
      <4>1. n # 1 => g[n - 1] = f[n - 1]
        BY <3>1
      <4> QED BY <3>1, <4>1 DEF Doubled
    <3>2. CASE n # m + 1
      <4>1. n \in 1..m /\ g[n] = f[n] /\ (n # 1 => g[n - 1] = f[n - 1])
        BY <3>2
      <4> QED BY <2>1, <4>1 DEF Doubled
    <3> QED BY <3>1, <3>2
  <2>5. g \in Upto(m + 1)
    BY <2>3, <2>4
  <2>6. Upto(m + 1) # {}
    BY <2>5
  <2> HIDE DEF Upto
  <2> QED BY <2>6
<1> HIDE DEF T
<1>3. MaxAttempts \in T
  BY <1>1, <1>2, NatSetInduction
<1> QED BY <1>3 DEF T

\* A delay is never above the cap, and never below what that many failures in
\* a row promise (BackoffPolicy::delay).
LEMMA DelayFacts ==
    ASSUME NEW n \in 1..MaxAttempts
    PROVE  /\ Delay(n) \in Nat /\ Delay(n) <= BackoffCap
           /\ \A m \in 1..n : Delay(n) >= Promised(m)
<1> USE FailuresAssumption
<1> DEFINE IsDelay(f) == f = [k \in 1..MaxAttempts |->
                IF k = 1 THEN Base
                ELSE IF 2 * f[k - 1] < BackoffCap THEN 2 * f[k - 1] ELSE BackoffCap]
           d == CHOOSE f : IsDelay(f)
<1>1. PICK f \in [1..MaxAttempts -> Nat] : \A k \in 1..MaxAttempts : f[k] = Doubled(f, k)
  BY DelayExists
<1>2. IsDelay(f)
  BY <1>1 DEF Doubled
<1>3. IsDelay(d)
  BY <1>2
<1>4. Delay(n) = Least(d[n], BackoffCap)
  BY DEF Delay
<1> HIDE DEF d
<1> DEFINE Fits(k) == /\ d[k] \in Nat
                      /\ k = 1 => d[k] = Base
                      /\ k = 2 => d[k] = Least(2 * Base, BackoffCap)
                      /\ k > 2 => d[k] >= Least(4 * Base, BackoffCap)
           T == {m \in Nat : \A k \in 1..m : k <= MaxAttempts => Fits(k)}
<1>5. 0 \in T
  OBVIOUS
<1>6. ASSUME NEW m \in Nat, m \in T
      PROVE  m + 1 \in T
  <2> SUFFICES ASSUME m + 1 <= MaxAttempts
               PROVE  Fits(m + 1)
    BY <1>6
  <2>1. CASE m = 0
    BY <1>3, <2>1 DEF Base, Least
  <2>2. CASE m # 0
    <3>1. Fits(m)
      BY <1>6, <2>2
    <3>2. d[m + 1] = IF 2 * d[m] < BackoffCap THEN 2 * d[m] ELSE BackoffCap
      BY <1>3, <2>2
    <3>3. Base \in Nat
      BY DEF Base, Least
    <3> DEFINE x == d[m]
               y == d[m + 1]
    <3> HIDE DEF x, y
    <3>4. /\ x \in Nat /\ (m = 1 => x = Base)
          /\ m = 2 => x = Least(2 * Base, BackoffCap)
          /\ m > 2 => x >= Least(4 * Base, BackoffCap)
          /\ y = IF 2 * x < BackoffCap THEN 2 * x ELSE BackoffCap
      BY <3>1, <3>2 DEF x, y
    <3>5. /\ y \in Nat
          /\ m + 1 = 2 => y = Least(2 * Base, BackoffCap)
          /\ m + 1 > 2 => y >= Least(4 * Base, BackoffCap)
      <4>1. CASE m = 1
        BY <3>3, <3>4, <4>1 DEF Least
      <4>2. CASE m = 2
        BY <3>3, <3>4, <4>2 DEF Least
      <4>3. CASE m > 2
        BY <3>3, <3>4, <4>3 DEF Least
      <4> QED BY <2>2, <4>1, <4>2, <4>3
    <3> QED BY <2>2, <3>5 DEF y
  <2> QED BY <2>1, <2>2
<1> HIDE DEF T
<1>7. Nat \subseteq T /\ n \in Nat
  BY <1>5, <1>6, NatSetInduction
<1>8. Fits(n)
  BY <1>7 DEF T
<1> QED BY <1>4, <1>8 DEF Least, Promised, Base

(***************************************************************************)
(* Types.                                                                  *)
(***************************************************************************)
Etags == Body \cup {Junk}
Values == Etags \cup {None}
Kinds == {"Forget", "Refresh", "Conflict", "Update", "Resurrect", "Delete", "Adopt", "Create"}
AnyOp == Ops(Kinds, Contact)
Listing == [Side -> [Contact \cup {Junk} -> Values]]

Cycles ==
    [pc : {"waiting", "resetting", "looking", "listing", "applying", "stopped"},
     ripe : SUBSET Key, todo : SUBSET AnyOp, listed : {<<>>} \cup Listing,
     failed : SUBSET Key, held : SUBSET Key, moved : SUBSET Side,
     limit : Nat, erased : SUBSET Key]

Trials == [etag : Values, ago : Nat, times : 1..MaxAttempts]

BookType ==
    /\ book \in [Side -> [Contact -> Body \cup {None}]]
    /\ row \in [Contact -> Body \cup {None}]
    /\ broken \in [Side -> BOOLEAN]

FailType == failures \in [Key -> FailureRow(Etags) \cup {None}]

CycleType == cycle \in Cycles /\ (cycle.pc = "applying" => cycle.listed \in Listing)

GhostType ==
    ghost \in [tried : [Key -> Trials \cup {None}], merged : Alike \cup {None},
               blind : BOOLEAN, blocked : BOOLEAN]

RestType ==
    /\ token \in [Side -> {"none", "behind", "current"}]
    /\ fault \in [Contact -> Errors \cup {None}]
    /\ grace \in 0..Grace \cup {None} /\ reset \in BOOLEAN
    /\ budget \in [edits : Nat, faults : Int]

Types == BookType /\ FailType /\ CycleType /\ GhostType /\ RestType /\ Times

\* A card an operation reads or replaces was in the listing, and readable.
Readable ==
    cycle.pc = "applying" =>
        \A op \in cycle.todo :
            /\ op.kind \notin {"Delete", "Forget"} => cycle.listed[Other(op.to)][op.uid] \in Body
            /\ op.kind \in {"Delete", "Conflict"} => cycle.listed[op.to][op.uid] \in Body

\* What a side lists of a card.
LEMMA EtagType ==
    ASSUME BookType, NEW s \in Side, NEW u \in Contact \cup {Junk}
    PROVE  Etag(s, u) \in Values
BY DEF BookType, Etag, Values, Etags

\* A recorded failure is a row of the table.
LEMMA RecordType ==
    ASSUME NEW known \in FailureRow(Etags) \cup {None}, NEW etag \in Etags, NEW elapsed \in Nat
    PROVE  RecordFailure(known, etag, elapsed) \in FailureRow(Etags)
<1> USE FailuresAssumption
<1> DEFINE again == known # None /\ known.etag = etag
           attempts == IF again THEN Least(known.attempts + 1, MaxAttempts) ELSE 1
           wait == Left(Delay(attempts), elapsed)
<1>1. attempts \in 1..MaxAttempts
  BY DEF FailureRow, Least
<1> HIDE DEF attempts
<1>2. Delay(attempts) \in Nat /\ Delay(attempts) <= BackoffCap
  BY <1>1, DelayFacts
<1>3. wait \in 0..BackoffCap
  BY <1>2 DEF Left, Most
<1>4. RecordFailure(known, etag, elapsed) = [etag |-> etag, attempts |-> attempts, wait |-> wait]
  BY DEF RecordFailure, attempts
<1> QED BY <1>1, <1>3, <1>4 DEF FailureRow

\* So are the failures a cycle records.
LEMMA RecordedType ==
    ASSUME FailType, Times, NEW keys, NEW listed,
           \A k \in keys \cap Key : listed[k[1]][k[2]] \in Etags
    PROVE  Recorded(keys, listed) \in [Key -> FailureRow(Etags) \cup {None}]
<1> SUFFICES ASSUME NEW k \in Key, k \in keys
             PROVE  RecordFailure(failures[k], listed[k[1]][k[2]], since) \in FailureRow(Etags)
  BY DEF Recorded, FailType
<1> QED BY RecordType DEF FailType, Times

\* The cards an operation names.
LEMMA CardsOf ==
    ASSUME NEW op \in AnyOp
    PROVE  /\ Source(op) \in Key /\ Target(op) \in Key
           /\ FailedCards(op) \subseteq {Source(op), Target(op)}
           /\ op.to \in Side /\ Other(op.to) \in Side /\ op.uid \in Contact
           /\ op = [kind |-> op.kind, uid |-> op.uid, to |-> op.to]
<1>1. op.to \in Side /\ op.uid \in Contact /\ op = [kind |-> op.kind, uid |-> op.uid, to |-> op.to]
  BY DEF AnyOp, Ops
<1>2. Other(op.to) \in Side
  BY <1>1 DEF Other, Side
<1>3. FailedCards(op) \subseteq {Source(op), Target(op)}
  BY DEF FailedCards
<1> QED BY <1>1, <1>2, <1>3 DEF Source, Target, Key

\* The trials of a cycle are one record, or none, for each key.
LEMMA TriedType ==
    ASSUME GhostType, CycleType, Times, cycle.pc = "applying", NEW keys
    PROVE  Tried(keys) \in [Key -> Trials \cup {None}]
<1> SUFFICES ASSUME NEW k \in Key, k \in keys
             PROVE  Tried(keys)[k] \in Trials
  BY DEF Tried, GhostType
<1> DEFINE etag == cycle.listed[k[1]][k[2]]
           before == ghost.tried[k]
           again == before # None /\ before.etag = etag
           times == IF again THEN Least(before.times + 1, MaxAttempts) ELSE 1
<1>1. etag \in Values
  BY DEF CycleType, Listing, Key
<1>2. before \in Trials \cup {None}
  BY DEF GhostType
<1>3. times \in 1..MaxAttempts
  BY <1>2, FailuresAssumption DEF Trials, Least
<1>4. Tried(keys)[k] = [etag |-> etag, ago |-> since, times |-> times]
  BY DEF Tried
<1> QED BY <1>1, <1>3, <1>4 DEF Trials, Times

\* A plan is made of operations on contacts, and there are finitely many.
LEMMA PlanType == Plan \subseteq AnyOp
BY DEF Plan, RowOps, PairOps, Ops, AnyOp, Kinds, Rows

\* There are finitely many operations.
LEMMA FinitelyMany == IsFiniteSet(AnyOp)
<1> DEFINE f == [p \in (Kinds \X Contact) \X Side |->
                    [kind |-> p[1][1], uid |-> p[1][2], to |-> p[2]]]
<1>1. IsFiniteSet(Kinds) /\ IsFiniteSet(Side)
  <2>1. /\ IsFiniteSet({"icloud"}) /\ IsFiniteSet({"fastmail"}) /\ IsFiniteSet({"Forget"})
        /\ IsFiniteSet({"Refresh"}) /\ IsFiniteSet({"Conflict"}) /\ IsFiniteSet({"Update"})
        /\ IsFiniteSet({"Resurrect"}) /\ IsFiniteSet({"Delete"}) /\ IsFiniteSet({"Adopt"})
        /\ IsFiniteSet({"Create"})
    BY FS_Singleton
  <2>2. IsFiniteSet({"icloud"} \cup {"fastmail"})
    BY <2>1, FS_Union
  <2>3. IsFiniteSet({"Forget"} \cup {"Refresh"}) /\ IsFiniteSet({"Conflict"} \cup {"Update"})
        /\ IsFiniteSet({"Resurrect"} \cup {"Delete"}) /\ IsFiniteSet({"Adopt"} \cup {"Create"})
    BY <2>1, FS_Union
  <2>4. IsFiniteSet(({"Forget"} \cup {"Refresh"}) \cup ({"Conflict"} \cup {"Update"}))
        /\ IsFiniteSet(({"Resurrect"} \cup {"Delete"}) \cup ({"Adopt"} \cup {"Create"}))
    BY <2>3, FS_Union
  <2>5. IsFiniteSet((({"Forget"} \cup {"Refresh"}) \cup ({"Conflict"} \cup {"Update"}))
                    \cup (({"Resurrect"} \cup {"Delete"}) \cup ({"Adopt"} \cup {"Create"})))
    BY <2>4, FS_Union
  <2>6. Kinds = (({"Forget"} \cup {"Refresh"}) \cup ({"Conflict"} \cup {"Update"}))
                \cup (({"Resurrect"} \cup {"Delete"}) \cup ({"Adopt"} \cup {"Create"}))
    BY DEF Kinds
  <2>7. Side = {"icloud"} \cup {"fastmail"}
    BY DEF Side
  <2> QED BY <2>2, <2>5, <2>6, <2>7
<1>2. IsFiniteSet((Kinds \X Contact) \X Side)
  <2>1. IsFiniteSet(Kinds \X Contact)
    BY <1>1, DaemonAssumption, FS_Product
  <2> QED BY <1>1, <2>1, FS_Product
<1>3. f \in Surjection((Kinds \X Contact) \X Side, AnyOp)
  <2>1. f \in [(Kinds \X Contact) \X Side -> AnyOp]
    BY DEF AnyOp, Ops
  <2>2. ASSUME NEW op \in AnyOp
        PROVE  \E p \in (Kinds \X Contact) \X Side : f[p] = op
    <3>1. op.kind \in Kinds /\ op.uid \in Contact /\ op.to \in Side
          /\ op = [kind |-> op.kind, uid |-> op.uid, to |-> op.to]
      BY DEF AnyOp, Ops
    <3>2. <<<<op.kind, op.uid>>, op.to>> \in (Kinds \X Contact) \X Side
          /\ f[<<<<op.kind, op.uid>>, op.to>>] = op
      BY <3>1
    <3> QED BY <3>2
  <2> QED BY <2>1, <2>2 DEF Surjection
<1> QED BY <1>2, <1>3, FS_Surjection

\* The limit of a cycle's deletions is a number.
LEMMA LimitType == DeleteLimit \in Nat
<1> USE DaemonAssumption
<1>1. IsFiniteSet(Rows)
  BY FS_Subset DEF Rows
<1> DEFINE n == Cardinality(Rows)
<1>2. n \in Nat
  BY <1>1, FS_CardinalityType
<1> HIDE DEF n
<1>3. n * DeletePercent \in Nat
  BY <1>2
<1> DEFINE m == n * DeletePercent
<1> HIDE DEF m
<1>4. m \div 100 \in Nat
  BY <1>3 DEF m
<1> QED BY <1>4 DEF DeleteLimit, Most, n, m

\* The operation a cycle does next is one it has to do.
LEMMA FirstIsNext ==
    ASSUME NEW ops, ops \subseteq AnyOp, ops # {}
    PROVE  First(ops) \in ops
<1>1. ASSUME NEW op \in AnyOp
      PROVE  Rank(op) \in Nat
  <2>1. op.uid \in Contact
    BY CardsOf
  <2> DEFINE place == CHOOSE i \in DOMAIN Order : Order[i] = op.uid
  <2>2. place \in DOMAIN Order
    BY <2>1, DaemonAssumption
  <2>3. DOMAIN Order = 1..Len(Order) /\ Len(Order) \in Nat
    BY DaemonAssumption
  <2> HIDE DEF place
  <2>4. place \in Nat
    BY <2>2, <2>3
  <2> QED BY <2>3, <2>4 DEF Rank, place
<1> DEFINE ranks == {Rank(op) : op \in ops}
<1>2. ranks \subseteq Nat /\ ranks # {}
  BY <1>1
<1>3. PICK r \in ranks : \A q \in ranks : r <= q
  BY <1>2, LeastExists
<1>4. PICK op \in ops : Rank(op) = r
  OBVIOUS
<1>5. \A other \in ops : Rank(op) <= Rank(other)
  BY <1>3, <1>4
<1> QED BY <1>5 DEF First

\* The types hold initially.
LEMMA TypesInit == Init => Types
<1> SUFFICES ASSUME Init PROVE Types
  OBVIOUS
<1> USE DaemonAssumption
<1>1. (CHOOSE b \in Body : TRUE) \in Body
  OBVIOUS
<1>2. BookType
  BY <1>1 DEF Init, BookType
<1>3. FailType
  BY DEF Init, FailType
<1>4. CycleType
  BY DEF Init, CycleType, Cycles, Idling
<1>5. GhostType
  BY DEF Init, GhostType
<1>6. RestType
  BY DEF Init, RestType
<1>7. Times
  BY TimerInit
<1> QED BY <1>2, <1>3, <1>4, <1>5, <1>6, <1>7 DEF Types

\* The process keeps the types.
LEMMA FailedType ==
    ASSUME NEW error, Failed(error)
    PROVE  cycle' = Idling /\ UNCHANGED <<grace, reset>>
BY DEF Failed

\* An idle cycle has its type.
LEMMA IdlingType == cycle' = Idling => CycleType'
BY DEF CycleType, Cycles, Idling

\* Spending a fault keeps the budget's type.
LEMMA SpendType ==
    ASSUME RestType, Spend
    PROVE  budget' \in [edits : Nat, faults : Int]
BY DEF RestType, Spend

\* An operation that succeeds keeps the types.
LEMMA SucceedTypes ==
    ASSUME Types, cycle.pc = "applying", NEW op \in cycle.todo, Succeed(op),
           UNCHANGED <<broken, fault>>,
           op.kind \notin {"Delete", "Forget"} =>
               cycle.listed[Other(op.to)][op.uid] \in Body
    PROVE  BookType' /\ FailType' /\ CycleType' /\ GhostType' /\ RestType'
<1>1. op \in AnyOp /\ cycle.todo \subseteq AnyOp /\ cycle \in Cycles
  BY DEF Types, CycleType, Cycles
<1>2. Result(op) \in Body \cup {None}
  BY DEF Result
<1>3. op.to \in Side /\ op.uid \in Contact /\ Source(op) \in Key /\ Target(op) \in Key
  BY <1>1, CardsOf
<1>4. BookType'
  BY <1>2, <1>3 DEF Types, BookType, Succeed
<1>5. FailType'
  BY DEF Types, FailType, Succeed
<1>6. CycleType'
  <2>1. cycle.erased \subseteq Key /\ cycle.moved \subseteq Side
    BY <1>1 DEF Cycles
  <2> DEFINE todo == cycle.todo \ {op}
             moved == cycle.moved \cup (IF op.kind \in StateOnly THEN {} ELSE {op.to})
             erased == cycle.erased \cup (IF op.kind = "Delete" THEN {Target(op)}
                         ELSE IF op.kind = "Forget" THEN {Target(op), Source(op)} ELSE {})
  <2>2. todo \subseteq AnyOp /\ moved \subseteq Side /\ erased \subseteq Key
    BY <1>1, <1>3, <2>1
  <2>3. cycle' = [cycle EXCEPT !.todo = todo, !.moved = moved, !.erased = erased]
    BY DEF Succeed
  <2> HIDE DEF todo, moved, erased
  <2> QED BY <1>1, <2>2, <2>3 DEF Types, CycleType, Cycles
<1>7. GhostType'
  BY DEF Types, GhostType, Succeed
<1>8. RestType'
  BY <1>3 DEF Types, RestType, Succeed, Moved, loop
<1> QED BY <1>4, <1>5, <1>6, <1>7, <1>8

\* An operation that fails keeps the types.
LEMMA FailTypes ==
    ASSUME Types, Readable, cycle.pc = "applying", NEW op \in cycle.todo, NEW error,
           Fail(op, error), UNCHANGED <<broken, fault>>
    PROVE  BookType' /\ FailType' /\ CycleType' /\ GhostType' /\ RestType'
<1>1. op \in AnyOp /\ cycle.todo \subseteq AnyOp /\ cycle \in Cycles /\ cycle.listed \in Listing
  BY DEF Types, CycleType, Cycles
<1>2. FailedCards(op) \subseteq Key
  BY <1>1, CardsOf
<1> DEFINE keys == IF ~ IsCycleFatal(error) \/ HoldsOnAbort(op) THEN FailedCards(op) ELSE {}
           owed == IF IsCycleFatal(error) /\ row[op.uid] = None THEN {} ELSE FailedCards(op)
<1>3. keys \subseteq Key
  BY <1>2
<1>4. failures' = Recorded(keys, cycle.listed) /\ ghost' = [ghost EXCEPT !.tried = Tried(owed)]
  BY DEF Fail
<1>5. IF IsCycleFatal(error) THEN Failed(error)
      ELSE /\ cycle' = [cycle EXCEPT !.todo = @ \ {op}, !.failed = @ \cup keys]
           /\ UNCHANGED loop
  BY DEF Fail
<1> HIDE DEF keys, owed
<1>6. BookType'
  BY DEF Types, BookType, Fail
<1>7. FailType'
  <2>1. \A k \in FailedCards(op) : cycle.listed[k[1]][k[2]] \in Etags
    BY <1>1 DEF Readable, FailedCards, Source, Target, Etags
  <2>2. \A k \in keys : cycle.listed[k[1]][k[2]] \in Etags
    BY <2>1 DEF keys
  <2> QED BY <1>4, <2>2, RecordedType DEF FailType, Types
<1>8. GhostType'
  <2>1. Tried(owed) \in [Key -> Trials \cup {None}]
    BY TriedType DEF Types
  <2> QED BY <1>4, <2>1 DEF Types, GhostType
<1>9. CycleType'
  <2>1. CASE IsCycleFatal(error)
    BY <1>5, <2>1, FailedType, IdlingType
  <2>2. CASE ~ IsCycleFatal(error)
    <3> DEFINE todo == cycle.todo \ {op}
               failed == cycle.failed \cup keys
    <3>1. todo \subseteq AnyOp /\ failed \subseteq Key
      BY <1>1, <1>3 DEF Cycles
    <3>2. cycle' = [cycle EXCEPT !.todo = todo, !.failed = failed]
      BY <1>5, <2>2
    <3> HIDE DEF todo, failed
    <3> QED BY <1>1, <3>1, <3>2 DEF CycleType, Cycles
  <2> QED BY <2>1, <2>2
<1>10. RestType'
  <2>1. UNCHANGED <<token, fault, grace, reset>>
    BY <1>5, FailedType DEF Fail, loop
  <2>2. budget' \in [edits : Nat, faults : Int]
    BY SpendType DEF Fail, Types, RestType
  <2> QED BY <2>1, <2>2 DEF Types, RestType
<1> QED BY <1>6, <1>7, <1>8, <1>9, <1>10

\* A listing keeps the types.
LEMMA ListTypes ==
    ASSUME Types, List
    PROVE  BookType' /\ FailType' /\ CycleType' /\ GhostType' /\ RestType'
<1> DEFINE listed == [s \in Side |-> [u \in Contact \cup {Junk} |-> Etag(s, u)]]
<1>1. listed \in Listing
  BY EtagType DEF Types, Listing
<1>2. BookType'
  BY DEF Types, BookType, List
<1>3. CASE Block
  <2>1. FailType'
    BY <1>3 DEF Types, FailType, Block
  <2>2. CycleType'
    BY <1>3, IdlingType DEF Block, Finished
  <2>3. GhostType'
    BY <1>3 DEF Types, GhostType, Block
  <2>4. reset' \in BOOLEAN
    BY <1>3 DEF Types, RestType, Block, Finished
  <2>5. RestType'
    BY <1>3, <2>4 DEF Types, RestType, Block, Finished, List
  <2> QED BY <1>2, <2>1, <2>2, <2>3, <2>5
<1>4. CASE ~ Block
  <2>1. /\ cycle' = [cycle EXCEPT !.pc = "applying", !.todo = Plan, !.listed = listed,
                                  !.failed = Unreadable, !.held = Held, !.moved = {},
                                  !.limit = DeleteLimit]
        /\ failures' = Recorded(Unreadable, listed)
        /\ ghost' = [ghost EXCEPT !.blind = @ \/ Unplanned, !.blocked = FALSE]
        /\ UNCHANGED <<loop, budget, token>> /\ UNCHANGED fault
    BY <1>4 DEF List
  <2>7. \A k \in Unreadable : listed[k[1]][k[2]] \in Etags
    BY DEF Unreadable, Etag, Etags
  <2> HIDE DEF listed
  <2>2. FailType'
    BY <2>1, <2>7, RecordedType DEF Types, FailType
  <2>3. Unreadable \subseteq Key /\ Held \subseteq Key
    BY DEF Unreadable, Held, Key
  <2>4. CycleType'
    BY <1>1, <2>1, <2>3, PlanType, LimitType DEF Types, CycleType, Cycles
  <2>5. GhostType'
    BY <2>1 DEF Types, GhostType
  <2>6. RestType'
    BY <2>1 DEF Types, RestType, loop
  <2> QED BY <1>2, <2>2, <2>4, <2>5, <2>6
<1> QED BY <1>3, <1>4

\* The end of a cycle keeps the types.
LEMMA FinishTypes ==
    ASSUME Types, Finish
    PROVE  BookType' /\ FailType' /\ CycleType' /\ GhostType' /\ RestType'
<1>1. BookType'
  BY DEF Types, BookType, Finish
<1>2. FailType'
  BY DEF Types, FailType, Finish
<1>3. CycleType'
  BY IdlingType DEF Finish, Finished
<1>4. GhostType'
  BY DEF Types, GhostType, Finish
<1>5. reset' \in BOOLEAN /\ UNCHANGED <<fault, grace, budget>>
  BY DEF Types, RestType, Finish, Finished
<1>6. token' \in [Side -> {"none", "behind", "current"}]
  BY DEF Finish
<1>7. RestType'
  BY <1>5, <1>6 DEF Types, RestType
<1> QED BY <1>1, <1>2, <1>3, <1>4, <1>7

\* The steps that leave books and records alone keep the types.
LEMMA OtherTypes ==
    ASSUME Types, Start \/ Reset \/ Refused \/ Look \/ Stop
    PROVE  BookType' /\ FailType' /\ CycleType' /\ GhostType' /\ RestType'
<1>1. CASE Start
  <2>1. CycleType'
    BY <1>1 DEF Types, CycleType, Cycles, Start, Starts
  <2> QED BY <1>1, <2>1 DEF Types, BookType, FailType, GhostType, RestType, Start
<1>2. CASE Reset
  <2>1. CycleType' /\ BookType' /\ FailType'
    BY <1>2 DEF Types, CycleType, Cycles, BookType, FailType, Reset
  <2>2. GhostType' /\ RestType'
    BY <1>2 DEF Types, GhostType, RestType, Reset, loop
  <2> QED BY <2>1, <2>2
<1>3. CASE Refused
  <2>1. UNCHANGED <<grace, reset>> /\ CycleType'
    BY <1>3, FailedType, IdlingType DEF Refused
  <2>2. budget' \in [edits : Nat, faults : Int]
    BY <1>3, SpendType DEF Refused, Types
  <2>3. BookType' /\ FailType'
    BY <1>3 DEF Types, BookType, FailType, Refused
  <2>4. GhostType' /\ RestType'
    BY <1>3, <2>1, <2>2 DEF Types, GhostType, RestType, Refused
  <2> QED BY <2>1, <2>3, <2>4
<1>4. CASE Look
  <2>1. CycleType'
    <3>1. CASE Idle
      BY <1>4, <3>1, IdlingType DEF Look, Finished
    <3>2. CASE ~ Idle
      BY <1>4, <3>2 DEF Look, Types, CycleType, Cycles
    <3> QED BY <3>1, <3>2
  <2>2. reset' \in BOOLEAN /\ UNCHANGED <<grace, budget>>
    BY <1>4 DEF Types, RestType, Look, Finished, loop
  <2> QED BY <1>4, <2>1, <2>2 DEF Types, BookType, FailType, GhostType, RestType, Look
<1>5. CASE Stop
  <2>1. CycleType'
    BY <1>5 DEF Stop, CycleType, Cycles, Idling
  <2> QED BY <1>5, <2>1 DEF Types, BookType, FailType, GhostType, RestType, Stop, loop
<1> QED BY <1>1, <1>2, <1>3, <1>4, <1>5

\* The world keeps them too.
LEMMA WorldTypes ==
    ASSUME Types, World
    PROVE  BookType' /\ FailType' /\ CycleType' /\ GhostType' /\ RestType'
<1>1. CASE Pass
  <2>1. FailType'
    <3>1. ASSUME NEW k \in Key, failures[k] # None
          PROVE  [failures[k] EXCEPT !.wait = Left(@, 1)] \in FailureRow(Etags)
      <4>1. failures[k] \in FailureRow(Etags)
        BY <3>1 DEF Types, FailType
      <4>2. Left(failures[k].wait, 1) \in 0..BackoffCap
        BY <4>1, FailuresAssumption DEF FailureRow, Left, Most
      <4> QED BY <4>1, <4>2 DEF FailureRow
    <3> QED BY <1>1, <3>1 DEF Types, FailType, Pass
  <2>2. GhostType'
    <3>1. ASSUME NEW k \in Key, ghost.tried[k] # None
          PROVE  [ghost.tried[k] EXCEPT !.ago = Least(@ + 1, BackoffCap + Longest)] \in Trials
      <4>1. ghost.tried[k] \in Trials
        BY <3>1 DEF Types, GhostType
      <4>2. Least(ghost.tried[k].ago + 1, BackoffCap + Longest) \in Nat
        BY <4>1, FailuresAssumption, DaemonAssumption DEF Trials, Least
      <4> QED BY <4>1, <4>2 DEF Trials
    <3>2. Aged \in [Key -> Trials \cup {None}]
      BY <3>1 DEF Aged
    <3> QED BY <1>1, <3>2 DEF Pass, Types, GhostType
  <2>3. grace' \in 0..Grace \cup {None}
    <3>1. CASE grace = None
      BY <1>1, <3>1 DEF Pass
    <3>2. CASE grace # None
      <4>1. grace \in 0..Grace /\ Grace \in Nat
        BY <3>2, DaemonAssumption DEF Types, RestType
      <4>2. grace' = Left(grace, 1)
        BY <1>1, <3>2 DEF Pass
      <4> QED BY <4>1, <4>2 DEF Left, Most
    <3> QED BY <3>1, <3>2
  <2>4. BookType' /\ CycleType'
    BY <1>1 DEF Types, BookType, CycleType, Pass
  <2>5. RestType'
    BY <1>1, <2>3 DEF Types, RestType, Pass
  <2> QED BY <2>1, <2>2, <2>4, <2>5
<1>2. ASSUME NEW sides, sides \subseteq Side, NEW touched, Touch(sides, touched)
      PROVE  FailType' /\ CycleType' /\ RestType'
  <2>1. CycleType'
    <3>1. CASE cycle.pc = "applying"
      BY <1>2, <3>1 DEF Touch, Types, CycleType, Cycles
    <3>2. CASE cycle.pc # "applying"
      BY <1>2, <3>2 DEF Touch, Types, CycleType, Cycles
    <3> QED BY <3>1, <3>2
  <2>2. FailType'
    BY <1>2 DEF Touch, Types, FailType
  <2>3. RestType'
    BY <1>2 DEF Touch, Types, RestType, loop
  <2> QED BY <2>1, <2>2, <2>3
<1>3. CASE Edit
  <2>1. PICK s \in Side, u \in Contact, b \in Body \cup {None} :
            /\ Touch({s}, {u})
            /\ book' = [book EXCEPT ![s][u] = b]
            /\ ghost' = [ghost EXCEPT !.merged = Released(u), !.blocked = FALSE]
            /\ UNCHANGED broken
    BY <1>3 DEF Edit
  <2>2. BookType'
    BY <2>1 DEF Types, BookType, Touch
  <2>3. GhostType'
    BY <2>1 DEF Types, GhostType, Released
  <2> QED BY <1>2, <2>1, <2>2, <2>3
<1>4. CASE DeleteMerged
  <2>1. PICK p \in Alike :
            /\ Touch(Side, {p[1], p[2]})
            /\ book' = [book EXCEPT !["icloud"][p[1]] = None, !["fastmail"][p[2]] = None]
            /\ ghost' = [ghost EXCEPT !.merged = p, !.blind = FALSE, !.blocked = FALSE]
            /\ UNCHANGED broken
    BY <1>4 DEF DeleteMerged
  <2>2. BookType'
    BY <2>1 DEF Types, BookType, Touch
  <2>3. GhostType'
    BY <2>1 DEF Types, GhostType
  <2> QED BY <1>2, <2>1, <2>2, <2>3
<1>5. CASE Break
  <2>1. PICK s \in BrokenSides :
            /\ Touch({s}, {})
            /\ broken' = [broken EXCEPT ![s] = ~ @]
            /\ ghost' = [ghost EXCEPT !.blocked = FALSE]
            /\ UNCHANGED book
    BY <1>5 DEF Break
  <2>2. BookType'
    BY <2>1 DEF Types, BookType, Touch
  <2>3. GhostType'
    BY <2>1 DEF Types, GhostType
  <2>4. s \in Side
    BY DaemonAssumption DEF Side
  <2> QED BY <1>2, <2>1, <2>2, <2>3, <2>4
<1>6. CASE Fault
  <2>1. BookType' /\ FailType' /\ CycleType' /\ GhostType'
    BY <1>6 DEF Types, BookType, FailType, CycleType, GhostType, Fault
  <2>2. fault' \in [Contact -> Errors \cup {None}]
    BY <1>6, DaemonAssumption DEF Types, RestType, Fault
  <2>3. budget' \in [edits : Nat, faults : Int]
    BY <1>6, SpendType DEF Types, RestType, Fault
  <2>4. RestType'
    BY <1>6, <2>2, <2>3 DEF Types, RestType, Fault, loop
  <2> QED BY <2>1, <2>4
<1>7. CASE Signal
  <2>1. grace' \in 0..Grace
    BY <1>7, DaemonAssumption DEF Signal
  <2>2. BookType' /\ FailType' /\ CycleType' /\ GhostType'
    BY <1>7 DEF Types, BookType, FailType, CycleType, GhostType, Signal
  <2> QED BY <1>7, <2>1, <2>2 DEF Types, RestType, Signal
<1> QED BY <1>1, <1>3, <1>4, <1>5, <1>6, <1>7 DEF World

(***************************************************************************)
(* What is to be done was listed.                                          *)
(***************************************************************************)
LEMMA ReadableList ==
    ASSUME Types, List
    PROVE  Readable'
<1> SUFFICES ASSUME cycle'.pc = "applying", NEW op \in cycle'.todo
             PROVE  /\ op.kind \notin {"Delete", "Forget"} =>
                           cycle'.listed[Other(op.to)][op.uid] \in Body
                    /\ op.kind \in {"Delete", "Conflict"} =>
                           cycle'.listed[op.to][op.uid] \in Body
  BY DEF Readable
<1> DEFINE listed == [s \in Side |-> [u \in Contact \cup {Junk} |-> Etag(s, u)]]
<1>1. ~ Block
  BY DEF Block, Finished, Idling
<1>2. cycle'.todo = Plan /\ cycle'.listed = listed
  BY <1>1 DEF List, Types, CycleType, Cycles
<1>3. op \in AnyOp /\ op.to \in Side /\ Other(op.to) \in Side /\ op.uid \in Contact
  BY <1>2, PlanType, CardsOf
<1>4. \A s \in Side : listed[s][op.uid] = book[s][op.uid]
  BY <1>3, DaemonAssumption DEF Etag
<1>5. \A s \in Side : book[s][op.uid] \in Body \cup {None}
  BY <1>3 DEF Types, BookType
<1>6. CASE op \in RowOps
  <2>1. op.uid \in Rows
    BY <1>6 DEF RowOps, Ops
  <2>2. /\ op.kind \notin {"Delete", "Forget"} => Status(Other(op.to), op.uid) = "changed"
        /\ op.kind \in {"Delete", "Conflict"} => Status(op.to, op.uid) \in {"same", "changed"}
    BY <1>6 DEF RowOps, Ops
  <2>3. /\ op.kind \notin {"Delete", "Forget"} => book[Other(op.to)][op.uid] # None
        /\ op.kind \in {"Delete", "Conflict"} => book[op.to][op.uid] # None
    BY <2>2 DEF Status
  <2> QED BY <1>2, <1>3, <1>4, <1>5, <2>3
<1>7. CASE op \in PairOps
  <2>1. /\ op.kind \in {"Adopt", "Conflict", "Create"} /\ Has(Other(op.to), op.uid)
        /\ op.kind # "Create" => Has(op.to, op.uid)
    BY <1>7 DEF PairOps, Ops
  <2>2. \A s \in Side : Has(s, op.uid) => book[s][op.uid] # None
    BY <1>3, DaemonAssumption DEF Has, Etag
  <2> QED BY <1>2, <1>3, <1>4, <1>5, <2>1, <2>2
<1> QED BY <1>2, <1>6, <1>7 DEF Plan

\* Only List puts operations into a cycle; a step of a cycle that goes on
\* keeps its listing and adds none.
LEMMA OnlyListPlans ==
    ASSUME Types, [Next]_vars, ~ List, cycle'.pc = "applying"
    PROVE  /\ cycle.pc = "applying" /\ cycle'.todo \subseteq cycle.todo
           /\ cycle'.listed = cycle.listed
<1> USE DEF Types, CycleType, Cycles
<1>1. CASE Start \/ Reset
  BY <1>1 DEF Start, Reset
<1>7. CASE Look
  <2>1. cycle' = Idling \/ cycle' = [cycle EXCEPT !.pc = "listing"]
    BY <1>7 DEF Look, Finished
  <2> QED BY <2>1 DEF Idling
<1>5. CASE Refused
  BY <1>5, FailedType DEF Refused, Idling
<1>6. CASE Finish \/ Stop
  BY <1>6 DEF Finish, Stop, Finished, Idling
<1>2. CASE Operate
  <2>1. PICK op, error : Succeed(op) \/ Fail(op, error)
    BY <1>2 DEF Operate
  <2>2. CASE Succeed(op)
    BY <1>2, <2>2 DEF Succeed, Operate
  <2>3. CASE Fail(op, error)
    <3>1. CASE IsCycleFatal(error)
      BY <2>3, <3>1, FailedType DEF Fail, Idling
    <3>2. CASE ~ IsCycleFatal(error)
      <4>1. PICK keys : cycle' = [cycle EXCEPT !.todo = @ \ {op}, !.failed = @ \cup keys]
        BY <2>3, <3>2 DEF Fail
      <4> QED BY <1>2, <4>1 DEF Operate
    <3> QED BY <3>1, <3>2
  <2> QED BY <2>1, <2>2, <2>3
<1>3. CASE Edit \/ DeleteMerged \/ Break
  <2>1. PICK sides, touched : Touch(sides, touched)
    BY <1>3 DEF Edit, DeleteMerged, Break
  <2> QED BY <2>1 DEF Touch
<1>4. CASE Pass \/ Fault \/ Signal \/ UNCHANGED vars
  BY <1>4 DEF Pass, Fault, Signal, vars
<1> QED BY <1>1, <1>2, <1>3, <1>4, <1>5, <1>6, <1>7 DEF Next, Cycle, World

\* What is to be read of a listed body stays readable.
LEMMA ReadableStep ==
    ASSUME Types, Readable, [Next]_vars
    PROVE  Readable'
<1>1. CASE List
  BY <1>1, ReadableList
<1>2. CASE ~ List
  BY <1>2, OnlyListPlans DEF Readable
<1> QED BY <1>1, <1>2

\* A step of an operation is a step of one that was to be done.
LEMMA OperateIsAStep ==
    ASSUME Types, Operate
    PROVE  \E op \in cycle.todo : \E answer :
               Succeed(op) \/ (answer \in Answers(op) /\ Fail(op, answer))
<1>1. First(cycle.todo) \in cycle.todo
  BY FirstIsNext DEF Operate, Types, CycleType, Cycles
<1> QED BY <1>1 DEF Operate

\* The types hold in every state.
LEMMA TypesStep ==
    ASSUME Types, Timer, Readable, [Next]_vars
    PROVE  Types'
<1>1. Times'
  BY TimerStep DEF Types
<1>2. BookType' /\ FailType' /\ CycleType' /\ GhostType' /\ RestType'
  <2>1. CASE List
    BY <2>1, ListTypes
  <2>2. CASE Operate
    <3>0. PICK op \in cycle.todo : \E answer :
               Succeed(op) \/ (answer \in Answers(op) /\ Fail(op, answer))
      BY <2>2, OperateIsAStep
    <3>1. PICK answer :
               Succeed(op) \/ (answer \in Answers(op) /\ Fail(op, answer))
      BY <3>0
    <3>2. cycle.pc = "applying" /\ UNCHANGED <<broken, fault>>
      BY <2>2 DEF Operate
    <3>3. CASE Succeed(op)
      BY <3>2, <3>3, SucceedTypes DEF Readable
    <3>4. CASE Fail(op, answer)
      BY <3>2, <3>4, FailTypes
    <3> QED BY <3>1, <3>3, <3>4
  <2>3. CASE Finish
    BY <2>3, FinishTypes
  <2>4. CASE Start \/ Reset \/ Refused \/ Look \/ Stop
    BY <2>4, OtherTypes
  <2>5. CASE World
    BY <2>5, WorldTypes
  <2>6. CASE UNCHANGED vars
    BY <2>6 DEF vars, loop, Types, BookType, FailType, CycleType, GhostType, RestType
  <2> QED BY <2>1, <2>2, <2>3, <2>4, <2>5, <2>6 DEF Next, Cycle
<1> QED BY <1>1, <1>2 DEF Types

(***************************************************************************)
(* The limit on deletions.                                                 *)
(***************************************************************************)
\* What a cycle has deleted on a side, and what it may delete yet.
Erased(s) == {k \in cycle.erased : k[1] = s}
Doomed(s) == Deletions(cycle.todo, s)

Limited ==
    /\ cycle.pc # "applying" => cycle.todo = {} /\ cycle.erased = {}
    /\ cycle.pc = "applying" =>
           \A s \in Side : Cardinality(Erased(s)) + Cardinality(Doomed(s)) <= cycle.limit

\* There are finitely many keys.
LEMMA KeyFinite == IsFiniteSet(Key)
<1>1. IsFiniteSet({"icloud"}) /\ IsFiniteSet({"fastmail"}) /\ IsFiniteSet({Junk})
  BY FS_Singleton
<1>2. IsFiniteSet({"icloud"} \cup {"fastmail"}) /\ IsFiniteSet(Contact \cup {Junk})
  BY <1>1, FS_Union, DaemonAssumption
<1>3. Side = {"icloud"} \cup {"fastmail"}
  BY DEF Side
<1> QED BY <1>2, <1>3, FS_Product DEF Key

\* Erased and doomed contacts can be counted.
LEMMA CountsAreNumbers ==
    ASSUME Types, NEW s
    PROVE  /\ IsFiniteSet(Erased(s)) /\ Cardinality(Erased(s)) \in Nat
           /\ IsFiniteSet(Doomed(s)) /\ Cardinality(Doomed(s)) \in Nat
<1>1. cycle.erased \subseteq Key /\ cycle.todo \subseteq AnyOp
  BY DEF Types, CycleType, Cycles
<1>2. Erased(s) \subseteq Key /\ Doomed(s) \subseteq AnyOp
  BY <1>1 DEF Erased, Doomed, Deletions
<1>3. IsFiniteSet(Erased(s)) /\ IsFiniteSet(Doomed(s))
  BY <1>2, KeyFinite, FinitelyMany, FS_Subset
<1> QED BY <1>3, FS_CardinalityType

\* A deletion carried out is one less to do.
LEMMA DeletionCounted ==
    ASSUME Types, NEW s \in Side, NEW op \in cycle.todo, Succeed(op)
    PROVE  Cardinality(Erased(s)') + Cardinality(Doomed(s)')
               <= Cardinality(Erased(s)) + Cardinality(Doomed(s))
<1> DEFINE new == IF op.kind = "Delete" THEN {Target(op)}
                  ELSE IF op.kind = "Forget" THEN {Target(op), Source(op)} ELSE {}
           key == <<s, op.uid>>
<1>1. op \in AnyOp /\ op.to \in Side
  BY CardsOf DEF Types, CycleType, Cycles
<1>2. cycle'.todo = cycle.todo \ {op} /\ cycle'.erased = cycle.erased \cup new
  BY DEF Succeed, Types, CycleType, Cycles
<1>3. Doomed(s)' = Doomed(s) \ {op}
  BY <1>2 DEF Doomed, Deletions
<1>4. Erased(s)' = Erased(s) \cup {k \in new : k[1] = s}
  BY <1>2 DEF Erased
<1>5. Cardinality(Erased(s)) \in Nat /\ Cardinality(Doomed(s)) \in Nat
  BY CountsAreNumbers
<1>6. CASE op \in Doomed(s)
  <2>1. Cardinality(Doomed(s)') = Cardinality(Doomed(s)) - 1
    BY <1>3, <1>6, CountsAreNumbers, FS_RemoveElement
  <2>2. {k \in new : k[1] = s} = {key}
    <3>1. op.kind = "Forget" \/ (op.kind = "Delete" /\ op.to = s)
      BY <1>6 DEF Doomed, Deletions
    <3>2. Other(op.to) # op.to /\ (op.to = s \/ Other(op.to) = s)
      BY <1>1 DEF Other, Side
    <3> QED BY <3>1, <3>2 DEF Target, Source
  <2>3. Cardinality(Erased(s)') <= Cardinality(Erased(s)) + 1
    <3> HIDE DEF new, key
    <3>1. Cardinality(Erased(s) \cup {key}) =
              IF key \in Erased(s) THEN Cardinality(Erased(s)) ELSE Cardinality(Erased(s)) + 1
      BY CountsAreNumbers, FS_AddElement
    <3> QED BY <1>4, <1>5, <2>2, <3>1
  <2>4. Cardinality(Erased(s)') \in Nat
    <3> HIDE DEF new, key
    <3>1. IsFiniteSet(Erased(s) \cup {key})
      BY CountsAreNumbers, FS_AddElement
    <3> QED BY <1>4, <2>2, <3>1, FS_CardinalityType
  <2> QED BY <1>5, <2>1, <2>3, <2>4
<1>7. CASE op \notin Doomed(s)
  <2>1. Doomed(s)' = Doomed(s)
    BY <1>3, <1>7
  <2>2. ~ (op.kind = "Forget" \/ (op.kind = "Delete" /\ op.to = s))
    BY <1>7 DEF Doomed, Deletions
  <2>3. {k \in new : k[1] = s} = {}
    BY <2>2 DEF Target
  <2>4. Erased(s)' = Erased(s)
    <3> HIDE DEF new
    <3> QED BY <1>4, <2>3
  <2> QED BY <1>5, <2>1, <2>4
<1> QED BY <1>6, <1>7

\* No step of a cycle erases more than it was allowed to.
LEMMA LimitedStep ==
    ASSUME Types, Types', Limited, [Next]_vars
    PROVE  Limited'
<1>1. ASSUME cycle' = Idling
      PROVE  Limited'
  BY <1>1 DEF Limited, Idling
<1>2. ASSUME cycle'.pc = cycle.pc, cycle'.limit = cycle.limit, cycle'.erased = cycle.erased,
             cycle'.todo = cycle.todo
      PROVE  Limited'
  BY <1>2 DEF Limited, Erased, Doomed
<1> USE DEF Types, CycleType, Cycles
<1>3. CASE Start \/ Reset
  BY <1>3 DEF Start, Starts, Reset, Limited
<1>4. CASE Refused
  BY <1>1, <1>4, FailedType DEF Refused
<1>5. CASE Look
  <2>1. cycle.pc = "looking" /\ (cycle' = Idling \/ cycle' = [cycle EXCEPT !.pc = "listing"])
    BY <1>5 DEF Look, Finished
  <2>2. CASE cycle' = [cycle EXCEPT !.pc = "listing"]
    BY <2>1, <2>2 DEF Limited
  <2> QED BY <1>1, <2>1, <2>2
<1>6. CASE List
  <2>1. CASE Block
    BY <1>1, <2>1 DEF Block, Finished
  <2>2. CASE ~ Block
    <3>1. PICK listed : cycle' = [cycle EXCEPT
                !.pc = "applying", !.todo = Plan, !.listed = listed,
                !.failed = Unreadable, !.held = Held, !.moved = {}, !.limit = DeleteLimit]
      BY <1>6, <2>2 DEF List
    <3>2. ~ CheckDeletions(Plan) /\ cycle.pc = "listing"
      BY <1>6, <2>2 DEF List
    <3>3. /\ cycle'.pc = "applying" /\ cycle'.todo = Plan /\ cycle'.limit = DeleteLimit
          /\ cycle'.erased = {}
      BY <3>1, <3>2 DEF Limited
    <3> SUFFICES ASSUME NEW s \in Side
                 PROVE  Cardinality(Erased(s)') + Cardinality(Doomed(s)') <= DeleteLimit
      BY <3>3 DEF Limited
    <3>4. Erased(s)' = {}
      BY <3>3 DEF Erased
    <3>5. Cardinality(Erased(s)') = 0
      BY <3>4, FS_EmptySet
    <3>6. Cardinality(Doomed(s)') \in Nat
      <4>1. IsFiniteSet(Doomed(s)')
        <5>1. Doomed(s)' \subseteq AnyOp
          BY <3>3, PlanType DEF Doomed, Deletions
        <5> QED BY <5>1, FinitelyMany, FS_Subset
      <4> QED BY <4>1, FS_CardinalityType
    <3>7. ~ Cardinality(Doomed(s)') > DeleteLimit
      BY <3>2, <3>3 DEF CheckDeletions, Doomed
    <3> QED BY <3>5, <3>6, <3>7, LimitType
  <2> QED BY <2>1, <2>2
<1>7. CASE Operate
  <2>0. PICK op \in cycle.todo : \E answer :
             Succeed(op) \/ (answer \in Answers(op) /\ Fail(op, answer))
    BY <1>7, OperateIsAStep
  <2>1. PICK answer :
             Succeed(op) \/ (answer \in Answers(op) /\ Fail(op, answer))
    BY <2>0
  <2>2. cycle.pc = "applying"
    BY <1>7 DEF Operate
  <2>3. CASE Succeed(op)
    <3>1. cycle'.pc = "applying" /\ cycle'.limit = cycle.limit
      BY <2>2, <2>3 DEF Succeed
    <3> SUFFICES ASSUME NEW s \in Side
                 PROVE  Cardinality(Erased(s)') + Cardinality(Doomed(s)') <= cycle.limit
      BY <3>1 DEF Limited
    <3>2. /\ Cardinality(Erased(s)') \in Nat /\ Cardinality(Doomed(s)') \in Nat
          /\ Cardinality(Erased(s)) \in Nat /\ Cardinality(Doomed(s)) \in Nat
          /\ cycle.limit \in Nat
      <4>1. /\ IsFiniteSet(Erased(s)') /\ IsFiniteSet(Doomed(s)')
        <5>1. Erased(s)' \subseteq Key /\ Doomed(s)' \subseteq AnyOp
          BY DEF Erased, Doomed, Deletions
        <5> QED BY <5>1, KeyFinite, FinitelyMany, FS_Subset
      <4> QED BY <4>1, CountsAreNumbers, FS_CardinalityType
    <3>3. Cardinality(Erased(s)') + Cardinality(Doomed(s)')
               <= Cardinality(Erased(s)) + Cardinality(Doomed(s))
      BY <2>3, DeletionCounted
    <3>4. Cardinality(Erased(s)) + Cardinality(Doomed(s)) <= cycle.limit
      BY <2>2 DEF Limited
    <3> QED BY <3>2, <3>3, <3>4
  <2>4. CASE Fail(op, answer)
    <3>1. CASE IsCycleFatal(answer)
      BY <1>1, <2>4, <3>1, FailedType DEF Fail
    <3>2. CASE ~ IsCycleFatal(answer)
      <4>1. PICK keys : cycle' = [cycle EXCEPT !.todo = @ \ {op}, !.failed = @ \cup keys]
        BY <2>4, <3>2 DEF Fail
      <4>2. /\ cycle'.pc = "applying" /\ cycle'.limit = cycle.limit
            /\ cycle'.erased = cycle.erased /\ cycle'.todo = cycle.todo \ {op}
        BY <2>2, <4>1
      <4> SUFFICES ASSUME NEW s \in Side
                   PROVE  Cardinality(Erased(s)') + Cardinality(Doomed(s)') <= cycle.limit
        BY <4>2 DEF Limited
      <4>3. Erased(s)' = Erased(s) /\ Doomed(s)' = Doomed(s) \ {op}
        BY <4>2 DEF Erased, Doomed, Deletions
      <4>4. /\ Cardinality(Erased(s)) \in Nat /\ Cardinality(Doomed(s)) \in Nat
            /\ Cardinality(Doomed(s) \ {op}) \in {Cardinality(Doomed(s)), Cardinality(Doomed(s)) - 1}
        BY CountsAreNumbers, FS_RemoveElement
      <4>5. Cardinality(Erased(s)) + Cardinality(Doomed(s)) <= cycle.limit /\ cycle.limit \in Nat
        BY <2>2 DEF Limited
      <4> QED BY <4>3, <4>4, <4>5
    <3> QED BY <3>1, <3>2
  <2> QED BY <2>1, <2>3, <2>4
<1>8. CASE Finish
  BY <1>1, <1>8 DEF Finish, Finished
<1>9. CASE Stop
  BY <1>9 DEF Stop, Limited, Idling
<1>10. CASE Edit \/ DeleteMerged \/ Break
  <2>1. PICK sides, touched : Touch(sides, touched)
    BY <1>10 DEF Edit, DeleteMerged, Break
  <2> QED BY <1>2, <2>1 DEF Touch
<1>11. CASE Pass \/ Fault \/ Signal \/ UNCHANGED vars
  BY <1>2, <1>11 DEF Pass, Fault, Signal, vars
<1> QED BY <1>3, <1>4, <1>5, <1>6, <1>7, <1>8, <1>9, <1>10, <1>11 DEF Next, Cycle, World

Sound == Types /\ Timer /\ Readable /\ Limited

\* The types, the timer, the listing and the limit hold together.
LEMMA SoundInit == Init => Sound
<1> SUFFICES ASSUME Init PROVE Sound
  OBVIOUS
<1>1. Readable /\ Limited
  BY DEF Init, Readable, Limited, Idling
<1> QED BY <1>1, TypesInit, TimerInit DEF Sound

\* Sound is inductive.
LEMMA SoundStep == Sound /\ [Next]_vars => Sound'
BY TypesStep, TimerStep, ReadableStep, LimitedStep DEF Sound, Types

\* What is stored and remembered is of its type: no failure is recorded for a
\* card that was not listed.
THEOREM TypesHold == Spec => []TypeOK
<1>1. Sound => TypeOK
  BY DEF Sound, Types, BookType, FailType, CycleType, Cycles, RestType, Times, TypeOK, Etags
<1> QED BY <1>1, SoundInit, SoundStep, PTL DEF Spec

\* No cycle deletes more contacts on a side than its limit, counted as they
\* go, whatever fails and whoever edits meanwhile: the guard counts the plan,
\* and nothing outside the plan is deleted (check_deletions).
THEOREM DeletionsAreLimited == Spec => []WithinLimit
<1>1. Sound => WithinLimit
  <2> SUFFICES ASSUME Sound, NEW s \in Side
               PROVE  Cardinality(Erased(s)) <= cycle.limit
    BY DEF WithinLimit, Erased
  <2>1. Cardinality(Erased(s)) \in Nat /\ Cardinality(Doomed(s)) \in Nat /\ cycle.limit \in Nat
    BY CountsAreNumbers DEF Sound, Types, CycleType, Cycles
  <2>2. CASE cycle.pc = "applying"
    BY <2>1, <2>2 DEF Sound, Limited
  <2>3. CASE cycle.pc # "applying"
    <3>1. Erased(s) = {}
      BY <2>3 DEF Sound, Limited, Erased
    <3> QED BY <2>1, <3>1, FS_EmptySet
  <2> QED BY <2>2, <2>3
<1> QED BY <1>1, SoundInit, SoundStep, PTL DEF Spec

(***************************************************************************)
(* A deleted merged entry leaves a card.                                   *)
(***************************************************************************)
\* A card that is there, and one that no deletion is due for.
There(s, u) == book[s][u] # None
Safe(s, u) == There(s, u) /\ (There(Other(s), u) \/ book[s][u] # row[u])

\* What an operation was planned for is still so.
Agrees(op) ==
    /\ op.kind = "Delete" =>
           ~ There(Other(op.to), op.uid) /\ book[op.to][op.uid] = row[op.uid]
    /\ op.kind = "Forget" => \A s \in Side : ~ There(s, op.uid)
    /\ op.kind \in {"Resurrect", "Create"} =>
           There(Other(op.to), op.uid) /\ ~ There(op.to, op.uid)
    /\ op.kind \in {"Refresh", "Conflict", "Update", "Adopt"} =>
           \A s \in Side : There(s, op.uid)

\* A contact has one operation at most, and nobody brings a card back that an
\* operation to be done missed.
Planned ==
    /\ \A op, other \in cycle.todo : op.uid = other.uid => op = other
    /\ \A op \in cycle.todo :
          /\ op.kind = "Delete" => ~ There(Other(op.to), op.uid)
          /\ op.kind = "Forget" => \A s \in Side : ~ There(s, op.uid)

\* Of the merged entry's cards, u's on s is there or v's, on the other side,
\* is to stay; and u's is deleted only if v's is to stay.
Half(s, u, v) ==
    /\ There(s, u) \/ Safe(Other(s), v)
    /\ \A op \in cycle.todo : op.uid = u => Agrees(op)
    /\ \A op \in cycle.todo :
          op.kind = "Delete" /\ op.uid = u /\ op.to = s => Safe(Other(s), v)

\* No operation to be done, planned before the entry was deleted, deletes more.
Untouched(a, b) ==
    /\ There("fastmail", a) /\ There("icloud", b)
    /\ \A op \in cycle.todo : op.uid \in {a, b} => op.kind \notin {"Delete", "Forget"}

Survives ==
    ghost.merged # None /\ ~ ghost.blind =>
        LET a == ghost.merged[1]
            b == ghost.merged[2]
        IN Untouched(a, b) \/ (Half("fastmail", a, b) /\ Half("icloud", b, a))

\* The two sides.
LEMMA Sides ==
    ASSUME NEW s \in Side
    PROVE  /\ Other(s) \in Side /\ Other(s) # s /\ Other(Other(s)) = s
           /\ \A t \in Side : t = s \/ t = Other(s)
BY DEF Side, Other

\* The decision table, row by row.
LEMMA RowOpIs ==
    ASSUME NEW op \in RowOps
    PROVE  /\ op \in AnyOp /\ op.uid \in Rows
           /\ op.kind \in StateOnly => op.to = "icloud"
           /\ op.kind \in {"Forget", "Refresh", "Conflict", "Update", "Resurrect", "Delete"}
           /\ op.kind = "Forget" =>
                  Status(op.to, op.uid) = "deleted" /\ Status(Other(op.to), op.uid) = "deleted"
           /\ op.kind = "Refresh" =>
                  /\ Status(op.to, op.uid) = "changed" /\ Status(Other(op.to), op.uid) = "changed"
                  /\ SameBodies(op.uid)
           /\ op.kind = "Conflict" =>
                  /\ Status(op.to, op.uid) = "changed" /\ Status(Other(op.to), op.uid) = "changed"
                  /\ ~ SameBodies(op.uid) /\ op.to = Other(Winner)
           /\ op.kind = "Update" =>
                  Status(op.to, op.uid) = "same" /\ Status(Other(op.to), op.uid) = "changed"
           /\ op.kind = "Resurrect" =>
                  Status(op.to, op.uid) = "deleted" /\ Status(Other(op.to), op.uid) = "changed"
           /\ op.kind = "Delete" =>
                  Status(op.to, op.uid) = "same" /\ Status(Other(op.to), op.uid) = "deleted"
<1>1. op \in AnyOp /\ op.uid \in Rows
      /\ op.kind \in {"Forget", "Refresh", "Conflict", "Update", "Resurrect", "Delete"}
  BY DEF RowOps, Ops, AnyOp, Kinds, Rows
<1>2. op.kind \in StateOnly => op.to = "icloud"
  BY DEF RowOps
<1>3. CASE op.kind = "Forget"
  BY <1>1, <1>2, <1>3 DEF RowOps
<1>4. CASE op.kind = "Refresh"
  BY <1>1, <1>2, <1>4 DEF RowOps
<1>5. CASE op.kind = "Conflict"
  BY <1>1, <1>2, <1>5 DEF RowOps
<1>6. CASE op.kind = "Update"
  BY <1>1, <1>2, <1>6 DEF RowOps
<1>7. CASE op.kind = "Resurrect"
  BY <1>1, <1>2, <1>7 DEF RowOps
<1>8. CASE op.kind = "Delete"
  BY <1>1, <1>2, <1>8 DEF RowOps
<1> QED BY <1>1, <1>3, <1>4, <1>5, <1>6, <1>7, <1>8

\* What an operation of the pairing is planned for.
LEMMA PairOpIs ==
    ASSUME NEW op \in PairOps
    PROVE  /\ op \in AnyOp /\ op.uid \in Contact \ Rows
           /\ op.kind \in {"Adopt", "Conflict", "Create"}
           /\ There(Other(op.to), op.uid)
           /\ op.kind = "Create" <=> ~ There(op.to, op.uid)
           /\ op.kind = "Adopt" => op.to = "icloud" /\ SameBodies(op.uid)
           /\ op.kind = "Conflict" => op.to = Other(Winner) /\ ~ SameBodies(op.uid)
<1>1. /\ op \in AnyOp /\ op.uid \in Contact \ Rows
      /\ op.kind \in {"Adopt", "Conflict", "Create"}
      /\ Has(Other(op.to), op.uid)
      /\ op.kind = "Create" <=> ~ Has(op.to, op.uid)
      /\ op.kind = "Adopt" => op.to = "icloud" /\ SameBodies(op.uid)
      /\ op.kind = "Conflict" => op.to = Other(Winner) /\ ~ SameBodies(op.uid)
  BY DEF PairOps, Ops, AnyOp, Kinds
<1>2. op.uid # Junk
  BY <1>1, DaemonAssumption
<1>3. \A s : Has(s, op.uid) <=> There(s, op.uid)
  BY <1>2 DEF Has, Etag, There
<1> QED BY <1>1, <1>3

\* A plan is in accordance with what it was made of.
LEMMA PlanAgrees ==
    ASSUME NEW op \in RowOps \cup PairOps
    PROVE  Agrees(op)
<1>1. op \in AnyOp /\ op.to \in Side
  BY RowOpIs, PairOpIs, CardsOf
<1>2. CASE op \in RowOps
  <2>1. row[op.uid] # None
    BY <1>2, RowOpIs DEF Rows
  <2>2. \A s : /\ Status(s, op.uid) = "deleted" => ~ There(s, op.uid)
               /\ Status(s, op.uid) = "same" => There(s, op.uid) /\ book[s][op.uid] = row[op.uid]
               /\ Status(s, op.uid) = "changed" => There(s, op.uid)
    BY <2>1 DEF Status, There
  <2> QED BY <1>1, <1>2, <2>2, RowOpIs, Sides DEF Agrees
<1>3. CASE op \in PairOps
  BY <1>1, <1>3, PairOpIs, Sides DEF Agrees
<1> QED BY <1>2, <1>3

\* It has one operation for a contact at most.
LEMMA PlanIsUnique ==
    ASSUME NEW op \in RowOps \cup PairOps, NEW other \in RowOps \cup PairOps, op.uid = other.uid
    PROVE  op = other
<1>1. op \in AnyOp /\ other \in AnyOp /\ op.to \in Side /\ other.to \in Side
  BY RowOpIs, PairOpIs, CardsOf
<1>2. SUFFICES op.kind = other.kind /\ op.to = other.to
  BY <1>1, CardsOf
<1>3. CASE op.uid \in Rows
  <2>1. op \in RowOps /\ other \in RowOps
    BY <1>3, PairOpIs
  <2>2. op.to = other.to \/ op.to = Other(other.to)
    BY <1>1, Sides
  <2>3. CASE op.to = other.to
    BY <2>1, <2>3, RowOpIs
  <2>4. CASE op.to = Other(other.to)
    <3>1. Other(op.to) = other.to /\ Other(other.to) = op.to /\ op.to # other.to
      BY <1>1, <2>4, Sides
    <3> QED BY <2>1, <3>1, RowOpIs DEF StateOnly
  <2> QED BY <2>2, <2>3, <2>4
<1>4. CASE op.uid \notin Rows
  <2>1. op \in PairOps /\ other \in PairOps
    BY <1>4, RowOpIs
  <2>2. op.to = other.to \/ op.to = Other(other.to)
    BY <1>1, Sides
  <2>3. CASE op.to = other.to
    BY <2>1, <2>3, PairOpIs
  <2>4. CASE op.to = Other(other.to)
    <3>1. Other(op.to) = other.to /\ Other(other.to) = op.to /\ op.to # other.to
      BY <1>1, <2>4, Sides
    <3> QED BY <2>1, <3>1, PairOpIs
  <2> QED BY <2>2, <2>3, <2>4
<1> QED BY <1>3, <1>4

\* What a finished operation leaves, and where it leaves nothing.
LEMMA SucceedEffect ==
    ASSUME Types, Readable, cycle.pc = "applying", NEW op \in cycle.todo, Succeed(op)
    PROVE  /\ op \in AnyOp /\ op.to \in Side /\ op.uid \in Contact
           /\ cycle'.pc = "applying" /\ cycle'.todo = cycle.todo \ {op}
           /\ ghost'.merged = ghost.merged /\ ghost'.blind = ghost.blind
           /\ \A u \in Contact \ {op.uid} :
                  row'[u] = row[u] /\ \A s \in Side : book'[s][u] = book[s][u]
           /\ row'[op.uid] = Result(op)
           /\ op.kind \in StateOnly => book' = book
           /\ op.kind \notin StateOnly =>
                  /\ book'[op.to][op.uid] = Result(op)
                  /\ book'[Other(op.to)][op.uid] = book[Other(op.to)][op.uid]
           /\ Result(op) = None <=> op.kind \in {"Delete", "Forget"}
<1>1. op \in AnyOp /\ op.to \in Side /\ op.uid \in Contact
  BY CardsOf DEF Types, CycleType, Cycles
<1>2. /\ cycle'.pc = "applying" /\ cycle'.todo = cycle.todo \ {op}
      /\ ghost'.merged = ghost.merged /\ ghost'.blind = ghost.blind
  BY DEF Succeed, Types, CycleType, Cycles, GhostType
<1>3. /\ book' = IF op.kind \in StateOnly THEN book
                 ELSE [book EXCEPT ![op.to][op.uid] = Result(op)]
      /\ row' = [row EXCEPT ![op.uid] = Result(op)]
  BY DEF Succeed
<1>4. Result(op) = None <=> op.kind \in {"Delete", "Forget"}
  BY DaemonAssumption DEF Result, Readable
<1>5. /\ \A u \in Contact \ {op.uid} :
             row'[u] = row[u] /\ \A s \in Side : book'[s][u] = book[s][u]
      /\ row'[op.uid] = Result(op)
  BY <1>1, <1>3 DEF Types, BookType
<1>6. op.kind \notin StateOnly =>
          /\ book'[op.to][op.uid] = Result(op)
          /\ book'[Other(op.to)][op.uid] = book[Other(op.to)][op.uid]
  BY <1>1, <1>3, Sides DEF Types, BookType
<1> QED BY <1>1, <1>2, <1>3, <1>4, <1>5, <1>6

\* A step that keeps the books, the rows and the merged entry, and adds no
\* operation, keeps the invariants.
LEMMA PlannedKept ==
    ASSUME Planned, UNCHANGED book, cycle'.todo \subseteq cycle.todo
    PROVE  Planned'
BY DEF Planned, There

\* Steps that leave the books alone and plan nothing keep Survives.
LEMMA SurvivesKept ==
    ASSUME Types, Survives, cycle'.todo \subseteq cycle.todo, UNCHANGED book,
           ghost'.merged = ghost.merged, ghost'.blind = ghost.blind,
           \/ UNCHANGED row
           \/ cycle'.todo = {} /\ \A u \in Contact : row'[u] = None
    PROVE  Survives'
<1> SUFFICES ASSUME ghost.merged # None, ~ ghost.blind,
                    NEW a, NEW b, a = ghost.merged[1], b = ghost.merged[2]
             PROVE  Untouched(a, b)' \/ (Half("fastmail", a, b)' /\ Half("icloud", b, a)')
  BY DEF Survives
<1>1. CASE Untouched(a, b)
  BY <1>1 DEF Untouched, There
<1>2. CASE Half("fastmail", a, b) /\ Half("icloud", b, a)
  <2>1. CASE UNCHANGED row
    BY <1>2, <2>1 DEF Half, Safe, There, Agrees
  <2>2. CASE cycle'.todo = {} /\ \A u \in Contact : row'[u] = None
    <3>1. a \in Contact /\ b \in Contact
      BY DaemonAssumption DEF Types, GhostType
    <3>2. \A s, u : There(s, u)' <=> There(s, u)
      BY DEF There
    <3>3. \A s : \A u \in Contact : Safe(s, u) => Safe(s, u)'
      BY <2>2, <3>2 DEF Safe, There
    <3> QED BY <1>2, <2>2, <3>1, <3>2, <3>3 DEF Half
  <2> QED BY <2>1, <2>2
<1> QED BY <1>1, <1>2 DEF Survives

\* An operation done leaves the rest of the plan as it was meant.
LEMMA PlannedSucceed ==
    ASSUME Types, Readable, cycle.pc = "applying", NEW op \in cycle.todo, Succeed(op), Planned
    PROVE  Planned'
<1>1. cycle'.todo = cycle.todo \ {op} /\ cycle.todo \subseteq AnyOp
  BY SucceedEffect DEF Types, CycleType, Cycles
<1>2. ASSUME NEW other \in cycle.todo, other # op
      PROVE  \A s \in Side : There(s, other.uid)' <=> There(s, other.uid)
  <2>1. other.uid \in Contact \ {op.uid}
    BY <1>1, <1>2, CardsOf DEF Planned
  <2> QED BY <2>1, SucceedEffect DEF There
<1>3. \A other \in cycle.todo : Other(other.to) \in Side
  BY <1>1, CardsOf
<1> QED BY <1>1, <1>2, <1>3 DEF Planned

\* Half of what is kept, through an operation on the contact itself.
LEMMA HalfSucceed ==
    ASSUME Types, Readable, cycle.pc = "applying", NEW op \in cycle.todo, Succeed(op), Planned,
           NEW s \in Side, NEW u \in Contact, NEW v \in Contact, u # v,
           Half(s, u, v), Half(Other(s), v, u)
    PROVE  Half(s, u, v)'
<1>1. cycle'.todo = cycle.todo \ {op} /\ cycle.todo \subseteq AnyOp /\ op.to \in Side
  BY SucceedEffect DEF Types, CycleType, Cycles
<1>2. /\ Other(s) \in Side /\ Other(Other(s)) = s /\ Other(s) # s
      /\ op.to = s \/ op.to = Other(s)
  BY <1>1, Sides
<1>3. ASSUME NEW w \in Contact, w # op.uid
      PROVE  \A t \in Side : (There(t, w)' <=> There(t, w)) /\ (Safe(t, w)' <=> Safe(t, w))
  BY <1>3, SucceedEffect, Sides DEF There, Safe
<1>4. ASSUME NEW other \in cycle'.todo, other.uid = u
      PROVE  Agrees(other)'
  <2>1. other \in AnyOp /\ other \in cycle.todo /\ other # op /\ other.to \in Side
    BY <1>1, CardsOf
  <2>2. other.uid # op.uid /\ Agrees(other)
    BY <1>4, <2>1 DEF Planned, Half
  <2>3. row'[u] = row[u] /\ \A t \in Side : book'[t][u] = book[t][u]
    BY <1>4, <2>2, SucceedEffect
  <2> QED BY <1>4, <2>1, <2>2, <2>3, Sides DEF Agrees, There
\* v's card on the other side stays safe unless u's is not deleted either.
<1>5. CASE op.uid = v
  <2>1. Agrees(op)
    BY <1>5 DEF Half
  <2>2. CASE op.kind = "Delete" /\ op.to = Other(s)
    <3>1. Safe(s, u) /\ There(s, u)
      BY <1>2, <1>5, <2>2 DEF Half, Safe
    <3>2. There(s, u)'
      BY <1>3, <1>5, <3>1
    <3>3. ASSUME NEW other \in cycle'.todo, other.kind = "Delete", other.uid = u, other.to = s
          PROVE  FALSE
      <4>1. Agrees(other)
        BY <1>1, <3>3 DEF Half
      <4> QED BY <3>1, <3>3, <4>1 DEF Agrees, Safe
    <3> QED BY <1>4, <3>2, <3>3 DEF Half
  <2>3. CASE op.kind = "Delete" /\ op.to = s
    <3>1. ~ There(Other(s), v)
      BY <1>5, <2>1, <2>3 DEF Agrees
    <3>2. There(s, u) /\ There(s, u)'
      BY <1>3, <1>5, <3>1 DEF Half, Safe
    <3>3. ASSUME NEW other \in cycle'.todo, other.kind = "Delete", other.uid = u, other.to = s
          PROVE  FALSE
      BY <1>1, <3>1, <3>3 DEF Half, Safe
    <3> QED BY <1>4, <3>2, <3>3 DEF Half
  <2>4. CASE op.kind = "Forget"
    <3>1. ~ There(Other(s), v)
      BY <1>2, <1>5, <2>1, <2>4 DEF Agrees
    <3>2. There(s, u) /\ There(s, u)'
      BY <1>3, <1>5, <3>1 DEF Half, Safe
    <3>3. ASSUME NEW other \in cycle'.todo, other.kind = "Delete", other.uid = u, other.to = s
          PROVE  FALSE
      BY <1>1, <3>1, <3>3 DEF Half, Safe
    <3> QED BY <1>4, <3>2, <3>3 DEF Half
  <2>5. CASE op.kind \notin {"Delete", "Forget"}
    <3>1. \A t \in Side : There(t, v)'
      <4>1. op \in AnyOp /\ op.kind \in Kinds
        BY <1>1 DEF AnyOp, Ops
      <4>2. There(Other(op.to), v) /\ (op.kind \in StateOnly => There(op.to, v))
        BY <1>1, <1>5, <2>1, <2>5, <4>1, Sides DEF Agrees, Kinds, StateOnly
      <4>3. op.kind \notin StateOnly => There(op.to, v)' /\ There(Other(op.to), v)'
        BY <1>5, <2>5, <4>2, SucceedEffect DEF There
      <4>4. op.kind \in StateOnly => There(op.to, v)' /\ There(Other(op.to), v)'
        BY <4>2, SucceedEffect DEF There
      <4> QED BY <1>1, <4>3, <4>4, Sides
    <3>2. Safe(Other(s), v)'
      BY <1>2, <3>1 DEF Safe
    <3> QED BY <1>4, <3>2 DEF Half
  <2> QED BY <1>2, <2>2, <2>3, <2>4, <2>5
<1>6. CASE op.uid = u
  <2>1. Agrees(op) /\ (Safe(Other(s), v)' <=> Safe(Other(s), v))
    BY <1>2, <1>3, <1>6 DEF Half
  <2>2. ASSUME NEW other \in cycle'.todo, other.kind = "Delete", other.uid = u, other.to = s
        PROVE  FALSE
    BY <1>1, <1>6, <2>2 DEF Planned
  <2>3. There(s, u)' \/ Safe(Other(s), v)'
    <3>1. SUFFICES ASSUME ~ There(s, u)', ~ Safe(Other(s), v) PROVE FALSE
      BY <2>1
    <3>2. There(s, u)
      BY <3>1 DEF Half
    <3>3. op.kind \notin StateOnly /\ op.to = s
      BY <1>2, <1>6, <3>1, <3>2, SucceedEffect DEF There
    <3>4. op.kind \in {"Delete", "Forget"}
      BY <1>6, <3>1, <3>3, SucceedEffect DEF There
    <3> QED BY <1>6, <3>1, <3>3, <3>4 DEF Half, StateOnly
  <2> QED BY <1>4, <2>2, <2>3 DEF Half
<1>7. CASE op.uid \notin {u, v}
  <2>1. (There(s, u)' <=> There(s, u)) /\ (Safe(Other(s), v)' <=> Safe(Other(s), v))
    BY <1>2, <1>3, <1>7
  <2> QED BY <1>1, <1>4, <2>1 DEF Half
<1> QED BY <1>5, <1>6, <1>7

\* A new plan deletes no card of a merged entry unless the other's is to stay:
\* the two deletions together would be held (hold_cross_deletes).
LEMMA HalfList ==
    ASSUME Types, NEW s \in Side, NEW u \in Contact, NEW v \in Contact, u # v,
           <<u, v>> \in Alike, <<v, u>> \in Alike,
           There(s, u) \/ Safe(Other(s), v), There(Other(s), v) \/ Safe(s, u),
           ~ HeldBack(v), ~ Deferred(v),
           cycle'.todo = Plan, UNCHANGED <<book, row>>
    PROVE  Half(s, u, v)'
<1>1. Other(s) \in Side /\ Other(Other(s)) = s /\ Other(s) # s
  BY Sides
<1>2. \A op \in Plan : Agrees(op)
  BY PlanAgrees DEF Plan
<1>3. ASSUME NEW op \in Plan, op.kind = "Delete", op.uid = u, op.to = s
      PROVE  Safe(Other(s), v)
  <2>1. ~ There(Other(s), u) /\ book[s][u] = row[u]
    BY <1>2, <1>3 DEF Agrees
  <2>2. There(Other(s), v)
    BY <2>1 DEF Safe
  <2> SUFFICES ASSUME ~ There(s, v), book[Other(s)][v] = row[v]
               PROVE  FALSE
    BY <1>1, <2>2 DEF Safe
  <2>3. v \in Rows
    BY <2>2 DEF Rows, There
  <2> DEFINE other == [kind |-> "Delete", uid |-> v, to |-> Other(s)]
  <2>4. Status(Other(s), v) = "same" /\ Status(s, v) = "deleted"
    BY <2>2 DEF Status, There
  <2>5. other \in Ops({"Forget", "Refresh", "Conflict", "Update", "Resurrect", "Delete"},
                      {w \in Rows : ~ HeldBack(w) /\ ~ Deferred(w)})
    BY <1>1, <2>3 DEF Ops
  <2>6. other \in RowOps
    BY <1>1, <2>4, <2>5 DEF RowOps, StateOnly
  <2>7. op \in RowOps \cup PairOps /\ op \notin CrossDeletes(RowOps \cup PairOps)
    BY DEF Plan
  <2>8. op \in CrossDeletes(RowOps \cup PairOps)
    <3>1. other.kind = "Delete" /\ other.to = Other(op.to) /\ <<op.uid, other.uid>> \in Alike
      BY <1>3
    <3>2. other \in RowOps \cup PairOps
      BY <2>6
    <3> HIDE DEF other
    <3> QED BY <1>3, <2>7, <3>1, <3>2 DEF CrossDeletes
  <2> QED BY <2>7, <2>8
<1>4. \A op \in Plan : op.uid = u => Agrees(op)'
  BY <1>2 DEF Agrees, There
<1>5. \A t, w : (There(t, w)' <=> There(t, w)) /\ (Safe(t, w)' <=> Safe(t, w))
  BY DEF There, Safe
<1> QED BY <1>3, <1>4, <1>5 DEF Half

\* A plan that passed the guards leaves a card of every contact.
LEMMA ListSurvives ==
    ASSUME Types, Planned, Survives, List, ~ Block
    PROVE  Planned' /\ Survives'
<1>1. cycle'.todo = Plan /\ UNCHANGED <<book, row>>
      /\ ghost'.merged = ghost.merged /\ ghost'.blind = (ghost.blind \/ Unplanned)
  BY DEF List, Types, CycleType, Cycles, GhostType
<1>2. Planned'
  <2>1. \A op, other \in Plan : op.uid = other.uid => op = other
    BY PlanIsUnique DEF Plan
  <2>2. \A op \in Plan : /\ op.kind = "Delete" => ~ There(Other(op.to), op.uid)
                         /\ op.kind = "Forget" => \A s \in Side : ~ There(s, op.uid)
    BY PlanAgrees DEF Plan, Agrees
  <2> QED BY <1>1, <2>1, <2>2 DEF Planned, There
<1>3. Survives'
  <2> SUFFICES ASSUME ghost.merged # None, ~ ghost.blind, ~ Unplanned,
                      NEW a, NEW b, a = ghost.merged[1], b = ghost.merged[2]
               PROVE  Half("fastmail", a, b)' /\ Half("icloud", b, a)'
    BY <1>1 DEF Survives
  <2>1. /\ a \in Contact /\ b \in Contact /\ a # b
        /\ <<a, b>> \in Alike /\ <<b, a>> \in Alike
    BY DaemonAssumption DEF Types, GhostType
  <2>2. ~ HeldBack(a) /\ ~ Deferred(a) /\ ~ HeldBack(b) /\ ~ Deferred(b)
    BY DEF Unplanned
  <2>3. "fastmail" \in Side /\ "icloud" \in Side /\ Other("fastmail") = "icloud"
        /\ Other("icloud") = "fastmail"
    BY DEF Side, Other
  <2>4. /\ There("fastmail", a) \/ Safe("icloud", b)
        /\ There("icloud", b) \/ Safe("fastmail", a)
    BY <2>3 DEF Survives, Untouched, Half
  <2>5. Half("fastmail", a, b)'
    BY <1>1, <2>1, <2>2, <2>3, <2>4, HalfList
  <2>6. Half("icloud", b, a)'
    BY <1>1, <2>1, <2>2, <2>3, <2>4, HalfList
  <2> QED BY <2>5, <2>6
<1> QED BY <1>2, <1>3

\* An operation that succeeds keeps Survives.
LEMMA SucceedSurvives ==
    ASSUME Types, Readable, cycle.pc = "applying", NEW op \in cycle.todo, Succeed(op),
           Planned, Survives
    PROVE  Survives'
<1> SUFFICES ASSUME ghost.merged # None, ~ ghost.blind,
                    NEW a, NEW b, a = ghost.merged[1], b = ghost.merged[2]
             PROVE  Untouched(a, b)' \/ (Half("fastmail", a, b)' /\ Half("icloud", b, a)')
  BY SucceedEffect DEF Survives
<1>1. a \in Contact /\ b \in Contact /\ a # b
  BY DaemonAssumption DEF Types, GhostType
<1>2. "fastmail" \in Side /\ "icloud" \in Side /\ Other("fastmail") = "icloud"
      /\ Other("icloud") = "fastmail"
  BY DEF Side, Other
<1>3. CASE Untouched(a, b)
  <2>1. cycle'.todo = cycle.todo \ {op}
    BY SucceedEffect
  <2>2. ASSUME NEW t \in Side, NEW w \in {a, b}, There(t, w)
        PROVE  There(t, w)'
    <3>1. op.uid = w => op.kind \notin {"Delete", "Forget"}
      BY <1>3 DEF Untouched
    <3>2. CASE op.uid # w
      BY <1>1, <2>2, <3>2, SucceedEffect DEF There
    <3>3. CASE op.uid = w /\ op.kind \in StateOnly
      BY <2>2, <3>3, SucceedEffect DEF There
    <3>4. CASE op.uid = w /\ op.kind \notin StateOnly
      <4>1. t = op.to \/ t = Other(op.to)
        BY SucceedEffect, Sides
      <4> QED BY <2>2, <3>1, <3>4, <4>1, SucceedEffect DEF There
    <3> QED BY <3>2, <3>3, <3>4
  <2> QED BY <1>2, <1>3, <2>1, <2>2 DEF Untouched
<1>4. CASE Half("fastmail", a, b) /\ Half("icloud", b, a)
  <2>1. Half("fastmail", a, b)'
    BY <1>1, <1>2, <1>4, HalfSucceed
  <2>2. Half("icloud", b, a)'
    BY <1>1, <1>2, <1>4, HalfSucceed
  <2> QED BY <2>1, <2>2
<1> QED BY <1>3, <1>4 DEF Survives

\* A person who writes to one of the two cards ends the matter; one who deletes
\* the merged entry leaves a card each, and no deletion was planned for them.
LEMMA EditSurvives ==
    ASSUME Types, Planned, Survives, Edit
    PROVE  Planned' /\ Survives'
<1>1. PICK s \in Side, u \in Contact, b \in Body \cup {None} :
            /\ book[s][u] \notin {b, None}
            /\ Touch({s}, {u})
            /\ book' = [book EXCEPT ![s][u] = b]
            /\ ghost' = [ghost EXCEPT !.merged = Released(u), !.blocked = FALSE]
  BY DEF Edit
<1>2. cycle'.todo = cycle.todo /\ UNCHANGED row
  BY <1>1 DEF Touch, Types, CycleType, Cycles
<1>3. \A t \in Side, w \in Contact : ~ There(t, w) => ~ There(t, w)'
  BY <1>1 DEF There, Types, BookType
<1>4. Planned'
  <2>1. \A op \in cycle.todo : Other(op.to) \in Side /\ op.uid \in Contact
    BY CardsOf DEF Types, CycleType, Cycles
  <2> QED BY <1>2, <1>3, <2>1 DEF Planned
<1>5. Survives'
  <2>1. ghost'.merged = Released(u) /\ ghost'.blind = ghost.blind
    BY <1>1 DEF Types, GhostType
  <2> SUFFICES ASSUME ghost'.merged # None, ~ ghost.blind,
                      NEW m, NEW n, m = ghost'.merged[1], n = ghost'.merged[2]
               PROVE  Untouched(m, n)' \/ (Half("fastmail", m, n)' /\ Half("icloud", n, m)')
    BY <2>1 DEF Survives
  <2>2. ghost'.merged = ghost.merged /\ u \notin {m, n}
    BY <2>1 DEF Released
  <2>3. m \in Contact /\ n \in Contact
    BY <2>2, DaemonAssumption DEF Types, GhostType
  <2>4. \A w \in {m, n} : row'[w] = row[w] /\ \A t \in Side : book'[t][w] = book[t][w]
    BY <1>1, <1>2, <2>2, <2>3 DEF Types, BookType
  <2>5. \A w \in {m, n}, t \in Side : (There(t, w)' <=> There(t, w)) /\ (Safe(t, w)' <=> Safe(t, w))
    BY <2>4, Sides DEF There, Safe
  <2>6. "fastmail" \in Side /\ "icloud" \in Side /\ Other("fastmail") = "icloud"
        /\ Other("icloud") = "fastmail"
    BY DEF Side, Other
  <2>7. \A op \in cycle.todo : op.uid \in {m, n} /\ Agrees(op) => Agrees(op)'
    <3>1. \A op \in cycle.todo : op.to \in Side /\ Other(op.to) \in Side
      BY CardsOf DEF Types, CycleType, Cycles
    <3> QED BY <2>4, <2>5, <3>1 DEF Agrees
  <2>8. CASE Untouched(m, n)
    BY <1>2, <2>5, <2>6, <2>8 DEF Untouched
  <2>9. CASE Half("fastmail", m, n) /\ Half("icloud", n, m)
    BY <1>2, <2>5, <2>6, <2>7, <2>9 DEF Half
  <2> QED BY <2>2, <2>8, <2>9 DEF Survives
<1> QED BY <1>4, <1>5

\* Deleting a duplicate keeps Survives.
LEMMA MergedSurvives ==
    ASSUME Types, Planned, DeleteMerged
    PROVE  Planned' /\ Survives'
<1>1. PICK p \in Alike :
            /\ \A s \in Side : \A u \in {p[1], p[2]} : book[s][u] # None
            /\ Touch(Side, {p[1], p[2]})
            /\ book' = [book EXCEPT !["icloud"][p[1]] = None, !["fastmail"][p[2]] = None]
            /\ ghost' = [ghost EXCEPT !.merged = p, !.blind = FALSE, !.blocked = FALSE]
  BY DEF DeleteMerged
<1>2. cycle'.todo = cycle.todo
  BY <1>1 DEF Touch, Types, CycleType, Cycles
<1>3. p[1] \in Contact /\ p[2] \in Contact /\ p[1] # p[2]
  BY DaemonAssumption
<1>4. "fastmail" \in Side /\ "icloud" \in Side
  BY DEF Side
<1>5. /\ \A t \in Side, w \in Contact : ~ There(t, w) => ~ There(t, w)'
      /\ There("fastmail", p[1])' /\ There("icloud", p[2])'
  <2> DEFINE i == [book["icloud"] EXCEPT ![p[1]] = None]
             f == [book["fastmail"] EXCEPT ![p[2]] = None]
  <2>1. book'["icloud"] = i /\ book'["fastmail"] = f
    BY <1>1, <1>4 DEF Types, BookType
  <2>2. i \in [Contact -> Body \cup {None}] /\ f \in [Contact -> Body \cup {None}]
        /\ i[p[2]] = book["icloud"][p[2]] /\ f[p[1]] = book["fastmail"][p[1]]
        /\ \A w \in Contact : i[w] \in {book["icloud"][w], None} /\ f[w] \in {book["fastmail"][w], None}
    BY <1>3, <1>4 DEF Types, BookType
  <2>3. i[p[2]] # None /\ f[p[1]] # None
    BY <1>1, <1>4, <2>2
  <2> HIDE DEF i, f
  <2> QED BY <2>1, <2>2, <2>3 DEF There, Side
<1>6. Planned'
  <2>1. \A op \in cycle.todo : Other(op.to) \in Side /\ op.uid \in Contact
    BY CardsOf DEF Types, CycleType, Cycles
  <2> QED BY <1>2, <1>5, <2>1 DEF Planned
<1>7. \A op \in cycle.todo : op.uid \in {p[1], p[2]} => op.kind \notin {"Delete", "Forget"}
  <2>1. \A op \in cycle.todo : Other(op.to) \in Side
    BY CardsOf DEF Types, CycleType, Cycles
  <2> QED BY <1>1, <1>4, <2>1 DEF Planned, There
<1>8. ghost'.merged = p
  BY <1>1 DEF Types, GhostType
<1>9. Untouched(p[1], p[2])'
  BY <1>2, <1>5, <1>7 DEF Untouched
<1> QED BY <1>6, <1>8, <1>9 DEF Survives

\* Planned and Survives are inductive, under Sound.
LEMMA SurvivesStep ==
    ASSUME Sound, Sound', Planned, Survives, [Next]_vars
    PROVE  Planned' /\ Survives'
<1> USE DEF Sound, Types, CycleType, Cycles
<1>1. ASSUME cycle'.todo \subseteq cycle.todo, UNCHANGED <<book, row>>,
             ghost'.merged = ghost.merged, ghost'.blind = ghost.blind
      PROVE  Planned' /\ Survives'
  BY <1>1, PlannedKept, SurvivesKept
<1>2. CASE Start
  BY <1>1, <1>2 DEF Start
<1>3. CASE Reset
  <2>1. /\ cycle'.todo = {} /\ UNCHANGED book /\ \A u \in Contact : row'[u] = None
        /\ ghost'.merged = ghost.merged /\ ghost'.blind = ghost.blind
    BY <1>3 DEF Reset, Limited, GhostType
  <2> QED BY <2>1, PlannedKept, SurvivesKept
<1>4. CASE Refused
  <2>1. cycle'.todo = {}
    BY <1>4, FailedType DEF Refused, Idling
  <2> QED BY <1>1, <1>4, <2>1 DEF Refused, GhostType
<1>5. CASE Look
  <2>1. cycle' = Idling \/ cycle' = [cycle EXCEPT !.pc = "listing"]
    BY <1>5 DEF Look, Finished
  <2>2. cycle'.todo \subseteq cycle.todo
    BY <2>1 DEF Idling
  <2> QED BY <1>1, <1>5, <2>2 DEF Look
<1>6. CASE List
  <2>1. CASE Block
    BY <1>1, <1>6, <2>1 DEF Block, Finished, Idling, List, GhostType
  <2> QED BY <1>6, <2>1, ListSurvives
<1>7. CASE Operate
  <2>0. PICK op \in cycle.todo : \E answer :
             Succeed(op) \/ (answer \in Answers(op) /\ Fail(op, answer))
    BY <1>7, OperateIsAStep
  <2>1. PICK answer :
             Succeed(op) \/ (answer \in Answers(op) /\ Fail(op, answer))
    BY <2>0
  <2>2. cycle.pc = "applying"
    BY <1>7 DEF Operate
  <2>3. CASE Succeed(op)
    BY <2>2, <2>3, PlannedSucceed, SucceedSurvives
  <2>4. CASE Fail(op, answer)
    <3>1. cycle'.todo \subseteq cycle.todo
      <4>1. CASE IsCycleFatal(answer)
        BY <2>4, <4>1, FailedType DEF Fail, Idling
      <4>2. CASE ~ IsCycleFatal(answer)
        <5>1. PICK keys : cycle' = [cycle EXCEPT !.todo = @ \ {op}, !.failed = @ \cup keys]
          BY <2>4, <4>2 DEF Fail
        <5> QED BY <5>1
      <4> QED BY <4>1, <4>2
    <3>2. PICK tried : ghost' = [ghost EXCEPT !.tried = tried]
      BY <2>4 DEF Fail
    <3>3. UNCHANGED <<book, row>>
      BY <2>4 DEF Fail
    <3> QED BY <1>1, <3>1, <3>2, <3>3 DEF GhostType
  <2> QED BY <2>1, <2>3, <2>4
<1>8. CASE Finish
  BY <1>1, <1>8 DEF Finish, Finished, Idling, GhostType
<1>9. CASE Stop
  BY <1>1, <1>9 DEF Stop, Idling
<1>10. CASE Edit
  BY <1>10, EditSurvives
<1>11. CASE DeleteMerged
  BY <1>11, MergedSurvives
<1>12. CASE Break
  <2>1. PICK sides, touched : Touch(sides, touched) /\ UNCHANGED book
                              /\ ghost' = [ghost EXCEPT !.blocked = FALSE]
    BY <1>12 DEF Break
  <2> QED BY <1>1, <2>1 DEF Touch, GhostType
<1>13. CASE Pass
  BY <1>1, <1>13 DEF Pass, GhostType
<1>14. CASE Fault \/ Signal \/ UNCHANGED vars
  BY <1>1, <1>14 DEF Fault, Signal, vars
<1> QED BY <1>2, <1>3, <1>4, <1>5, <1>6, <1>7, <1>8, <1>9, <1>10, <1>11, <1>12, <1>13, <1>14
        DEF Next, Cycle, World

\* Somebody deletes an entry that merges two contacts, which deletes one card
\* of each, on different sides.  Whatever the cycles do then, also one that
\* listed before, as long as nobody touches the two and none plans one of them
\* without the other, a card of the two is left (hold_cross_deletes).
THEOREM ACardIsLeft == Spec => []OneIsLeft
<1>1. Init => Sound /\ Planned /\ Survives
  <2>1. Init => Planned /\ Survives
    BY DEF Init, Idling, Planned, Survives
  <2> QED BY <2>1, SoundInit
<1>2. Sound /\ Planned /\ Survives /\ [Next]_vars => (Sound /\ Planned /\ Survives)'
  BY SoundStep, SurvivesStep
<1>3. Sound /\ Survives => OneIsLeft
  <2> SUFFICES ASSUME Survives, ghost.merged # None, ~ ghost.blind
               PROVE  There("fastmail", ghost.merged[1]) \/ There("icloud", ghost.merged[2])
    BY DEF OneIsLeft, There, Side
  <2>1. Other("fastmail") = "icloud"
    BY DEF Other
  <2> QED BY <2>1 DEF Survives, Untouched, Half, Safe
<1> QED BY <1>1, <1>2, <1>3, PTL DEF Spec

(***************************************************************************)
(* A card that keeps failing.                                              *)
(***************************************************************************)
\* The row of a failure is owed for every failure remembered: for the same
\* version, with as many attempts, and a wait that still makes up the delay.
Owes(k) ==
    LET before == ghost.tried[k] IN
    before # None =>
        /\ failures[k] # None /\ failures[k].etag = before.etag
        /\ failures[k].attempts >= before.times
        /\ failures[k].wait + before.ago >= Promised(before.times)
        /\ k[2] \in Contact

\* A failure that was due when the cycle started had waited its delay then.
Waited(k) ==
    LET before == ghost.tried[k] IN
    cycle.pc \in {"resetting", "looking", "listing"} /\ k \in cycle.ripe /\ before # None =>
        before.ago - since >= Promised(before.times)

\* Operations on synced contacts, and on those without a row.
Paired ==
    \A op \in cycle.todo :
        /\ op.kind \in {"Update", "Delete", "Resurrect"} => row[op.uid] # None
        /\ op.kind = "Create" => row[op.uid] = None

Backoff == Paired /\ \A k \in Key : Owes(k) /\ Waited(k)

\* A promised delay is a number up to the cap.
LEMMA PromisedType ==
    ASSUME NEW times \in 1..MaxAttempts
    PROVE  Promised(times) \in Nat /\ Promised(times) <= BackoffCap
BY FailuresAssumption DEF Promised, Least

\* What a failure row and what is remembered of it are.
LEMMA TriedIs ==
    ASSUME Types, NEW k \in Key, ghost.tried[k] # None
    PROVE  /\ ghost.tried[k].etag \in Values /\ ghost.tried[k].ago \in Nat
           /\ ghost.tried[k].times \in 1..MaxAttempts
           /\ failures[k] # None =>
                  /\ failures[k].etag \in Etags /\ failures[k].attempts \in 1..MaxAttempts
                  /\ failures[k].wait \in 0..BackoffCap
BY DEF Types, GhostType, FailType, Trials, FailureRow

\* A step that neither records a failure nor lets time pass.
LEMMA BackoffKept ==
    ASSUME Backoff, cycle'.todo \subseteq cycle.todo, cycle'.pc \notin {"resetting", "looking", "listing"}
                        \/ (cycle'.ripe = cycle.ripe /\ since' = since
                            /\ cycle.pc \in {"resetting", "looking", "listing"}),
           UNCHANGED row,
           \A k \in Key : \/ ghost'.tried[k] = None
                          \/ ghost'.tried[k] = ghost.tried[k] /\ failures'[k] = failures[k]
    PROVE  Backoff'
<1>1. Paired'
  BY DEF Backoff, Paired
<1>2. ASSUME NEW k \in Key
      PROVE  Owes(k)' /\ Waited(k)'
  <2>1. CASE ghost'.tried[k] = None
    BY <2>1 DEF Owes, Waited
  <2>2. CASE ghost'.tried[k] = ghost.tried[k] /\ failures'[k] = failures[k]
    BY <2>2 DEF Backoff, Owes, Waited
  <2> QED BY <2>1, <2>2
<1> QED BY <1>1, <1>2 DEF Backoff

\* The wait and the time since the failure, when time passes; both are capped.
LEMMA AgedWait ==
    ASSUME NEW wait \in Nat, NEW ago \in Nat, NEW promised \in Nat, promised <= BackoffCap,
           wait + ago >= promised
    PROVE  Left(wait, 1) + Least(ago + 1, BackoffCap + Longest) >= promised
BY Intervals DEF Least, Left, Most

\* Time that passes after a failure ages it by as much, up to the bounds.
LEMMA AgedStart ==
    ASSUME NEW ago \in Nat, NEW past \in Nat, NEW promised \in Nat, promised <= BackoffCap,
           ago - past >= promised, past < Longest
    PROVE  Least(ago + 1, BackoffCap + Longest) - Least(past + 1, Most(Poll, Longest)) >= promised
BY Intervals DEF Least, Most

\* Passing time keeps Backoff.
LEMMA BackoffPass ==
    ASSUME Types, Backoff, Pass
    PROVE  Backoff'
<1> USE FailuresAssumption, DaemonAssumption
<1>1. Paired'
  BY DEF Backoff, Paired, Pass
<1>2. ASSUME NEW k \in Key, ghost'.tried[k] # None
      PROVE  /\ ghost.tried[k] # None
             /\ ghost'.tried[k].etag = ghost.tried[k].etag
             /\ ghost'.tried[k].times = ghost.tried[k].times
             /\ ghost'.tried[k].ago = Least(ghost.tried[k].ago + 1, BackoffCap + Longest)
             /\ failures[k] # None => /\ failures'[k] # None
                                      /\ failures'[k].etag = failures[k].etag
                                      /\ failures'[k].attempts = failures[k].attempts
                                      /\ failures'[k].wait = Left(failures[k].wait, 1)
  <2>1. ghost'.tried[k] = IF ghost.tried[k] = None THEN None
                          ELSE [ghost.tried[k] EXCEPT !.ago = Least(@ + 1, BackoffCap + Longest)]
    BY DEF Pass, Aged, Types, GhostType
  <2>2. ghost.tried[k] # None /\ ghost.tried[k] \in Trials
    BY <1>2, <2>1 DEF Types, GhostType
  <2>3. failures'[k] = IF failures[k] = None THEN None
                       ELSE [failures[k] EXCEPT !.wait = Left(@, 1)]
    BY DEF Pass
  <2>4. failures[k] # None => failures[k] \in FailureRow(Etags)
    BY DEF Types, FailType
  <2>5. ASSUME failures[k] # None
        PROVE  /\ failures'[k] # None
               /\ failures'[k].etag = failures[k].etag
               /\ failures'[k].attempts = failures[k].attempts
               /\ failures'[k].wait = Left(failures[k].wait, 1)
    <3>1. failures[k] \in FailureRow(Etags)
      BY <2>5 DEF Types, FailType
    <3>2. failures'[k] = [failures[k] EXCEPT !.wait = Left(@, 1)]
      BY <2>3, <2>5
    <3>3. Left(failures[k].wait, 1) \in 0..BackoffCap
      BY <3>1 DEF FailureRow, Left, Most
    <3>4. failures'[k] \in FailureRow(Etags)
      BY <3>1, <3>2, <3>3 DEF FailureRow
    <3> QED BY <3>1, <3>2, <3>4 DEF FailureRow, Etags
  <2> QED BY <2>1, <2>2, <2>5 DEF Trials
<1>3. ASSUME NEW k \in Key
      PROVE  Owes(k)' /\ Waited(k)'
  <2> SUFFICES ASSUME ghost'.tried[k] # None
               PROVE  Owes(k)' /\ Waited(k)'
    BY DEF Owes, Waited
  <2> DEFINE before == ghost.tried[k]
             after == ghost'.tried[k]
             promised == Promised(before.times)
  <2>1. /\ before # None /\ after.etag = before.etag /\ after.times = before.times
        /\ after.ago = Least(before.ago + 1, BackoffCap + Longest)
    BY <1>2
  <2>2. /\ failures[k] # None /\ failures[k].etag = before.etag
        /\ failures[k].attempts >= before.times
        /\ failures[k].wait + before.ago >= promised /\ k[2] \in Contact
    BY <2>1 DEF Backoff, Owes
  <2>3. /\ failures'[k] # None /\ failures'[k].etag = failures[k].etag
        /\ failures'[k].attempts = failures[k].attempts
        /\ failures'[k].wait = Left(failures[k].wait, 1)
    BY <1>2, <2>2
  <2>4. before.ago \in Nat /\ before.times \in 1..MaxAttempts /\ failures[k].wait \in 0..BackoffCap
    BY <2>1, <2>2, TriedIs
  <2>5. promised \in Nat /\ promised <= BackoffCap
    BY <2>4, PromisedType
  <2>6. Promised(after.times) = promised
    BY <2>1
  <2> HIDE DEF before, after, promised
  <2>7. failures'[k].wait + after.ago >= promised
    <3>1. failures[k].wait \in Nat
      BY <2>4
    <3> QED BY <2>1, <2>2, <2>3, <2>4, <2>5, <3>1, AgedWait
  <2>8. Owes(k)'
    BY <2>1, <2>2, <2>3, <2>6, <2>7 DEF Owes, after
  <2>9. Waited(k)'
    <3> SUFFICES ASSUME cycle.pc \in {"resetting", "looking", "listing"}, k \in cycle.ripe
                 PROVE  after.ago - since' >= promised
      BY <2>6 DEF Waited, Pass, after
    <3>1. before.ago - since >= promised
      BY <2>1 DEF Backoff, Waited, before, promised
    <3>2. since < Longest /\ since' = Least(since + 1, Most(Poll, Longest)) /\ since \in Nat
      BY DEF Pass, Running, Types, Times
    <3> QED BY <2>1, <2>4, <2>5, <3>1, <3>2, AgedStart
  <2> QED BY <2>8, <2>9
<1> QED BY <1>1, <1>3 DEF Backoff

\* The row of a failed card grows with what is remembered of it.
LEMMA BackoffFail ==
    ASSUME Types, Readable, Planned, Backoff, cycle.pc = "applying",
           NEW op \in cycle.todo, NEW error,
           Fail(op, error), cycle'.todo \subseteq cycle.todo,
           cycle'.pc \notin {"resetting", "looking", "listing"}
    PROVE  Backoff'
<1> USE FailuresAssumption
<1> DEFINE keys == IF ~ IsCycleFatal(error) \/ HoldsOnAbort(op) THEN FailedCards(op) ELSE {}
           owed == IF IsCycleFatal(error) /\ row[op.uid] = None THEN {} ELSE FailedCards(op)
<1>1. op \in AnyOp /\ op.kind \in Kinds /\ op.uid \in Contact
  BY CardsOf DEF Types, CycleType, Cycles, AnyOp, Ops
<1>2. keys = owed
  <2>1. CASE ~ IsCycleFatal(error)
    BY <2>1
  <2>2. CASE row[op.uid] = None
    <3>1. op.kind \notin {"Update", "Delete", "Resurrect"}
      BY <2>2 DEF Backoff, Paired
    <3> QED BY <2>2, <3>1 DEF HoldsOnAbort
  <2>3. CASE row[op.uid] # None
    <3>1. op.kind # "Create"
      BY <2>3 DEF Backoff, Paired
    <3>2. FailedCards(op) # {} => HoldsOnAbort(op)
      BY <1>1, <2>3, <3>1 DEF FailedCards, HoldsOnAbort, Kinds
    <3> QED BY <2>3, <3>2
  <2> QED BY <2>1, <2>2, <2>3
<1>3. /\ failures' = Recorded(keys, cycle.listed)
      /\ ghost'.tried = Tried(keys) /\ UNCHANGED row
  BY <1>2 DEF Fail, Types, GhostType
<1>4. \A k \in keys : k[2] \in Contact
  BY <1>1 DEF FailedCards, Source, Target
<1> HIDE DEF keys, owed
<1>5. Paired'
  BY <1>3 DEF Backoff, Paired
<1>6. ASSUME NEW k \in Key
      PROVE  Owes(k)' /\ Waited(k)'
  <2>1. Waited(k)'
    BY DEF Waited
  <2>2. CASE k \notin keys
    <3>1. ghost'.tried[k] = ghost.tried[k] /\ failures'[k] = failures[k]
      BY <1>3, <2>2 DEF Recorded, Tried
    <3> QED BY <2>1, <3>1 DEF Backoff, Owes
  <2>3. CASE k \in keys
    <3> DEFINE etag == cycle.listed[k[1]][k[2]]
               before == ghost.tried[k]
               known == failures[k]
               again == before # None /\ before.etag = etag
               times == IF again THEN Least(before.times + 1, MaxAttempts) ELSE 1
               more == known # None /\ known.etag = etag
               attempts == IF more THEN Least(known.attempts + 1, MaxAttempts) ELSE 1
    <3>1. ghost'.tried[k] = [etag |-> etag, ago |-> since, times |-> times]
      BY <1>3, <2>3 DEF Tried
    <3>2. failures'[k] = [etag |-> etag, attempts |-> attempts,
                          wait |-> Left(Delay(attempts), since)]
      BY <1>3, <2>3 DEF Recorded, RecordFailure
    <3>3. etag \in Etags /\ since \in Nat
      <4>1. k \in FailedCards(op)
        BY <2>3 DEF keys
      <4>2. etag \in Body
        BY <1>1, <4>1 DEF Readable, FailedCards, Source, Target
      <4> QED BY <4>2 DEF Etags, Types, Times
    <3>4. known \in FailureRow(Etags) \cup {None} /\ before \in Trials \cup {None}
      BY DEF Types, FailType, GhostType
    <3>5. before # None => known # None /\ known.etag = before.etag /\ known.attempts >= before.times
      BY DEF Backoff, Owes
    <3> HIDE DEF etag, before, known
    <3>6. /\ times \in 1..MaxAttempts /\ attempts \in 1..MaxAttempts /\ times <= attempts
      <4>1. CASE again
        <5>1. before \in Trials /\ known \in FailureRow(Etags) /\ more
          BY <3>4, <3>5, <4>1
        <5>2. before.times \in 1..MaxAttempts /\ known.attempts \in 1..MaxAttempts
          BY <5>1 DEF Trials, FailureRow
        <5> QED BY <3>5, <4>1, <5>1, <5>2 DEF Least
      <4>2. CASE ~ again
        <5>1. times = 1
          BY <4>2
        <5>2. more => known \in FailureRow(Etags)
          BY <3>4
        <5>3. more => known.attempts \in 1..MaxAttempts
          BY <5>2 DEF FailureRow
        <5> QED BY <5>1, <5>3 DEF Least
      <4> QED BY <4>1, <4>2
    <3> HIDE DEF times, attempts
    <3>7. /\ Delay(attempts) \in Nat /\ Delay(attempts) <= BackoffCap
          /\ Delay(attempts) >= Promised(times)
      BY <3>6, DelayFacts
    <3>8. Promised(times) \in Nat
      BY <3>6, PromisedType
    <3>9. Left(Delay(attempts), since) + since >= Promised(times)
          /\ Left(Delay(attempts), since) \in 0..BackoffCap
      BY <3>3, <3>7, <3>8 DEF Left, Most
    <3>10. failures'[k] # None
      <4>1. failures'[k] \in FailureRow(Etags)
        BY <3>2, <3>3, <3>6, <3>9 DEF FailureRow
      <4> QED BY <4>1, DaemonAssumption DEF Etags
    <3>11. Owes(k)'
      <4>1. /\ failures'[k].etag = ghost'.tried[k].etag
            /\ failures'[k].attempts >= ghost'.tried[k].times
            /\ failures'[k].wait + ghost'.tried[k].ago >= Promised(ghost'.tried[k].times)
        BY <3>1, <3>2, <3>6, <3>9
      <4> QED BY <1>4, <2>3, <3>10, <4>1 DEF Owes
    <3> QED BY <2>1, <3>11
  <2> QED BY <2>2, <2>3
<1> QED BY <1>5, <1>6 DEF Backoff

\* An operation that succeeds keeps Backoff.
LEMMA BackoffSucceed ==
    ASSUME Types, Readable, Planned, Backoff, cycle.pc = "applying", NEW op \in cycle.todo,
           Succeed(op)
    PROVE  Backoff'
<1>1. cycle'.todo = cycle.todo \ {op} /\ cycle.todo \subseteq AnyOp /\ cycle'.pc = "applying"
  BY SucceedEffect DEF Types, CycleType, Cycles
<1>2. Paired'
  <2>1. ASSUME NEW other \in cycle'.todo
        PROVE  row'[other.uid] = row[other.uid]
    <3>1. other.uid \in Contact \ {op.uid}
      BY <1>1, CardsOf DEF Planned
    <3> QED BY <3>1, SucceedEffect
  <2> QED BY <1>1, <2>1 DEF Backoff, Paired
<1>3. ASSUME NEW k \in Key
      PROVE  Owes(k)' /\ Waited(k)'
  <2>1. ghost'.tried[k] = IF k[2] = op.uid THEN None ELSE ghost.tried[k]
    BY DEF Succeed, Types, GhostType
  <2>2. k[2] # op.uid => failures'[k] = failures[k]
    <3>1. k \in Cleared(op) => k[2] = op.uid
      BY DEF Cleared, Source, Target
    <3> QED BY <3>1 DEF Succeed
  <2>3. Waited(k)'
    BY <1>1 DEF Waited
  <2> QED BY <2>1, <2>2, <2>3 DEF Backoff, Owes
<1> QED BY <1>2, <1>3 DEF Backoff

\* A cycle starts with the failures whose wait is over.
LEMMA BackoffStart ==
    ASSUME Types, Limited, Backoff, Start
    PROVE  Backoff'
<1>1. /\ cycle.todo = {} /\ cycle'.todo = {} /\ since' = 0
      /\ cycle'.ripe = {k \in Key : failures[k] # None /\ failures[k].wait = 0}
      /\ UNCHANGED <<row, failures, ghost>>
  BY DEF Start, Starts, Limited, Types, CycleType, Cycles
<1>2. ASSUME NEW k \in Key
      PROVE  Owes(k)' /\ Waited(k)'
  <2>1. Owes(k)'
    BY <1>1 DEF Backoff, Owes
  <2>2. Waited(k)'
    <3> SUFFICES ASSUME k \in cycle'.ripe, ghost.tried[k] # None
                 PROVE  ghost.tried[k].ago - 0 >= Promised(ghost.tried[k].times)
      BY <1>1 DEF Waited
    <3>1. failures[k].wait = 0 /\ failures[k].wait + ghost.tried[k].ago >= Promised(ghost.tried[k].times)
      BY <1>1 DEF Backoff, Owes
    <3>2. ghost.tried[k].ago \in Nat /\ Promised(ghost.tried[k].times) \in Nat
      BY TriedIs, PromisedType
    <3> QED BY <3>1, <3>2
  <2> QED BY <2>1, <2>2
<1> QED BY <1>1, <1>2 DEF Backoff, Paired

\* A listing keeps Backoff.
LEMMA BackoffList ==
    ASSUME Types, Backoff, List, ~ Block
    PROVE  Backoff'
<1> DEFINE listed == [s \in Side |-> [u \in Contact \cup {Junk} |-> Etag(s, u)]]
<1>1. /\ cycle'.pc = "applying" /\ cycle'.todo = Plan /\ UNCHANGED row
      /\ failures' = Recorded(Unreadable, listed) /\ ghost'.tried = ghost.tried
  BY DEF List, Types, CycleType, Cycles, GhostType
<1> HIDE DEF listed
<1>2. Paired'
  <2>1. \A op \in RowOps : row[op.uid] # None
    BY RowOpIs DEF Rows
  <2>2. \A op \in PairOps : /\ op.kind \in {"Adopt", "Conflict", "Create"}
                            /\ row[op.uid] = None
    BY PairOpIs DEF Rows
  <2>3. \A op \in RowOps : op.kind # "Create"
    BY RowOpIs
  <2> QED BY <1>1, <2>1, <2>2, <2>3 DEF Paired, Plan
<1>3. ASSUME NEW k \in Key
      PROVE  Owes(k)' /\ Waited(k)'
  <2>1. Waited(k)'
    BY <1>1 DEF Waited
  <2>2. k[2] \in Contact => failures'[k] = failures[k]
    BY <1>1, DaemonAssumption DEF Recorded, Unreadable
  <2> QED BY <1>1, <2>1, <2>2 DEF Backoff, Owes
<1> QED BY <1>2, <1>3 DEF Backoff

\* Backoff is inductive, under Sound and Planned.
LEMMA BackoffStep ==
    ASSUME Sound, Planned, Backoff, [Next]_vars
    PROVE  Backoff'
<1> USE DEF Sound, Types, CycleType, Cycles
<1>1. CASE Start
  BY <1>1, BackoffStart
<1>2. CASE Reset
  <2>1. /\ cycle'.todo = {} /\ \A k \in Key : ghost'.tried[k] = None
    BY <1>2 DEF Reset, Limited, GhostType
  <2> QED BY <2>1 DEF Backoff, Paired, Owes, Waited
<1>3. CASE Refused
  <2>1. cycle' = Idling
    BY <1>3, FailedType DEF Refused
  <2>2. UNCHANGED <<row, failures>> /\ ghost'.tried = ghost.tried
    BY <1>3 DEF Refused, GhostType
  <2> QED BY <2>1, <2>2, BackoffKept DEF Idling
<1>4. CASE Look
  <2>1. CASE cycle' = Idling
    BY <1>4, <2>1, BackoffKept DEF Look, Idling
  <2>2. CASE cycle' = [cycle EXCEPT !.pc = "listing"] /\ since' = since
    BY <1>4, <2>2, BackoffKept DEF Look
  <2> QED BY <1>4, <2>1, <2>2 DEF Look, Finished, loop
<1>5. CASE List
  <2>1. CASE Block
    <3>1. cycle' = Idling /\ UNCHANGED <<row, failures>> /\ ghost'.tried = ghost.tried
      BY <1>5, <2>1 DEF List, Block, Finished, GhostType
    <3> QED BY <3>1, BackoffKept DEF Idling
  <2> QED BY <1>5, <2>1, BackoffList
<1>6. CASE Operate
  <2>0. PICK op \in cycle.todo : \E answer :
             Succeed(op) \/ (answer \in Answers(op) /\ Fail(op, answer))
    BY <1>6, OperateIsAStep
  <2>1. PICK answer :
             Succeed(op) \/ (answer \in Answers(op) /\ Fail(op, answer))
    BY <2>0
  <2>2. cycle.pc = "applying"
    BY <1>6 DEF Operate
  <2>3. CASE Succeed(op)
    BY <2>2, <2>3, BackoffSucceed
  <2>4. CASE Fail(op, answer)
    <3>1. cycle'.todo \subseteq cycle.todo /\ cycle'.pc \notin {"resetting", "looking", "listing"}
      <4>1. CASE IsCycleFatal(answer)
        BY <2>4, <4>1, FailedType DEF Fail, Idling
      <4>2. CASE ~ IsCycleFatal(answer)
        <5>1. PICK keys : cycle' = [cycle EXCEPT !.todo = @ \ {op}, !.failed = @ \cup keys]
          BY <2>4, <4>2 DEF Fail
        <5> QED BY <2>2, <5>1
      <4> QED BY <4>1, <4>2
    <3> QED BY <2>2, <2>4, <3>1, BackoffFail
  <2> QED BY <2>1, <2>3, <2>4
<1>7. CASE Finish
  <2>1. cycle' = Idling /\ UNCHANGED row
    BY <1>7 DEF Finish, Finished
  <2>2. ASSUME NEW k \in Key
        PROVE  \/ ghost'.tried[k] = None
               \/ ghost'.tried[k] = ghost.tried[k] /\ failures'[k] = failures[k]
    BY <1>7 DEF Finish, GhostType
  <2> QED BY <2>1, <2>2, BackoffKept DEF Idling
<1>8. CASE Stop
  <2>1. cycle' = [Idling EXCEPT !.pc = "stopped"] /\ UNCHANGED <<row, failures, ghost>>
    BY <1>8 DEF Stop
  <2> QED BY <2>1, BackoffKept DEF Idling
<1>9. CASE Pass
  BY <1>9, BackoffPass
<1>10. CASE Edit \/ DeleteMerged \/ Break
  <2>1. PICK sides, touched : Touch(sides, touched)
    BY <1>10 DEF Edit, DeleteMerged, Break
  <2>2. /\ UNCHANGED <<row, failures>> /\ since' = since
        /\ cycle'.pc = cycle.pc /\ cycle'.todo = cycle.todo /\ cycle'.ripe = cycle.ripe
    BY <2>1 DEF Touch, loop
  <2>3. ghost'.tried = ghost.tried
    BY <1>10 DEF Edit, DeleteMerged, Break, GhostType
  <2> QED BY <2>2, <2>3, BackoffKept
<1>11. CASE Fault \/ Signal \/ UNCHANGED vars
  <2>1. UNCHANGED <<row, failures, cycle, ghost>> /\ since' = since
    BY <1>11 DEF Fault, Signal, vars, loop
  <2> QED BY <2>1, BackoffKept
<1> QED BY <1>1, <1>2, <1>3, <1>4, <1>5, <1>6, <1>7, <1>8, <1>9, <1>10, <1>11
        DEF Next, Cycle, World

\* What is planned waits for nothing: each of its cards failed at another
\* version, or its failure was due when the cycle started.
LEMMA PlannedIsDue ==
    ASSUME Types, Backoff, cycle.pc = "listing", NEW op \in Plan, NEW k \in FailedCards(op),
           ghost.tried[k] # None, ghost.tried[k].etag = Etag(k[1], k[2])
    PROVE  ghost.tried[k].ago - since >= Promised(ghost.tried[k].times)
<1>1. op \in RowOps \cup PairOps
  BY DEF Plan
<1>2. op \in AnyOp /\ ~ HeldBack(op.uid)
  BY <1>1, RowOpIs, PairOpIs DEF RowOps, PairOps, Ops
<1>3. k \in Key /\ k[2] = op.uid /\ k[1] \in Side /\ k = <<k[1], k[2]>> /\ op.uid \in Contact
  <2>1. k \in {Source(op), Target(op)} /\ Source(op) \in Key /\ Target(op) \in Key
    BY <1>2, CardsOf
  <2>2. op.uid \in Contact /\ op.to \in Side /\ Other(op.to) \in Side
    BY <1>2, CardsOf
  <2> QED BY <2>1, <2>2 DEF Source, Target
<1>4. Owes(k) /\ Waited(k)
  BY <1>3 DEF Backoff
<1>5. failures[k] # None /\ failures[k].etag = Etag(k[1], k[2])
  BY <1>4 DEF Owes
<1>6. Has(k[1], k[2])
  <2>1. There(k[1], op.uid)
    <3>1. op.kind \in Kinds /\ op.to \in Side
      BY <1>2 DEF AnyOp, Ops
    <3>2. Agrees(op)
      BY <1>1, PlanAgrees
    <3>3. CASE op \in RowOps
      <4>1. row[op.uid] # None
        BY <3>3, RowOpIs DEF Rows
      <4>2. \A s : Status(s, op.uid) # "deleted" => There(s, op.uid)
        BY DEF Status, There
      <4> QED BY <1>2, <3>1, <3>3, <4>1, <4>2, RowOpIs, CardsOf DEF FailedCards, Source, Target
    <3>4. CASE op \in PairOps
      BY <3>4, PairOpIs DEF FailedCards, Source, Target
    <3> QED BY <1>1, <3>3, <3>4
  <2> QED BY <1>3, <2>1, DaemonAssumption DEF Has, Etag, There
<1>7. k \in Group(k)
  BY <1>5 DEF Group
<1>8. Due(k)
  BY <1>2, <1>3, <1>5, <1>6, <1>7 DEF HeldBack, IsHeld
<1>9. k \in cycle.ripe
  BY <1>5, <1>8 DEF Due, IsDue
<1> QED BY <1>4, <1>9 DEF Waited

\* A card that keeps failing is tried ever less often, whatever ended the
\* cycles it failed in: until its backoff is over no operation is planned for
\* it, unless somebody changed it (BackoffPolicy, held_hrefs).
THEOREM FailuresWait == Spec => Patient
<1>1. Init => Sound /\ Planned /\ Survives /\ Backoff
  <2>1. Init => Planned /\ Survives /\ Backoff
    BY DEF Init, Idling, Planned, Survives, Backoff, Paired, Owes, Waited
  <2> QED BY <2>1, SoundInit
<1>2. Sound /\ Planned /\ Survives /\ Backoff /\ [Next]_vars =>
          (Sound /\ Planned /\ Survives /\ Backoff)'
  BY SoundStep, SurvivesStep, BackoffStep
<1>3. Sound /\ Backoff /\ [Next]_vars =>
          [cycle.pc = "listing" /\ cycle'.pc = "applying" =>
           \A op \in cycle'.todo : \A k \in FailedCards(op) :
               LET before == ghost.tried[k] IN
               \/ before = None
               \/ before.etag # Etag(k[1], k[2])
               \/ before.ago - since >= Promised(before.times)]_vars
  <2> SUFFICES ASSUME Sound, Backoff, [Next]_vars, cycle.pc = "listing", cycle'.pc = "applying",
                      NEW op \in cycle'.todo, NEW k \in FailedCards(op),
                      ghost.tried[k] # None, ghost.tried[k].etag = Etag(k[1], k[2])
               PROVE  ghost.tried[k].ago - since >= Promised(ghost.tried[k].times)
    OBVIOUS
  <2>1. List
    BY OnlyListPlans DEF Sound
  <2>2. ~ Block
    BY DEF Block, Finished, Idling
  <2>3. cycle'.todo = Plan
    BY <2>1, <2>2 DEF List, Sound, Types, CycleType, Cycles
  <2> QED BY <2>3, PlannedIsDue DEF Sound
<1> QED BY <1>1, <1>2, <1>3, PTL DEF Spec, Patient

(***************************************************************************)
(* A cycle with nothing to do.                                             *)
(***************************************************************************)
\* The failure of a card that a cycle met or left alone: its end keeps it.
Stays(k) ==
    /\ failures[k] # None
    /\ k \in cycle.failed \/ (k \in cycle.held /\ cycle.listed[k[1]][k[2]] # None)

\* A contact that is in sync, or waits for a person or for a failure.
Done(u) ==
    \/ Settled(u)
    \/ \E s \in Side : failures[<<s, u>>] # None
    \/ u \in Rows /\ (CrossDeleted(u) \/ InDoubt(u))

\* While no side has changed since it was last listed, there is nothing to do.
NothingLeft == (\A s \in Side : token[s] = "current") => \A u \in Contact : Done(u)

\* A synced contact's card is missing where one that cannot be attributed
\* fails.
Doubted(u) ==
    /\ u \in Rows
    /\ \E s \in Side : ~ There(s, u) /\ \E v \in (Contact \cup {Junk}) \ Rows : Stays(<<s, v>>)

\* What a cycle knows of a contact: it is done with, or it is to be done.
Accounted(u) ==
    \/ Settled(u) \/ CrossDeleted(u)
    \/ \E op \in cycle.todo : op.uid = u
    \/ \E s \in Side : Stays(<<s, u>>)
    \/ Doubted(u)

\* What an operation that writes to no side was planned for.
Fits(op) ==
    /\ op.kind \in StateOnly => op.to = "icloud" /\ SameBodies(op.uid)
    /\ op.kind = "Forget" => op.uid \in Rows /\ ~ There("icloud", op.uid)
    /\ op.kind = "Refresh" => op.uid \in Rows /\ There("icloud", op.uid)
    /\ op.kind = "Adopt" => op.uid \notin Rows

\* Until a side changes, a cycle knows every contact as it is; and it touches
\* no card that it holds.
Listed ==
    /\ \A s \in Side, u \in Contact : cycle.listed[s][u] = book[s][u]
    /\ \A op \in cycle.todo : Fits(op)
    /\ \A u \in Contact : Accounted(u)

Undisturbed ==
    cycle.pc = "applying" =>
        /\ \A s \in Side : token[s] = "current" => s \notin cycle.moved
        /\ \A op \in cycle.todo : \A s \in Side : <<s, op.uid>> \notin cycle.failed \cup cycle.held
        /\ cycle.moved = {} => Listed

Resting == NothingLeft /\ Undisturbed

\* The rank of an operation: those on synced contacts come first.
LEMMA RankIs ==
    ASSUME NEW op \in AnyOp
    PROVE  /\ Rank(op) \in Nat /\ Len(Order) \in Nat
           /\ op.uid \in Rows => Rank(op) <= Len(Order)
           /\ op.uid \notin Rows => Rank(op) > Len(Order)
<1>1. op.uid \in Contact
  BY CardsOf
<1> DEFINE place == CHOOSE i \in DOMAIN Order : Order[i] = op.uid
<1>2. place \in DOMAIN Order
  BY <1>1, DaemonAssumption
<1>3. DOMAIN Order = 1..Len(Order) /\ Len(Order) \in Nat
  BY DaemonAssumption
<1> HIDE DEF place
<1>4. place \in 1..Len(Order)
  BY <1>2, <1>3
<1>5. Rank(op) = IF op.uid \in Rows THEN place ELSE place + Len(Order)
  BY DEF Rank, place
<1> QED BY <1>3, <1>4, <1>5

\* The operation a cycle does next is one it has to do, and none comes before.
LEMMA FirstComesFirst ==
    ASSUME NEW ops, ops \subseteq AnyOp, ops # {}
    PROVE  First(ops) \in ops /\ \A other \in ops : Rank(First(ops)) <= Rank(other)
<1> DEFINE ranks == {Rank(op) : op \in ops}
<1>1. ranks \subseteq Nat /\ ranks # {}
  BY RankIs
<1>2. PICK r \in ranks : \A q \in ranks : r <= q
  BY <1>1, LeastExists
<1>3. PICK op \in ops : Rank(op) = r
  OBVIOUS
<1>4. \A other \in ops : Rank(op) <= Rank(other)
  BY <1>2, <1>3
<1> QED BY <1>4 DEF First

\* It starts with nothing left, or with contacts that iCloud alone has.
LEMMA RestingInit == Init => Resting
<1> SUFFICES ASSUME Init PROVE Resting
  OBVIOUS
<1>1. cycle.pc = "waiting"
  BY DEF Init, Idling
<1>2. ASSUME \A s \in Side : token[s] = "current", NEW u \in Contact
      PROVE  Settled(u)
  <2>1. token["icloud"] = "current"
    BY <1>2 DEF Side
  <2>2. Contact \subseteq Synced
    BY <2>1 DEF Init, Side
  <2>3. "icloud" \in Side /\ "fastmail" \in Side
    BY DEF Side
  <2> QED BY <2>2, <2>3 DEF Init, Settled, SameBodies
<1> QED BY <1>1, <1>2 DEF Resting, NothingLeft, Undisturbed, Done

\* What is done stays done while failures are only added.
LEMMA NothingLeftKept ==
    ASSUME NothingLeft, UNCHANGED <<book, row, token>>,
           \A k \in Key : failures[k] # None => failures'[k] # None
    PROVE  NothingLeft'
<1> SUFFICES ASSUME \A s \in Side : token[s] = "current", NEW u \in Contact
             PROVE  Done(u)'
  BY DEF NothingLeft
<1>1. Done(u)
  BY DEF NothingLeft
<1>2. \A s \in Side, v \in Contact \cup {Junk} : <<s, v>> \in Key
  BY DEF Key
<1>3. Settled(u) => Settled(u)'
  BY DEF Settled, SameBodies
<1>4. CrossDeleted(u) => CrossDeleted(u)'
  BY DEF CrossDeleted, Rows
<1>5. InDoubt(u) => InDoubt(u)'
  BY <1>2 DEF InDoubt, Rows
<1>6. u \in Rows <=> u \in Rows'
  BY DEF Rows
<1> QED BY <1>1, <1>2, <1>3, <1>4, <1>5, <1>6 DEF Done

\* A change on a side leaves something to look at.
LEMMA NothingLeftVoid ==
    ASSUME NEW s \in Side, token'[s] # "current"
    PROVE  NothingLeft'
BY DEF NothingLeft

\* A step that leaves the cycle, or the cycle as it was.
LEMMA UndisturbedKept ==
    ASSUME Undisturbed, UNCHANGED <<book, row, token, broken>>,
           \/ cycle'.pc # "applying"
           \/ UNCHANGED cycle,
           \A k \in Key : failures[k] # None => failures'[k] # None
    PROVE  Undisturbed'
<1> SUFFICES ASSUME cycle'.pc = "applying", UNCHANGED cycle
             PROVE  Undisturbed'
  BY DEF Undisturbed
<1>1. \A s \in Side, v \in Contact \cup {Junk} : <<s, v>> \in Key
  BY DEF Key
<1>2. \A s \in Side, v \in Contact \cup {Junk} : Stays(<<s, v>>) => Stays(<<s, v>>)'
  BY <1>1 DEF Stays
<1>3. \A u \in Contact : Accounted(u) => Accounted(u)'
  <2> TAKE u \in Contact
  <2>1. /\ Settled(u) => Settled(u)'
        /\ CrossDeleted(u) => CrossDeleted(u)'
    BY DEF Settled, SameBodies, CrossDeleted, Rows
  <2>2. Doubted(u) => Doubted(u)'
    BY <1>2 DEF Doubted, Rows, There
  <2> QED BY <1>2, <2>1, <2>2 DEF Accounted
<1>4. \A op : Fits(op) => Fits(op)'
  BY DEF Fits, SameBodies, Rows, There
<1>5. Listed => Listed'
  BY <1>3, <1>4 DEF Listed
<1> QED BY <1>5 DEF Undisturbed

\* A failed operation leaves its cards to the next cycles: a write answers for
\* its contact by the failures it records.
LEMMA FailureIsRecorded ==
    ASSUME Types, Readable, cycle.pc = "applying", NEW op \in cycle.todo, NEW keys,
           keys \subseteq FailedCards(op), failures' = Recorded(keys, cycle.listed)
    PROVE  /\ \A k \in Key : failures[k] # None => failures'[k] # None
           /\ \A k \in keys : k \in Key /\ failures'[k] # None
<1>1. op \in AnyOp /\ cycle.listed \in Listing
  BY DEF Types, CycleType, Cycles
<1>2. keys \subseteq Key
  BY <1>1, CardsOf
<1>3. \A k \in keys : cycle.listed[k[1]][k[2]] \in Etags
  BY <1>1 DEF Readable, FailedCards, Source, Target, Etags
<1>4. ASSUME NEW k \in keys
      PROVE  failures'[k] # None
  <2>1. failures'[k] = RecordFailure(failures[k], cycle.listed[k[1]][k[2]], since)
    BY <1>2 DEF Recorded
  <2>2. failures'[k] \in FailureRow(Etags)
    BY <1>2, <1>3, <2>1, RecordType DEF Types, FailType, Times
  <2> QED BY <2>2, DaemonAssumption DEF Etags
<1>5. \A k \in Key \ keys : failures'[k] = failures[k]
  BY DEF Recorded
<1> QED BY <1>2, <1>4, <1>5

\* A failed operation keeps Resting.
LEMMA RestingFail ==
    ASSUME Types, Readable, Planned, Resting, cycle.pc = "applying",
           NEW op \in cycle.todo, NEW answer \in Answers(op), answer # "ok",
           Fail(op, answer), UNCHANGED broken
    PROVE  Resting'
<1> DEFINE keys == IF ~ IsCycleFatal(answer) \/ HoldsOnAbort(op) THEN FailedCards(op) ELSE {}
<1>1. keys \subseteq FailedCards(op)
  OBVIOUS
<1>2. /\ failures' = Recorded(keys, cycle.listed)
      /\ UNCHANGED <<book, row, token>>
      /\ IF IsCycleFatal(answer) THEN Failed(answer)
         ELSE cycle' = [cycle EXCEPT !.todo = @ \ {op}, !.failed = @ \cup keys]
  BY DEF Fail
<1>3. ~ IsCycleFatal(answer) => keys = FailedCards(op)
  OBVIOUS
<1> HIDE DEF keys
<1>4. /\ \A k \in Key : failures[k] # None => failures'[k] # None
      /\ \A k \in keys : k \in Key /\ failures'[k] # None
  BY <1>1, <1>2, FailureIsRecorded
<1>5. NothingLeft'
  BY <1>2, <1>4, NothingLeftKept DEF Resting
<1>6. CASE IsCycleFatal(answer)
  <2>1. cycle' = Idling
    BY <1>2, <1>6, FailedType
  <2>2. cycle'.pc # "applying"
    BY <2>1 DEF Idling
  <2> QED BY <1>5, <2>2 DEF Resting, Undisturbed
<1>7. CASE ~ IsCycleFatal(answer)
  <2>1. /\ cycle'.todo = cycle.todo \ {op} /\ cycle'.failed = cycle.failed \cup keys
        /\ cycle'.held = cycle.held /\ cycle'.listed = cycle.listed
        /\ cycle'.moved = cycle.moved /\ cycle'.pc = "applying"
    BY <1>2, <1>7 DEF Types, CycleType, Cycles
  <2>2. op \in AnyOp /\ op.kind \in Kinds /\ op.uid \in Contact /\ cycle.todo \subseteq AnyOp
    BY CardsOf DEF Types, CycleType, Cycles, AnyOp, Ops
  <2>3. \A k \in keys : k[2] = op.uid
    BY <1>1 DEF FailedCards, Source, Target
  <2>4. \E k \in keys : k \in {Source(op), Target(op)}
    <3>1. op.kind \notin StateOnly
      BY DEF Answers
    <3> QED BY <1>3, <1>7, <2>2, <3>1 DEF FailedCards, Kinds, StateOnly
  <2>5. \E s \in Side : <<s, op.uid>> \in keys
    BY <2>2, <2>4, CardsOf DEF Source, Target
  <2>6. \A k \in Key : Stays(k) => Stays(k)'
    BY <1>4, <2>1 DEF Stays
  <2>7. \A s \in Side : <<s, op.uid>> \in keys => Stays(<<s, op.uid>>)'
    BY <1>4, <2>1 DEF Stays
  <2>8. \A s \in Side, v \in Contact \cup {Junk} : <<s, v>> \in Key
    BY DEF Key
  <2>9. ASSUME NEW u \in Contact, Accounted(u)
        PROVE  Accounted(u)'
    <3>1. /\ Settled(u) => Settled(u)'
          /\ CrossDeleted(u) => CrossDeleted(u)'
      BY <1>2 DEF Settled, SameBodies, CrossDeleted, Rows
    <3>2. Doubted(u) => Doubted(u)'
      BY <1>2, <2>6, <2>8 DEF Doubted, Rows, There
    <3>3. CASE u = op.uid
      BY <2>5, <2>7, <3>3 DEF Accounted
    <3>4. CASE u # op.uid
      BY <2>1, <2>6, <2>8, <2>9, <3>1, <3>2, <3>4 DEF Accounted
    <3> QED BY <3>3, <3>4
  <2>10. \A o : Fits(o) => Fits(o)'
    BY <1>2 DEF Fits, SameBodies, Rows, There
  <2>11. Listed => Listed'
    BY <1>2, <2>1, <2>9, <2>10 DEF Listed
  <2>12. ASSUME NEW other \in cycle'.todo, NEW s \in Side
         PROVE  <<s, other.uid>> \notin cycle'.failed \cup cycle'.held
    <3>1. other.uid # op.uid
      BY <2>1 DEF Planned
    <3>2. <<s, other.uid>> \notin keys
      BY <2>3, <3>1
    <3>3. <<s, other.uid>> \notin cycle.failed \cup cycle.held
      BY <2>1 DEF Resting, Undisturbed
    <3> QED BY <2>1, <3>2, <3>3
  <2>13. Undisturbed'
    BY <1>2, <2>1, <2>11, <2>12 DEF Resting, Undisturbed
  <2> QED BY <1>5, <2>13 DEF Resting
<1> QED BY <1>6, <1>7

\* An operation that writes to no side keeps Listed: it settles its contact,
\* and changes no other, nor what is known of any.
LEMMA ListedSucceed ==
    ASSUME Types, Readable, Planned, Undisturbed, Listed, cycle.pc = "applying",
           NEW op \in cycle.todo, op.kind \in StateOnly, Succeed(op)
    PROVE  Listed' /\ Settled(op.uid)'
<1>1. /\ op \in AnyOp /\ op.to \in Side /\ op.uid \in Contact
      /\ cycle'.todo = cycle.todo \ {op} /\ UNCHANGED book
      /\ \A u \in Contact \ {op.uid} : row'[u] = row[u]
      /\ row'[op.uid] = Result(op)
  BY SucceedEffect
<1>2. /\ cycle'.listed = cycle.listed /\ cycle'.failed = cycle.failed /\ cycle'.held = cycle.held
  BY DEF Succeed, Types, CycleType, Cycles
<1>3. Fits(op) /\ cycle.todo \subseteq AnyOp
  BY DEF Listed, Types, CycleType, Cycles
<1>4. op.to = "icloud" /\ SameBodies(op.uid) /\ Other(op.to) = "fastmail"
  BY <1>3 DEF Fits, Other
<1>5. Result(op) = book["icloud"][op.uid]
  <2>1. CASE op.kind = "Forget"
    BY <1>3, <2>1 DEF Result, Fits, There
  <2>2. CASE op.kind \in {"Refresh", "Adopt"}
    <3>1. Result(op) = cycle.listed["fastmail"][op.uid]
      BY <1>4, <2>2 DEF Result
    <3>2. cycle.listed["fastmail"][op.uid] = book["fastmail"][op.uid]
      BY <1>1 DEF Listed, Side
    <3> QED BY <1>4, <3>1, <3>2 DEF SameBodies
  <2> QED BY <2>1, <2>2 DEF StateOnly
<1>6. Settled(op.uid)'
  BY <1>1, <1>4, <1>5 DEF Settled, SameBodies
<1>7. \A k \in Key : k[2] # op.uid => failures'[k] = failures[k]
  BY DEF Succeed, Cleared, Source, Target
<1>8. ASSUME NEW k \in Key, Stays(k), k[1] \in Side, k = <<k[1], k[2]>>
      PROVE  Stays(k)' /\ k[2] # op.uid
  <2>1. k[2] # op.uid
    BY <1>8 DEF Undisturbed, Stays
  <2> QED BY <1>2, <1>7, <1>8, <2>1 DEF Stays
<1>9. \A s \in Side, v \in Contact \cup {Junk} :
          /\ <<s, v>> \in Key /\ <<s, v>>[1] = s /\ <<s, v>>[2] = v
          /\ Stays(<<s, v>>) => Stays(<<s, v>>)' /\ v # op.uid
  <2> TAKE s \in Side, v \in Contact \cup {Junk}
  <2>1. <<s, v>> \in Key /\ <<s, v>>[1] = s /\ <<s, v>>[2] = v
    BY DEF Key
  <2> QED BY <1>8, <2>1
<1>10. \A u \in Contact \ {op.uid} : u \in Rows <=> u \in Rows'
  BY <1>1 DEF Rows
<1>11. ASSUME NEW u \in Contact, u # op.uid, Accounted(u)
       PROVE  Accounted(u)'
  <2>1. CASE Settled(u)
    BY <1>1, <1>11, <2>1 DEF Settled, SameBodies, Accounted
  <2>2. CASE CrossDeleted(u)
    <3>1. PICK v \in Contact, s \in Side :
              /\ <<u, v>> \in Alike /\ {u, v} \subseteq Rows
              /\ book[s][u] = None /\ book[Other(s)][u] = row[u]
              /\ book[Other(s)][v] = None /\ book[s][v] = row[v]
      BY <2>2 DEF CrossDeleted
    <3>2. Other(s) \in Side /\ row[v] # None
      BY <3>1, Sides DEF Rows
    <3>3. v # op.uid
      <4>1. ~ SameBodies(v)
        BY <3>1, <3>2, Sides DEF SameBodies, Side, Other
      <4> QED BY <1>4, <4>1
    <3>4. row'[v] = row[v] /\ row'[u] = row[u] /\ {u, v} \subseteq Rows'
      BY <1>1, <1>10, <1>11, <3>1, <3>3
    <3>5. CrossDeleted(u)'
      BY <1>1, <3>1, <3>4 DEF CrossDeleted
    <3> QED BY <3>5 DEF Accounted
  <2>3. CASE \E other \in cycle.todo : other.uid = u
    BY <1>1, <1>11, <2>3 DEF Accounted
  <2>4. CASE \E s \in Side : Stays(<<s, u>>)
    BY <1>9, <2>4 DEF Accounted
  <2>5. CASE Doubted(u)
    <3>1. PICK s \in Side : ~ There(s, u) /\ \E v \in (Contact \cup {Junk}) \ Rows : Stays(<<s, v>>)
      BY <2>5 DEF Doubted
    <3>2. PICK v \in (Contact \cup {Junk}) \ Rows : Stays(<<s, v>>)
      BY <3>1
    <3>3. Stays(<<s, v>>)' /\ v # op.uid
      BY <1>9, <3>2
    <3>4. v \notin Rows' /\ u \in Rows'
      BY <1>10, <1>11, <2>5, <3>2, <3>3 DEF Doubted, Rows
    <3>5. ~ There(s, u)'
      BY <1>1, <3>1 DEF There
    <3>6. Doubted(u)'
      BY <3>3, <3>4, <3>5 DEF Doubted
    <3> QED BY <3>6 DEF Accounted
  <2> QED BY <1>11, <2>1, <2>2, <2>3, <2>4, <2>5 DEF Accounted
<1>12. \A u \in Contact : Accounted(u)'
  BY <1>6, <1>11 DEF Accounted, Listed
<1>13. \A other \in cycle'.todo : Fits(other)'
  <2> TAKE other \in cycle'.todo
  <2>1. other \in cycle.todo /\ other.uid # op.uid /\ other.uid \in Contact
    BY <1>1, <1>3, CardsOf DEF Planned
  <2>2. other.uid \in Rows <=> other.uid \in Rows'
    BY <1>10, <2>1
  <2> QED BY <1>1, <2>1, <2>2 DEF Listed, Fits, SameBodies, There
<1>14. \A s \in Side, u \in Contact : cycle'.listed[s][u] = book'[s][u]
  BY <1>1, <1>2 DEF Listed
<1> QED BY <1>6, <1>12, <1>13, <1>14 DEF Listed

\* When a contact is adopted, every synced one has been dealt with: their
\* operations come first.
LEMMA RowsComeFirst ==
    ASSUME Types, cycle.todo # {}, NEW op, op = First(cycle.todo), op.uid \notin Rows,
           NEW other \in cycle.todo
    PROVE  other.uid \notin Rows
<1>1. cycle.todo \subseteq AnyOp
  BY DEF Types, CycleType, Cycles
<1>2. op \in AnyOp /\ Rank(op) <= Rank(other)
  BY <1>1, FirstComesFirst
<1> DEFINE a == Rank(op)
           b == Rank(other)
           n == Len(Order)
<1>3. a \in Nat /\ b \in Nat /\ n \in Nat /\ a > n /\ (other.uid \in Rows => b <= n)
  BY <1>1, <1>2, RankIs
<1>4. a <= b
  BY <1>2
<1> HIDE DEF a, b, n
<1> QED BY <1>3, <1>4

\* An operation that writes to no side leaves nothing undone that was done.
LEMMA NothingLeftSucceed ==
    ASSUME Types, Readable, Planned, Undisturbed, Listed, NothingLeft, cycle.pc = "applying",
           NEW op \in cycle.todo, op = First(cycle.todo), op.kind \in StateOnly, Succeed(op)
    PROVE  NothingLeft'
<1>1. /\ op \in AnyOp /\ op.uid \in Contact
      /\ cycle'.todo = cycle.todo \ {op} /\ UNCHANGED book
      /\ \A u \in Contact \ {op.uid} : row'[u] = row[u]
  BY SucceedEffect
<1>2. Listed' /\ Settled(op.uid)' /\ UNCHANGED token
  BY ListedSucceed DEF Succeed
<1> SUFFICES ASSUME \A s \in Side : token[s] = "current", NEW u \in Contact
             PROVE  Done(u)'
  BY <1>2 DEF NothingLeft
<1>3. Done(u)
  BY DEF NothingLeft
<1>4. CASE u = op.uid
  BY <1>2, <1>4 DEF Done
<1>5. CASE u # op.uid
  <2>1. \A s \in Side, v \in Contact \cup {Junk} : <<s, v>> \in Key /\ <<s, v>>[2] = v
    BY DEF Key
  <2>2. \A s \in Side : failures'[<<s, u>>] = failures[<<s, u>>]
    BY <1>5, <2>1 DEF Succeed, Cleared, Source, Target
  <2>3. u \in Rows <=> u \in Rows'
    BY <1>1, <1>5 DEF Rows
  <2>4. CASE Settled(u)
    BY <1>1, <1>5, <2>4 DEF Settled, SameBodies, Done
  <2>5. CASE \E s \in Side : failures[<<s, u>>] # None
    BY <2>2, <2>5 DEF Done
  <2>6. CASE u \in Rows /\ ~ Settled(u) /\ \A s \in Side : failures[<<s, u>>] = None
    <3>1. CASE op.uid \notin Rows
      <4>1. \A other \in cycle'.todo : other.uid # u
        BY <1>1, <2>6, <3>1, RowsComeFirst
      <4>2. Accounted(u)'
        BY <1>2 DEF Listed
      <4>3. u \in Rows'
        BY <2>3, <2>6
      <4>4. Accounted(u)' /\ (\A other \in cycle'.todo : other.uid # u) /\ u \in Rows' => Done(u)'
        <5>1. Doubted(u)' => InDoubt(u)'
          BY DEF Doubted, InDoubt, There, Stays
        <5> QED BY <5>1 DEF Accounted, Done, Stays
      <4> QED BY <4>1, <4>2, <4>3, <4>4
    <3>2. CASE op.uid \in Rows
      <4>1. \A k \in Key : failures'[k] = failures[k]
        <5>1. op.kind \in {"Forget", "Refresh"}
          BY <3>2 DEF Listed, Fits, StateOnly
        <5> QED BY <5>1 DEF Succeed, Cleared
      <4>2. InDoubt(u) => InDoubt(u)'
        <5>1. ASSUME NEW v \in Contact \cup {Junk}, v \notin Rows
              PROVE  v \notin Rows'
          BY <1>1, <3>2, <5>1 DEF Rows
        <5> QED BY <1>1, <2>1, <4>1, <5>1 DEF InDoubt
      <4>3. CrossDeleted(u) => CrossDeleted(u)'
        <5> SUFFICES ASSUME CrossDeleted(u)
                     PROVE  CrossDeleted(u)'
          OBVIOUS
        <5>1. PICK v \in Contact, s \in Side :
                  /\ <<u, v>> \in Alike /\ {u, v} \subseteq Rows
                  /\ book[s][u] = None /\ book[Other(s)][u] = row[u]
                  /\ book[Other(s)][v] = None /\ book[s][v] = row[v]
          BY DEF CrossDeleted
        <5>2. ~ SameBodies(v)
          BY <5>1, Sides DEF SameBodies, Side, Other, Rows
        <5>3. v # op.uid
          BY <5>2 DEF Listed, Fits
        <5>4. row'[v] = row[v] /\ row'[u] = row[u] /\ {u, v} \subseteq Rows'
          BY <1>1, <1>5, <5>1, <5>3 DEF Rows
        <5> QED BY <1>1, <5>1, <5>4 DEF CrossDeleted
      <4>4. CrossDeleted(u) \/ InDoubt(u)
        BY <1>3, <2>6 DEF Done
      <4> QED BY <2>3, <2>6, <4>2, <4>3, <4>4 DEF Done
    <3> QED BY <3>1, <3>2
  <2> QED BY <1>3, <2>4, <2>5, <2>6 DEF Done
<1> QED BY <1>4, <1>5

\* A finished operation keeps Resting.
LEMMA RestingSucceed ==
    ASSUME Types, Readable, Planned, Resting, cycle.pc = "applying",
           NEW op \in cycle.todo, op = First(cycle.todo), Succeed(op), UNCHANGED broken
    PROVE  Resting'
<1>1. /\ op \in AnyOp /\ op.to \in Side /\ op.uid \in Contact
      /\ cycle'.todo = cycle.todo \ {op} /\ cycle'.pc = "applying"
  BY SucceedEffect
<1>2. /\ cycle'.failed = cycle.failed /\ cycle'.held = cycle.held
      /\ cycle'.moved = cycle.moved \cup (IF op.kind \in StateOnly THEN {} ELSE {op.to})
  BY DEF Succeed, Types, CycleType, Cycles
<1>3. \A other \in cycle'.todo : \A s \in Side :
          <<s, other.uid>> \notin cycle'.failed \cup cycle'.held
  BY <1>1, <1>2 DEF Resting, Undisturbed
<1>4. CASE op.kind \in StateOnly
  <2>1. UNCHANGED token /\ cycle'.moved = cycle.moved
    BY <1>2, <1>4 DEF Succeed
  <2>2. cycle.moved = {} => Listed'
    BY <1>4, ListedSucceed DEF Resting, Undisturbed
  <2>3. NothingLeft'
    <3>1. CASE cycle.moved = {}
      BY <1>4, <3>1, NothingLeftSucceed DEF Resting, Undisturbed
    <3>2. CASE cycle.moved # {}
      <4>1. PICK s \in cycle.moved : TRUE
        BY <3>2
      <4>2. s \in Side /\ token'[s] # "current"
        BY <2>1 DEF Resting, Undisturbed, Types, CycleType, Cycles
      <4> QED BY <4>2, NothingLeftVoid
    <3> QED BY <3>1, <3>2
  <2> QED BY <1>1, <1>3, <2>1, <2>2, <2>3 DEF Resting, Undisturbed
<1>5. CASE op.kind \notin StateOnly
  <2>1. token' = [token EXCEPT ![op.to] = IF @ = "current" THEN "behind" ELSE @]
    BY <1>5 DEF Succeed, Moved
  <2>2. token'[op.to] # "current" /\ \A s \in Side : s # op.to => token'[s] = token[s]
    BY <1>1, <2>1 DEF Types, RestType
  <2>3. cycle'.moved = cycle.moved \cup {op.to}
    BY <1>2, <1>5
  <2>4. NothingLeft'
    BY <1>1, <2>2, NothingLeftVoid
  <2>5. \A s \in Side : token'[s] = "current" => s \notin cycle'.moved
    BY <2>2, <2>3 DEF Resting, Undisturbed
  <2>6. cycle'.moved # {}
    BY <2>3
  <2> QED BY <1>3, <2>4, <2>5, <2>6 DEF Resting, Undisturbed
<1> QED BY <1>4, <1>5

\* A synced contact that is planned for, and how its sides stand.
LEMMA RowIsPlanned ==
    ASSUME BookType, NEW u \in Rows, ~ HeldBack(u), ~ Deferred(u)
    PROVE  Settled(u) \/ \E op \in RowOps : op.uid = u
<1>1. u \in Contact /\ row[u] # None
  BY DEF Rows
<1>2. \A s : Status(s, u) \in {"deleted", "same", "changed"}
  BY DEF Status
<1> DEFINE op(kind, to) == [kind |-> kind, uid |-> u, to |-> to]
<1>3. \A kind \in {"Forget", "Refresh", "Conflict", "Update", "Resurrect", "Delete"}, to \in Side :
          /\ op(kind, to) \in Ops({"Forget", "Refresh", "Conflict", "Update", "Resurrect", "Delete"},
                                  {v \in Rows : ~ HeldBack(v) /\ ~ Deferred(v)})
          /\ op(kind, to).kind = kind /\ op(kind, to).uid = u /\ op(kind, to).to = to
  BY DEF Ops
<1> DEFINE i == Status("icloud", u)
           f == Status("fastmail", u)
<1>4. "icloud" \in Side /\ "fastmail" \in Side
      /\ Other("icloud") = "fastmail" /\ Other("fastmail") = "icloud"
  BY DEF Side, Other
<1>5. i \in {"deleted", "same", "changed"} /\ f \in {"deleted", "same", "changed"}
  BY <1>2
<1>6. CASE i = "same" /\ f = "same"
  <2>1. book["icloud"][u] = row[u] /\ book["fastmail"][u] = row[u]
    BY <1>6 DEF Status
  <2> QED BY <2>1 DEF Settled, SameBodies
<1>7. CASE i = "deleted" /\ f = "deleted"
  <2>1. Status("icloud", u) = "deleted" /\ Status(Other("icloud"), u) = "deleted"
    BY <1>4, <1>7
  <2>2. op("Forget", "icloud") \in RowOps
    BY <1>3, <1>4, <2>1 DEF RowOps, StateOnly
  <2> QED BY <1>3, <1>4, <2>2
<1>8. CASE i = "changed" /\ f = "changed"
  <2>1. CASE SameBodies(u)
    <3>1. Status("icloud", u) = "changed" /\ Status(Other("icloud"), u) = "changed"
      BY <1>4, <1>8
    <3>2. op("Refresh", "icloud") \in RowOps
      BY <1>3, <1>4, <2>1, <3>1 DEF RowOps, StateOnly
    <3> QED BY <1>3, <1>4, <3>2
  <2>2. CASE ~ SameBodies(u)
    <3>1. Other(Winner) \in Side /\ Other(Other(Winner)) \in Side
      BY DaemonAssumption DEF Other, Side
    <3>2. \A s \in Side : Status(s, u) = "changed"
      BY <1>8 DEF Side
    <3>3. op("Conflict", Other(Winner)) \in RowOps
      BY <1>3, <2>2, <3>1, <3>2 DEF RowOps, StateOnly
    <3> QED BY <1>3, <3>1, <3>3
  <2> QED BY <2>1, <2>2
<1>9. ASSUME NEW s \in Side, NEW kind \in {"Update", "Resurrect", "Delete"},
             \/ kind = "Update" /\ Status(s, u) = "same" /\ Status(Other(s), u) = "changed"
             \/ kind = "Resurrect" /\ Status(s, u) = "deleted" /\ Status(Other(s), u) = "changed"
             \/ kind = "Delete" /\ Status(s, u) = "same" /\ Status(Other(s), u) = "deleted"
      PROVE  \E o \in RowOps : o.uid = u
  <2>1. op(kind, s) \in RowOps
    <3>1. CASE kind = "Update"
      BY <1>3, <1>9, <3>1 DEF RowOps, StateOnly
    <3>2. CASE kind = "Resurrect"
      BY <1>3, <1>9, <3>2 DEF RowOps, StateOnly
    <3>3. CASE kind = "Delete"
      BY <1>3, <1>9, <3>3 DEF RowOps, StateOnly
    <3> QED BY <3>1, <3>2, <3>3
  <2> QED BY <1>3, <2>1
<1>10. \E s \in Side :
           \/ Status(s, u) = "same" /\ Status(Other(s), u) = "changed"
           \/ Status(s, u) = "deleted" /\ Status(Other(s), u) = "changed"
           \/ Status(s, u) = "same" /\ Status(Other(s), u) = "deleted"
       \/ (i = "same" /\ f = "same") \/ (i = "deleted" /\ f = "deleted")
       \/ (i = "changed" /\ f = "changed")
  BY <1>4, <1>5
<1> QED BY <1>6, <1>7, <1>8, <1>9, <1>10

\* A contact without a row that is planned for.
LEMMA PairIsPlanned ==
    ASSUME BookType, NEW u \in Contact \ Rows, ~ HeldBack(u)
    PROVE  Settled(u) \/ \E op \in PairOps : op.uid = u
<1>1. row[u] = None /\ u # Junk
  BY DaemonAssumption DEF Rows
<1>2. \A s : Has(s, u) <=> There(s, u)
  BY <1>1 DEF Has, Etag, There
<1> DEFINE op(kind, to) == [kind |-> kind, uid |-> u, to |-> to]
<1>3. \A kind \in {"Adopt", "Conflict", "Create"}, to \in Side :
          /\ op(kind, to) \in Ops({"Adopt", "Conflict", "Create"}, {v \in Contact \ Rows : ~ HeldBack(v)})
          /\ op(kind, to).kind = kind /\ op(kind, to).uid = u /\ op(kind, to).to = to
  BY DEF Ops
<1>4. "icloud" \in Side /\ "fastmail" \in Side
      /\ Other("icloud") = "fastmail" /\ Other("fastmail") = "icloud"
  BY DEF Side, Other
<1>5. CASE \A s \in Side : ~ There(s, u)
  BY <1>1, <1>4, <1>5 DEF Settled, SameBodies, There
<1>6. CASE \A s \in Side : There(s, u)
  <2>1. CASE SameBodies(u)
    <3>1. op("Adopt", "icloud") \in PairOps
      BY <1>2, <1>3, <1>4, <1>6, <2>1 DEF PairOps
    <3> QED BY <1>3, <1>4, <3>1
  <2>2. CASE ~ SameBodies(u)
    <3>1. Other(Winner) \in Side /\ Other(Other(Winner)) \in Side
      BY DaemonAssumption DEF Other, Side
    <3>2. op("Conflict", Other(Winner)) \in PairOps
      BY <1>2, <1>3, <1>6, <2>2, <3>1 DEF PairOps
    <3> QED BY <1>3, <3>1, <3>2
  <2> QED BY <2>1, <2>2
<1>7. CASE \E s \in Side : ~ There(s, u) /\ There(Other(s), u)
  <2>1. PICK s \in Side : ~ There(s, u) /\ There(Other(s), u)
    BY <1>7
  <2>2. op("Create", s) \in PairOps
    BY <1>2, <1>3, <2>1 DEF PairOps
  <2> QED BY <1>3, <2>2
<1> QED BY <1>4, <1>5, <1>6, <1>7 DEF Side

\* Whoever a cross delete is not carried out for waits for a person.
LEMMA CrossIsDeleted ==
    ASSUME BookType, NEW op \in CrossDeletes(RowOps \cup PairOps)
    PROVE  CrossDeleted(op.uid)
<1>1. PICK other \in RowOps \cup PairOps :
          /\ other.kind = "Delete" /\ other.to = Other(op.to)
          /\ <<op.uid, other.uid>> \in Alike
  BY DEF CrossDeletes
<1>2. op \in RowOps \cup PairOps /\ op.kind = "Delete"
  BY DEF CrossDeletes
<1>3. op \in RowOps /\ other \in RowOps
  BY <1>1, <1>2, PairOpIs
<1>4. op.to \in Side /\ {op.uid, other.uid} \subseteq Rows
      /\ op.uid \in Contact /\ other.uid \in Contact
  BY <1>3, RowOpIs, CardsOf DEF Rows
<1>5. Other(op.to) \in Side /\ Other(Other(op.to)) = op.to
  BY <1>4, Sides
<1>6. \A s, u : /\ Status(s, u) = "deleted" => book[s][u] = None
                /\ Status(s, u) = "same" => book[s][u] = row[u]
  BY DEF Status
<1>7. /\ Status(op.to, op.uid) = "same" /\ Status(Other(op.to), op.uid) = "deleted"
      /\ Status(other.to, other.uid) = "same" /\ Status(Other(other.to), other.uid) = "deleted"
  BY <1>1, <1>2, <1>3, RowOpIs
<1>8. /\ book[op.to][op.uid] = row[op.uid] /\ book[Other(op.to)][op.uid] = None
      /\ book[Other(op.to)][other.uid] = row[other.uid] /\ book[op.to][other.uid] = None
  BY <1>1, <1>5, <1>6, <1>7
<1> QED BY <1>1, <1>4, <1>5, <1>8 DEF CrossDeleted

\* A listing accounts for every contact: those held back, those deferred, and
\* the plan for the others.
LEMMA RestingList ==
    ASSUME Types, Resting, List, ~ Block
    PROVE  Resting'
<1> DEFINE listed == [s \in Side |-> [u \in Contact \cup {Junk} |-> Etag(s, u)]]
<1>1. /\ cycle'.pc = "applying" /\ cycle'.todo = Plan /\ cycle'.listed = listed
      /\ cycle'.failed = Unreadable /\ cycle'.held = Held /\ cycle'.moved = {}
      /\ UNCHANGED <<book, row, token, broken>>
      /\ failures' = Recorded(Unreadable, listed)
  BY DEF List, Types, CycleType, Cycles
<1>2. \A s \in Side, u \in Contact \cup {Junk} : listed[s][u] = Etag(s, u) /\ <<s, u>> \in Key
  BY DEF Key
<1>3. Unreadable \subseteq Key /\ \A k \in Unreadable : listed[k[1]][k[2]] \in Etags
  BY DEF Unreadable, Key, Etag, Etags
<1>4. \A s \in Side, u \in Contact : Etag(s, u) = book[s][u]
  BY DaemonAssumption DEF Etag
<1> HIDE DEF listed
<1>5. \A k \in Key : /\ k \notin Unreadable => failures'[k] = failures[k]
                     /\ k \in Unreadable => failures'[k] # None
  <2> TAKE k \in Key
  <2>1. k \notin Unreadable => failures'[k] = failures[k]
    BY <1>1 DEF Recorded
  <2>2. ASSUME k \in Unreadable
        PROVE  failures'[k] # None
    <3>1. failures'[k] = RecordFailure(failures[k], listed[k[1]][k[2]], since)
      BY <1>1, <2>2 DEF Recorded
    <3>2. failures'[k] \in FailureRow(Etags)
      BY <1>3, <2>2, <3>1, RecordType DEF Types, FailType, Times
    <3> QED BY <3>2, DaemonAssumption DEF Etags
  <2> QED BY <2>1, <2>2
<1>6. NothingLeft'
  BY <1>1, <1>5, NothingLeftKept DEF Resting
<1>7. ASSUME NEW s \in Side, NEW u \in Contact \cup {Junk}, IsHeld(s, u)
      PROVE  Stays(<<s, u>>)'
  <2>1. <<s, u>> \in Held /\ failures[<<s, u>>] # None /\ listed[s][u] # None
    BY <1>2, <1>7 DEF Held, IsHeld, Has
  <2>2. failures'[<<s, u>>] # None
    BY <1>2, <1>5, <2>1
  <2> QED BY <1>1, <2>1, <2>2 DEF Stays
<1>8. ASSUME NEW s \in Side, broken[s]
      PROVE  Stays(<<s, Junk>>)'
  <2>1. CASE IsHeld(s, Junk)
    BY <1>7, <2>1
  <2>2. CASE ~ IsHeld(s, Junk)
    <3>1. <<s, Junk>> \in Unreadable
      BY <1>8, <2>2 DEF Unreadable
    <3> QED BY <1>1, <1>2, <1>5, <3>1 DEF Stays
  <2> QED BY <2>1, <2>2
<1>9. \A u \in Contact : (Settled(u) => Settled(u)') /\ (CrossDeleted(u) => CrossDeleted(u)')
  BY <1>1 DEF Settled, SameBodies, CrossDeleted, Rows
<1>10. ASSUME NEW u \in Contact
       PROVE  Accounted(u)'
  <2>1. CASE HeldBack(u)
    BY <1>7, <2>1 DEF HeldBack, Accounted
  <2>2. ASSUME NEW op \in RowOps \cup PairOps, op.uid = u
        PROVE  Accounted(u)'
    <3>1. CASE op \in CrossDeletes(RowOps \cup PairOps)
      BY <1>9, <2>2, <3>1, CrossIsDeleted DEF Types, Accounted
    <3>2. CASE op \notin CrossDeletes(RowOps \cup PairOps)
      BY <1>1, <2>2, <3>2 DEF Plan, Accounted
    <3> QED BY <3>1, <3>2
  <2>3. CASE ~ HeldBack(u) /\ u \notin Rows
    BY <1>9, <2>2, <2>3, PairIsPlanned DEF Types, Accounted
  <2>4. CASE ~ HeldBack(u) /\ u \in Rows /\ ~ Deferred(u)
    BY <1>9, <2>2, <2>4, RowIsPlanned DEF Types, Accounted
  <2>5. CASE u \in Rows /\ Deferred(u)
    <3>1. PICK s \in Side : Uncertain(s) /\ Status(s, u) = "deleted"
      BY <2>5 DEF Deferred
    <3>2. ~ There(s, u)' /\ u \in Rows'
      BY <1>1, <2>5, <3>1 DEF There, Status, Rows
    <3>3. Junk \notin Rows'
      BY DaemonAssumption DEF Rows
    <3>4. \E v \in (Contact \cup {Junk}) \ Rows' : Stays(<<s, v>>)'
      <4>1. CASE broken[s]
        BY <1>8, <3>3, <4>1
      <4>2. CASE \E v \in Contact : row[v] = None /\ IsHeld(s, v)
        <5>1. PICK v \in Contact : row[v] = None /\ IsHeld(s, v)
          BY <4>2
        <5>2. Stays(<<s, v>>)' /\ v \notin Rows'
          BY <1>1, <1>7, <5>1 DEF Rows
        <5> QED BY <5>2
      <4> QED BY <3>1, <4>1, <4>2 DEF Uncertain
    <3>5. Doubted(u)'
      BY <3>2, <3>4 DEF Doubted
    <3> QED BY <3>5 DEF Accounted
  <2> QED BY <2>1, <2>3, <2>4, <2>5
<1>11. ASSUME NEW op \in Plan
       PROVE  Fits(op)' /\ \A s \in Side : <<s, op.uid>> \notin Unreadable \cup Held
  <2>1. op \in RowOps \cup PairOps /\ op.uid \in Contact /\ ~ HeldBack(op.uid)
    BY DEF Plan, RowOps, PairOps, Ops, Rows
  <2>2. Fits(op)
    <3>1. CASE op \in RowOps
      <4>1. /\ op.kind # "Adopt" /\ op.uid \in Rows
            /\ op.kind \in StateOnly => op.to = "icloud" /\ op.kind \in {"Forget", "Refresh"}
        BY <3>1, RowOpIs DEF StateOnly
      <4>2. ASSUME op.kind = "Forget"
            PROVE  SameBodies(op.uid) /\ ~ There("icloud", op.uid)
        <5>1. op.to = "icloud" /\ Other(op.to) = "fastmail"
          BY <4>1, <4>2 DEF StateOnly, Other
        <5>2. Status("icloud", op.uid) = "deleted" /\ Status("fastmail", op.uid) = "deleted"
          BY <3>1, <4>2, <5>1, RowOpIs
        <5> QED BY <5>2 DEF Status, SameBodies, There
      <4>3. ASSUME op.kind = "Refresh"
            PROVE  SameBodies(op.uid) /\ There("icloud", op.uid)
        <5>1. op.to = "icloud"
          BY <4>1, <4>3 DEF StateOnly
        <5>2. Status("icloud", op.uid) = "changed" /\ SameBodies(op.uid)
          BY <3>1, <4>3, <5>1, RowOpIs
        <5> QED BY <5>2 DEF Status, There
      <4> QED BY <4>1, <4>2, <4>3 DEF Fits
    <3>2. CASE op \in PairOps
      BY <3>2, PairOpIs DEF Fits, StateOnly
    <3> QED BY <2>1, <3>1, <3>2
  <2>3. Fits(op)'
    BY <1>1, <2>2 DEF Fits, SameBodies, Rows, There
  <2>4. \A s \in Side : <<s, op.uid>> \notin Unreadable \cup Held
    <3> TAKE s \in Side
    <3>1. <<s, op.uid>> \notin Unreadable
      BY <2>1, DaemonAssumption DEF Unreadable
    <3>2. <<s, op.uid>> \notin Held
      BY <2>1 DEF Held, HeldBack
    <3> QED BY <3>1, <3>2
  <2> QED BY <2>3, <2>4
<1>12. Listed'
  BY <1>1, <1>2, <1>4, <1>10, <1>11 DEF Listed
<1> QED BY <1>1, <1>6, <1>11, <1>12 DEF Resting, Undisturbed

\* A cycle that ends with nothing moved meanwhile leaves nothing to do: it
\* keeps the failures of whatever it did not deal with.
LEMMA RestingFinish ==
    ASSUME Types, Resting, Finish
    PROVE  Resting'
<1>1. /\ cycle.pc = "applying" /\ cycle.todo = {} /\ cycle' = Idling /\ UNCHANGED <<book, row>>
      /\ failures' = [k \in Key |-> IF k \in Resolved THEN None ELSE failures[k]]
      /\ token' = [s \in Side |-> IF s \in cycle.moved THEN "behind" ELSE "current"]
  BY DEF Finish, Finished
<1>2. cycle'.pc # "applying"
  BY <1>1 DEF Idling
<1>3. NothingLeft'
  <2>1. CASE cycle.moved # {}
    <3>1. PICK s \in cycle.moved : s \in Side
      BY <2>1 DEF Types, CycleType, Cycles
    <3>2. token'[s] # "current"
      BY <1>1, <3>1
    <3> QED BY <3>1, <3>2, NothingLeftVoid
  <2>2. CASE cycle.moved = {}
    <3> SUFFICES ASSUME NEW u \in Contact
                 PROVE  Done(u)'
      BY DEF NothingLeft
    <3>1. Accounted(u)
      BY <1>1, <2>2 DEF Resting, Undisturbed, Listed
    <3>2. \A k \in Key : Stays(k) => failures'[k] # None
      <4> TAKE k \in Key
      <4>1. Stays(k) => k \notin Resolved
        BY DEF Stays, Resolved
      <4> QED BY <1>1, <4>1 DEF Stays
    <3>3. \A s \in Side, v \in Contact \cup {Junk} : <<s, v>> \in Key
      BY DEF Key
    <3>4. CASE Settled(u)
      BY <1>1, <3>4 DEF Settled, SameBodies, Done
    <3>5. CASE CrossDeleted(u)
      <4>1. u \in Rows'
        BY <1>1, <3>5 DEF CrossDeleted, Rows
      <4>2. CrossDeleted(u)'
        BY <1>1, <3>5 DEF CrossDeleted, Rows
      <4> QED BY <4>1, <4>2 DEF Done
    <3>6. CASE \E s \in Side : Stays(<<s, u>>)
      BY <3>2, <3>3, <3>6 DEF Done
    <3>7. CASE Doubted(u)
      <4>1. PICK s \in Side : ~ There(s, u) /\ \E v \in (Contact \cup {Junk}) \ Rows : Stays(<<s, v>>)
        BY <3>7 DEF Doubted
      <4>2. PICK v \in (Contact \cup {Junk}) \ Rows : Stays(<<s, v>>)
        BY <4>1
      <4>3. failures'[<<s, v>>] # None
        BY <3>2, <3>3, <4>2
      <4>4. v \notin Rows' /\ u \in Rows' /\ book'[s][u] = None
        BY <1>1, <3>7, <4>1, <4>2 DEF Doubted, Rows, There
      <4>5. InDoubt(u)'
        BY <4>3, <4>4 DEF InDoubt
      <4> QED BY <4>4, <4>5 DEF Done
    <3> QED BY <1>1, <3>1, <3>4, <3>5, <3>6, <3>7 DEF Accounted
  <2> QED BY <2>1, <2>2
<1> QED BY <1>2, <1>3 DEF Resting, Undisturbed

\* A side that somebody writes to is listed again.
LEMMA RestingTouch ==
    ASSUME Types, Resting, NEW sides, sides \subseteq Side, sides # {}, NEW touched,
           Touch(sides, touched)
    PROVE  Resting'
<1>1. /\ token' = [s \in Side |-> IF s \in sides /\ token[s] = "current" THEN "behind" ELSE token[s]]
      /\ cycle' = IF cycle.pc = "applying" THEN [cycle EXCEPT !.moved = @ \cup sides] ELSE cycle
  BY DEF Touch
<1>2. \A s \in sides : token'[s] # "current"
  BY <1>1
<1>3. NothingLeft'
  BY <1>2, NothingLeftVoid
<1>4. CASE cycle.pc # "applying"
  BY <1>1, <1>3, <1>4 DEF Resting, Undisturbed
<1>5. CASE cycle.pc = "applying"
  <2>1. /\ cycle'.moved = cycle.moved \cup sides /\ cycle'.todo = cycle.todo
        /\ cycle'.failed = cycle.failed /\ cycle'.held = cycle.held
    BY <1>1, <1>5 DEF Types, CycleType, Cycles
  <2>2. \A s \in Side : token'[s] = "current" => s \notin cycle'.moved
    BY <1>1, <1>2, <1>5, <2>1 DEF Resting, Undisturbed
  <2>3. cycle'.moved # {}
    BY <2>1
  <2> QED BY <1>3, <1>5, <2>1, <2>2, <2>3 DEF Resting, Undisturbed
<1> QED BY <1>4, <1>5

\* Resting is inductive, under Sound and Planned.
LEMMA RestingStep ==
    ASSUME Sound, Planned, Resting, [Next]_vars
    PROVE  Resting'
<1> USE DEF Sound
<1>1. ASSUME UNCHANGED <<book, row, token, broken>>,
             (cycle'.pc # "applying") \/ UNCHANGED cycle,
             \A k \in Key : failures[k] # None => failures'[k] # None
      PROVE  Resting'
  BY <1>1, NothingLeftKept, UndisturbedKept DEF Resting
<1>2. CASE Start
  <2>1. cycle'.pc # "applying"
    BY <1>2 DEF Start, Types, CycleType, Cycles
  <2> QED BY <1>1, <1>2, <2>1 DEF Start
<1>3. CASE Reset
  <2>1. cycle'.pc # "applying" /\ token' = [s \in Side |-> "none"]
    BY <1>3 DEF Reset, Types, CycleType, Cycles
  <2>2. token'["icloud"] # "current" /\ "icloud" \in Side
    BY <2>1 DEF Side
  <2>3. NothingLeft'
    BY <2>2, NothingLeftVoid
  <2> QED BY <2>1, <2>3 DEF Resting, Undisturbed
<1>4. CASE Refused
  <2>1. cycle' = Idling
    BY <1>4, FailedType DEF Refused
  <2>2. cycle'.pc # "applying"
    BY <2>1 DEF Idling
  <2> QED BY <1>1, <1>4, <2>2 DEF Refused
<1>5. CASE Look
  <2>1. cycle' = Idling \/ cycle' = [cycle EXCEPT !.pc = "listing"]
    BY <1>5 DEF Look, Finished
  <2>2. cycle'.pc # "applying"
    BY <2>1 DEF Idling, Types, CycleType, Cycles
  <2> QED BY <1>1, <1>5, <2>2 DEF Look
<1>6. CASE List
  <2>1. CASE Block
    <3>1. cycle'.pc # "applying"
      BY <2>1 DEF Block, Finished, Idling
    <3> QED BY <1>1, <1>6, <2>1, <3>1 DEF Block, List
  <2> QED BY <1>6, <2>1, RestingList
<1>7. CASE Operate
  <2>1. cycle.pc = "applying" /\ cycle.todo # {} /\ UNCHANGED broken
    BY <1>7 DEF Operate
  <2> DEFINE op == First(cycle.todo)
  <2>2. op \in cycle.todo
    BY <2>1, FirstIsNext DEF Types, CycleType, Cycles
  <2>3. PICK answer \in Answers(op) : IF answer = "ok" THEN Succeed(op) ELSE Fail(op, answer)
    BY <1>7 DEF Operate
  <2> HIDE DEF op
  <2>4. op = First(cycle.todo)
    BY DEF op
  <2>5. CASE answer = "ok"
    BY <2>1, <2>2, <2>3, <2>4, <2>5, RestingSucceed
  <2>6. CASE answer # "ok"
    BY <2>1, <2>2, <2>3, <2>6, RestingFail
  <2> QED BY <2>5, <2>6
<1>8. CASE Finish
  BY <1>8, RestingFinish
<1>9. CASE Stop
  BY <1>1, <1>9 DEF Stop, Idling
<1>10. CASE Pass
  <2>1. UNCHANGED <<book, row, token, broken, cycle>>
    BY <1>10 DEF Pass
  <2>2. \A k \in Key : failures[k] # None => failures'[k] # None
    <3> SUFFICES ASSUME NEW k \in Key, failures[k] # None
                 PROVE  failures'[k] # None
      OBVIOUS
    <3>1. failures'[k] = [failures[k] EXCEPT !.wait = Left(@, 1)]
      BY <1>10 DEF Pass
    <3>2. failures[k] \in FailureRow(Etags) /\ failures[k].wait \in 0..BackoffCap
      BY DEF Types, FailType, FailureRow
    <3>3. Left(failures[k].wait, 1) \in 0..BackoffCap
      BY <3>2, FailuresAssumption DEF Left, Most
    <3>4. failures'[k] \in FailureRow(Etags)
      BY <3>1, <3>2, <3>3 DEF FailureRow
    <3> QED BY <3>4, DaemonAssumption DEF Etags
  <2> QED BY <1>1, <2>1, <2>2
<1>11. CASE Edit \/ DeleteMerged \/ Break
  <2>1. CASE Edit
    <3>1. PICK s \in Side, u \in Contact, b \in Body \cup {None} : Touch({s}, {u})
      BY <2>1 DEF Edit
    <3> QED BY <3>1, RestingTouch
  <2>2. CASE DeleteMerged
    <3>1. PICK p \in Alike : Touch(Side, {p[1], p[2]})
      BY <2>2 DEF DeleteMerged
    <3>2. Side # {}
      BY DEF Side
    <3> QED BY <3>1, <3>2, RestingTouch
  <2>3. CASE Break
    <3>1. PICK s \in BrokenSides : Touch({s}, {})
      BY <2>3 DEF Break
    <3>2. {s} \subseteq Side
      BY DaemonAssumption DEF Side
    <3> QED BY <3>1, <3>2, RestingTouch
  <2> QED BY <1>11, <2>1, <2>2, <2>3
<1>12. CASE Fault \/ Signal \/ UNCHANGED vars
  BY <1>1, <1>12 DEF Fault, Signal, vars
<1> QED BY <1>2, <1>3, <1>4, <1>5, <1>6, <1>7, <1>8, <1>9, <1>10, <1>11, <1>12
        DEF Next, Cycle, World

\* A cycle finds nothing to do only when there is nothing to do: as long as no
\* side has changed since its last listing, every contact is in sync, or waits
\* for a person, or for a failure that is not due yet, its own or one of a
\* card that might be its own (idle, finish).
THEOREM IdleMeansDone == Spec => IdleIsDone
<1>1. Init => Sound /\ Planned /\ Survives /\ Resting
  <2>1. Init => Planned /\ Survives
    BY DEF Init, Idling, Planned, Survives
  <2> QED BY <2>1, SoundInit, RestingInit
<1>2. Sound /\ Planned /\ Survives /\ Resting /\ [Next]_vars =>
          (Sound /\ Planned /\ Survives /\ Resting)'
  BY SoundStep, SurvivesStep, RestingStep
<1>3. Resting =>
          [cycle.pc = "looking" /\ cycle'.pc = "waiting" /\ ~ reset' /\ Idle =>
           \A u \in Contact :
               Settled(u) \/ Failing(u) \/ CrossDeleted(u) \/ InDoubt(u)]_vars
  <2> SUFFICES ASSUME Resting, Idle, NEW u \in Contact
               PROVE  Settled(u) \/ Failing(u) \/ CrossDeleted(u) \/ InDoubt(u)
    OBVIOUS
  <2>1. Done(u)
    BY DEF Resting, NothingLeft, Idle
  <2>2. (\E s \in Side : failures[<<s, u>>] # None) => Failing(u)
    BY DEF Failing, Idle
  <2> QED BY <2>1, <2>2 DEF Done
<1> QED BY <1>1, <1>2, <1>3, PTL DEF Spec, IdleIsDone
=============================================================================
