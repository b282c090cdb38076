------------------------------ MODULE PhotoCycle ------------------------------
(***************************************************************************)
(* The photos of one contact over many cycles: core/src/sync/planner.rs    *)
(* merging the photo plan into the content operation, and                  *)
(* core/src/service/{photos,executor}.rs downloading, writing and reading  *)
(* back.  Both sides are listed and fetched in one step, and a held        *)
(* contact is one whose next cycle comes later; SyncCycle has the races    *)
(* and the holds left out here, and the history of conflicts.              *)
(***************************************************************************)
EXTENDS Photos, FiniteSets

CONSTANTS
    Text,            \* the photo-free contents of a card
    Starts,          \* the cards a run may begin with
    UserPics,        \* the pictures people set
    Edits,           \* what people do: "text", "photo", "remove", "delete",
                     \* or iCloud giving a photo a new URI: "uri"
    Faults,          \* what may go wrong: "crash", "lost", "download",
                     \* "readback", "drop"
    MaxEdits,        \* bound
    MaxFaults,       \* bound: how many of them
    EditsAtReadBack  \* whether people may edit between a PUT and its read-back

ASSUME CycleAssumption ==
    /\ MaxEdits \in Nat /\ MaxFaults \in Nat /\ EditsAtReadBack \in BOOLEAN
    /\ UserPics \subseteq Picture
    /\ None \notin Text \cup {"uri", "inline", "dropped"}
    /\ None \notin [photo : [pic : Picture \cup {None}, uri : Nat],
                    change : {"none", "kept", "removed", "set", "stripped"}]

\* The cards a run begins with: iCloud's photo may have a URI, Fastmail's has
\* none, and a card that is gone has no photo.
ASSUME StartsAssumption ==
    \A c \in Starts :
        /\ c \in [Side -> [text : Text \cup {None},
                           photo : [pic : Picture \cup {None}, uri : 0..2], ver : 1..2]]
        /\ c["fastmail"].photo.uri = NoUri
        /\ \A s \in Side : /\ c[s].text = None => c[s].photo = NoPhoto
                           /\ c[s].photo.uri # NoUri => c[s].photo.pic # None

VARIABLES
    card,    \* card[s]: the card on side s, or None
    clock,   \* the last ETag or URI given out
    row,     \* the contact's state row, or None
    token,   \* token[s]: the version of s the stored token stands for
    failing, \* whether a card failure is recorded for the contact
    pc,      \* what the daemon does next
    snap,    \* snap[s]: the card read this cycle, or None
    op,      \* the operation planned, or None
    removed, \* the sides people removed a photo from, or deleted
    edits,
    faults   \* what has gone wrong

cycle == <<pc, snap, op>>
vars == <<card, clock, row, token, failing, cycle, removed, edits, faults>>

\* A card, and the trace a deleted one leaves: each change of a side, its
\* deletion too, has a version of its own.
Card(text, photo, ver) == [text |-> text, photo |-> photo, ver |-> ver]

Gone(ver) == Card(None, NoPhoto, ver)

Present(c) == c.text # None

Init ==
    /\ card \in Starts /\ clock = 2
    /\ row \in {None} \cup
          IF Present(card["icloud"]) /\ card["icloud"].text = card["fastmail"].text
          THEN {[ver |-> [s \in Side |-> card[s].ver], text |-> card["icloud"].text,
                 photo |-> Untracked]}
          ELSE {}
    /\ token = [s \in Side |-> 0] /\ failing = FALSE
    /\ pc = "wait" /\ snap = None /\ op = None
    /\ removed = {} /\ edits = 0 /\ faults = {}

(***************************************************************************)
(* People, and iCloud's own rewrites.                                      *)
(***************************************************************************)
Edit(what, s) ==
    /\ what \in Edits /\ edits < MaxEdits /\ Present(card[s])
    /\ EditsAtReadBack \/ pc # "readback"
    /\ edits' = edits + 1 /\ clock' = clock + 1
    /\ UNCHANGED <<row, token, failing, cycle, faults>>

EditText(s) ==
    /\ Edit("text", s)
    /\ \E t \in Text \ {card[s].text} :
         card' = [card EXCEPT ![s] = Card(t, @.photo, clock')]
    /\ UNCHANGED removed

SetPhoto(s) ==
    /\ Edit("photo", s)
    /\ \E p \in UserPics \ {card[s].photo.pic} :
         card' = [card EXCEPT ![s] =
                     Card(@.text, Photo(p, IF s = "icloud" /\ p \notin Odd THEN clock' ELSE NoUri), clock')]
    /\ UNCHANGED removed

RemovePhoto(s) ==
    /\ Edit("remove", s) /\ card[s].photo # NoPhoto
    /\ card' = [card EXCEPT ![s] = Card(@.text, NoPhoto, clock')]
    /\ removed' = removed \cup {s}

DeleteCard(s) ==
    /\ Edit("delete", s)
    /\ card' = [card EXCEPT ![s] = Gone(clock')]
    /\ removed' = removed \cup {s}

NewUri ==
    /\ Edit("uri", "icloud") /\ card["icloud"].photo.uri # NoUri
    /\ card' = [card EXCEPT !["icloud"] = Card(@.text, Photo(@.photo.pic, clock'), clock')]
    /\ UNCHANGED removed

People == NewUri \/ \E s \in Side : EditText(s) \/ SetPhoto(s) \/ RemovePhoto(s) \/ DeleteCard(s)

(***************************************************************************)
(* The cycle.  An untracked row owes a photo cycle, whatever the deltas    *)
(* say.                                                                    *)
(***************************************************************************)
OwesPhotoCycle == row # None /\ ~ row.photo.tracked

Idle ==
    /\ ~ OwesPhotoCycle /\ ~ failing
    /\ \A s \in Side : token[s] = card[s].ver

Fault(kind) ==
    /\ kind \in Faults \ faults /\ Cardinality(faults) < MaxFaults
    /\ faults' = faults \cup {kind}

NoFault == UNCHANGED faults

\* The end of a cycle: its tokens are stored unless it was cut short.
EndCycle(stored, fails) ==
    /\ pc' = "wait" /\ op' = None
    /\ snap' = None
    /\ token' = IF stored THEN [s \in Side |-> snap[s].ver] ELSE token
    /\ failing' = fails

\* fetch_lists: what changed, and the other side of what changed.
Read ==
    /\ pc = "wait" /\ ~ Idle
    /\ snap' = card /\ pc' = "plan"
    /\ UNCHANGED <<card, clock, row, token, failing, op, removed, edits>> /\ NoFault

Touched(s) == snap[s].ver # IF row = None THEN 0 ELSE row.ver[s]

Fetched(s) == Present(snap[s]) /\ (OwesPhotoCycle \/ \E r \in Side : Touched(r))

Rec == IF row = None THEN Untracked ELSE row.photo

\* An operation, with what it will know of its writes.
Planning(kind, to, text, push, counter, photos) ==
    [kind |-> kind, to |-> to, text |-> text, push |-> push, counter |-> counter,
     photos |-> photos, ver |-> [s \in Side |-> snap[s].ver],
     landed |-> None, uri |-> NoUri, deferred |-> FALSE]

\* One that PUTs nothing, and saves text and photos.
Saving(kind, text, photos) == Planning(kind, None, text, None, None, photos)

\* One that PUTs text to side `to` with a photo, and perhaps a photo to the
\* other side.
Writing(to, text, push, counter, photos) == Planning("write", to, text, push, counter, photos)

Deleting(s) == Planning("delete", s, None, None, None, Untracked)

\* A contact without a row (pairing's Create, Adopt and Conflict).
PairCards ==
    LET present == {s \in Side : Present(snap[s])}
        copy(s) == CopyPhoto(Other(s), Current(snap[s].photo, Untracked))
        loser == Other(Winner)
    IN  IF present = {} THEN {}
        ELSE IF present # Side
        THEN {Writing(Other(s), snap[s].text, copy(s).push, None, copy(s).photos) : s \in present}
        ELSE IF snap["icloud"].text = snap["fastmail"].text
        THEN {Saving("adopt", snap["icloud"].text, Untracked)}
        ELSE {Writing(loser, snap[Winner].text, Apply(loser, Keep, snap[loser].photo), None, Untracked)}

\* A contact with a row.
Edited(s) == Fetched(s) /\ snap[s].text # row.text

Now == [s \in Side |-> IF ~ Present(snap[s]) THEN Nothing
                       ELSE IF Fetched(s) THEN Current(snap[s].photo, Rec)
                       ELSE Recorded(s, Rec)]

\* write_photos: an Update or a Conflict, with the photo plan merged in.
Push(to, text) ==
    LET plan == PhotoPlan(Rec, Now)
        push == [s \in Side |-> IF s = to \/ plan[s] # Keep
                                THEN Apply(s, plan[s], snap[s].photo) ELSE None]
    IN  Writing(to, text, push[to], push[Other(to)], NextState(Rec, Now, plan, push))

Resurrect(to) ==
    LET copy == CopyPhoto(to, Now[Other(to)])
    IN  Writing(to, snap[Other(to)].text, copy.push, None, copy.photos)

\* photo_only: no content to write.  A photo alone goes over its target's own
\* content, which has to be read; else only a new record is saved.
PhotoOnly(text, refreshed) ==
    LET plan == PhotoPlan(Rec, Now)
        to == {s \in Side : plan[s] # Keep}
        next == NextState(Rec, Now, plan, [s \in Side |-> None])
    IN  IF to # {} THEN {Push(s, snap[s].text) : s \in {s \in to : Fetched(s)}}
        ELSE IF refreshed \/ next # Rec THEN {Saving("refresh", text, next)}
        ELSE {}

\* decide_with_photo: at most one operation.
Merge ==
    LET edited == {s \in Side : Edited(s)}
        gone == {s \in Side : ~ Present(snap[s])}
        agreed == edited = Side /\ snap["icloud"].text = snap["fastmail"].text
    IN  IF gone = Side THEN {Saving("forget", None, Untracked)}
        ELSE IF edited # {} /\ gone # {} THEN {Resurrect(s) : s \in gone}
        ELSE IF gone # {} THEN {Deleting(Other(s)) : s \in gone}
        ELSE IF agreed THEN PhotoOnly(snap["icloud"].text, TRUE)
        ELSE IF edited = Side THEN {Push(Other(Winner), snap[Winner].text)}
        ELSE IF edited # {} THEN {Push(Other(s), snap[s].text) : s \in edited}
        ELSE PhotoOnly(row.text, \E s \in Side : Fetched(s))

Planned == IF row = None THEN PairCards ELSE Merge

MustDownload == Fetched("icloud") /\ NeedsDownload(snap["icloud"].photo, Rec)

\* The photo cannot be had: its URI is not one of iCloud's, the gateway
\* refuses it, or what it sends is too large.
Unavailable == MustDownload /\ Fault("download")

FirstStep(o) == IF o.kind = "write" THEN "main" ELSE IF o.kind = "delete" THEN "delete" ELSE "save"

\* Faulty: a photo that did not download is taken for none.
PlanWithoutIt ==
    /\ pc = "plan"
    /\ UNCHANGED <<card, clock, row, removed, edits>>
    /\ \/ /\ Planned = {} /\ EndCycle(TRUE, FALSE) /\ NoFault
       \/ \E o \in Planned :
            /\ op' = o /\ pc' = FirstStep(o)
            /\ UNCHANGED <<token, failing, snap>> /\ NoFault
       \/ /\ Unavailable
          /\ snap' = [snap EXCEPT !["icloud"].photo = NoPhoto]
          /\ UNCHANGED <<token, failing, op, pc>>

\* The photo is downloaded before planning.  A failed download holds the
\* contact as a card failure, unless it is the whole account's.
Plan ==
    /\ pc = "plan"
    /\ UNCHANGED <<card, clock, row, removed, edits>>
    /\ \/ /\ Planned = {} /\ EndCycle(TRUE, FALSE) /\ NoFault
       \/ \E o \in Planned :
            /\ op' = o /\ pc' = FirstStep(o)
            /\ UNCHANGED <<token, failing, snap>> /\ NoFault
       \/ /\ Unavailable
          /\ EndCycle(TRUE, TRUE) \/ EndCycle(FALSE, failing)

(***************************************************************************)
(* Writing.  iCloud keeps a photo it is sent behind a fresh URI, inline,   *)
(* or not at all.                                                          *)
(***************************************************************************)
Matches(s) == card[s].ver = snap[s].ver

Fails == EndCycle(TRUE, TRUE) /\ NoFault /\ UNCHANGED <<card, clock, row>>

\* A PUT answered by `then`, or whose answer is lost.
Put(s, text, push, then) ==
    /\ Matches(s)
    /\ clock' = clock + 1 /\ UNCHANGED row
    /\ LET sent == push.photo
           fresh == s = "icloud" /\ push.change = "set"
           becomes(photo) == card' = [card EXCEPT ![s] = Card(text, photo, clock')]
           answered == /\ op' = [op EXCEPT !.ver[s] = clock']
                       /\ pc' = IF fresh THEN "readback" ELSE then
                       /\ UNCHANGED <<token, failing, snap>>
           kept == becomes(sent) \/ (fresh /\ becomes(Photo(sent.pic, clock')))
       IN  \/ kept /\ answered /\ NoFault
           \/ fresh /\ becomes(NoPhoto) /\ answered /\ Fault("drop")
           \/ kept /\ EndCycle(FALSE, failing \/ row # None) /\ Fault("lost")

Main ==
    /\ pc = "main"
    /\ \/ Put(op.to, op.text, op.push, IF op.counter = None THEN "save" ELSE "counter")
       \/ ~ Matches(op.to) /\ Fails
    /\ UNCHANGED <<removed, edits>>

\* The photo that goes to the side the main write came from.
Counter ==
    /\ pc = "counter"
    /\ \/ Put(Other(op.to), snap[Other(op.to)].text, op.counter, "save")
       \/ ~ Matches(Other(op.to)) /\ Fails
    /\ UNCHANGED <<removed, edits>>

\* The card and its ETag are read back; a read-back that fails leaves the URI
\* unknown, and may end the cycle once the row is saved.
ReadBack ==
    /\ pc = "readback"
    /\ LET back == card["icloud"]
           lands(l, uri, ver, deferred) ==
               /\ op' = [op EXCEPT !.landed = l, !.uri = uri, !.ver["icloud"] = ver,
                                   !.deferred = deferred]
               /\ pc' = "save" /\ UNCHANGED <<token, failing, snap, card, clock, row>>
       IN  \/ ~ Present(back) /\ Fails
           \/ /\ Present(back)
              /\ lands(IF back.photo.uri # NoUri THEN "uri"
                       ELSE IF back.photo.pic # None THEN "inline" ELSE "dropped",
                       back.photo.uri, back.ver, FALSE)
              /\ NoFault
           \/ /\ Fault("readback")
              /\ \E deferred \in BOOLEAN : lands("inline", NoUri, op.ver["icloud"], deferred)
    /\ UNCHANGED <<removed, edits>>

Delete ==
    /\ pc = "delete"
    /\ \/ /\ Matches(op.to) \/ ~ Present(card[op.to])
          /\ clock' = clock + 1 /\ card' = [card EXCEPT ![op.to] = Gone(clock')]
          /\ row' = None /\ EndCycle(TRUE, FALSE) /\ NoFault
       \/ ~ Matches(op.to) /\ Present(card[op.to]) /\ Fails
    /\ UNCHANGED <<removed, edits>>

Save ==
    /\ pc = "save"
    /\ row' = IF op.kind = "forget" THEN None
              ELSE [ver |-> op.ver, text |-> op.text,
                    photo |-> Landed(op.photos, op.landed, op.uri)]
    /\ EndCycle(~ op.deferred, FALSE)
    /\ UNCHANGED <<card, clock, removed, edits>> /\ NoFault

Crash ==
    /\ pc # "wait" /\ Fault("crash") /\ EndCycle(FALSE, failing)
    /\ UNCHANGED <<card, clock, row, removed, edits>>

Daemon == Read \/ Plan \/ Main \/ Counter \/ ReadBack \/ Delete \/ Save

Next == People \/ Daemon \/ Crash

Spec == Init /\ [][Next]_vars /\ WF_vars(Daemon)

(***************************************************************************)
(* Properties.                                                             *)
(***************************************************************************)

\* A side whose ETag is the recorded one has the recorded photo, since it is
\* planned with unread (photo.rs: "its ETag is unchanged, so its photo is
\* too").
RecordedIsThere ==
    row # None /\ row.photo.tracked =>
        \A s \in Side : card[s].ver = row.ver[s] => card[s].photo.pic = row.photo[s]

\* No cycle ended between a PUT and saving the row.
Saved == faults \cap {"crash", "lost"} = {}

FastmailGets(pics) ==
    card["fastmail"].photo # NoPhoto /\ Present(card["fastmail"]') /\ card["fastmail"]'.photo.pic \in pics

Shrunk == Picture \ UserPics

\* Fastmail's photo goes only after somebody removed one: never because it
\* did not download, or because iCloud dropped it or could not hold it; nor
\* does a picture shrunk to fit into iCloud ever replace it, whatever becomes
\* of the read-back (the test a_resized_photo_never_flows_back).
FastmailKeepsItsPhoto ==
    [][card' # card /\ Saved =>
           /\ FastmailGets({None}) => removed' # {}
           /\ ~ FastmailGets(Shrunk \ {card["fastmail"].photo.pic})]_vars

\* When a cycle has nothing to do, no side lacks a photo that could be copied
\* to it, unless iCloud refused it.
NoGapAtRest ==
    pc = "wait" /\ Idle /\ Rec.tracked /\ ~ Rec.stripped =>
        \A s \in Side : card[s].photo.pic = None => card[Other(s)].photo.pic \in Odd \cup {None}

\* Once people leave the contact alone the daemon comes to rest: no photo is
\* sent to and fro.
Rests == <>[](pc = "wait" /\ Idle)
=============================================================================
