-------------------------------- MODULE Photos --------------------------------
(***************************************************************************)
(* What a contact's photos become (core/src/sync/photo.rs).  A picture     *)
(* stands for the hash of its bytes.  A card's photo is a picture and,     *)
(* where iCloud keeps it behind its gateway, the URI it has there.         *)
(***************************************************************************)
EXTENDS Naturals

CONSTANTS
    None,
    Picture,   \* all pictures
    Fitted,    \* Fitted[p]: p as it fits into an iCloud card: itself, a
               \* smaller picture, or None
    Odd,       \* pictures that cannot be copied: a URI on Fastmail, or an
               \* inline photo that does not decode
    Winner     \* CARDIGAN_CONFLICT_WINNER

Side == {"icloud", "fastmail"}

Other(s) == IF s = "icloud" THEN "fastmail" ELSE "icloud"

NoUri == 0

ASSUME PhotoAssumptions ==
    /\ None \notin Picture /\ Odd \subseteq Picture /\ Winner \in Side
    /\ Fitted \in [Picture -> Picture \cup {None}]

\* A card's PHOTO, and the card without one.
Photo(pic, uri) == [pic |-> pic, uri |-> uri]
NoPhoto == Photo(None, NoUri)

\* What a row records of its pair's photos.
PhotoState == [uri : Nat, icloud : Picture \cup {None}, fastmail : Picture \cup {None},
               stripped : BOOLEAN, tracked : BOOLEAN]

Untracked == [uri |-> NoUri, icloud |-> None, fastmail |-> None,
              stripped |-> FALSE, tracked |-> FALSE]

(***************************************************************************)
(* A side's current photo: its hash, whether its bytes are at hand, and    *)
(* its URI.  A URI the row records stands for the hash recorded with it    *)
(* and is not downloaded again.                                            *)
(***************************************************************************)
Known(photo, rec) ==
    rec.tracked /\ photo.uri = rec.uri /\ rec.icloud # None

NeedsDownload(photo, rec) == photo.uri # NoUri /\ ~ Known(photo, rec)

Current(photo, rec) ==
    IF photo.uri # NoUri /\ Known(photo, rec)
    THEN [hash |-> rec.icloud, bytes |-> FALSE, uri |-> photo.uri]
    ELSE [hash |-> photo.pic, bytes |-> photo.pic \notin Odd \cup {None}, uri |-> photo.uri]

\* The recorded photo of a side that was not fetched.
Recorded(s, rec) ==
    [hash |-> rec[s], bytes |-> FALSE, uri |-> IF s = "icloud" THEN rec.uri ELSE NoUri]

Nothing == [hash |-> None, bytes |-> FALSE, uri |-> NoUri]

(***************************************************************************)
(* Which side's photo is written, and what to: at most one side's.         *)
(***************************************************************************)
Keep == [do |-> "keep", pic |-> None]
Remove == [do |-> "remove", pic |-> None]

From(source) ==
    IF source.hash = None THEN Remove
    ELSE IF source.bytes THEN [do |-> "set", pic |-> source.hash]
    ELSE Keep

\* The side whose photo goes to the other one, if any.  `now` is the current
\* photo of each side.
Changed(rec, now, s) == now[s].hash # rec[s]

Leader(rec, now) ==
    LET same == now["icloud"].hash = now["fastmail"].hash
        moved == IF rec.tracked THEN {s \in Side : Changed(rec, now, s)}
                 ELSE {s \in Side : now[s].hash # None}
    IN  IF moved = Side
        THEN IF rec.tracked /\ ~ same THEN {Winner} ELSE {}
        ELSE moved

PhotoPlan(rec, now) ==
    [s \in Side |-> IF Other(s) \in Leader(rec, now) THEN From(now[Other(s)]) ELSE Keep]

\* fit_photo: a picture as a card on side s holds it.  Fastmail has no limit.
FitPhoto(s, pic) == IF s = "icloud" THEN Fitted[pic] ELSE pic

(***************************************************************************)
(* The photo a PUT to side s carries, and what it does to the one there.   *)
(***************************************************************************)
Apply(s, action, target) ==
    CASE action.do = "keep" ->
            [photo |-> target, change |-> IF target.pic = None THEN "none" ELSE "kept"]
      [] action.do = "remove" -> [photo |-> NoPhoto, change |-> "removed"]
      [] action.do = "set" ->
            LET pic == FitPhoto(s, action.pic)
            IN  [photo |-> Photo(pic, NoUri), change |-> IF pic = None THEN "stripped" ELSE "set"]

\* Faulty: the row is not marked as tracked.
NextUntracked(rec, now, plan, push) ==
    LET new(s) == IF plan[s] = Keep \/ push[s] = None THEN now[s].hash ELSE push[s].photo.pic
    IN  [rec EXCEPT !.icloud = new("icloud"), !.fastmail = new("fastmail"),
                    !.uri = IF plan["icloud"] = Keep THEN now["icloud"].uri ELSE NoUri]

\* The row's record once side s was pushed push[s], or None where nothing was.
NextState(rec, now, plan, push) ==
    LET new(s) == IF plan[s] = Keep \/ push[s] = None THEN now[s].hash ELSE push[s].photo.pic
        left == plan["icloud"] = Keep \/ push["icloud"] = None
    IN  [tracked |-> TRUE,
         icloud |-> new("icloud"), fastmail |-> new("fastmail"),
         uri |-> IF left THEN now["icloud"].uri ELSE NoUri,
         stripped |-> IF left THEN rec.stripped /\ now["icloud"].hash = rec.icloud
                      ELSE push["icloud"].change = "stripped"]

\* Faulty: a photo that could not be copied is recorded as settled.
CopySettled(to, source) ==
    LET now == [s \in Side |-> IF s = to THEN Nothing ELSE source]
        action == IF source.bytes THEN From(source) ELSE Keep
        push == Apply(to, action, NoPhoto)
    IN  [push |-> push,
         photos |-> NextState(Untracked, now, [s \in Side |-> IF s = to THEN action ELSE Keep],
                              [s \in Side |-> IF s = to THEN push ELSE None])]

\* A copy to side `to`, which has no card: a photo without bytes is left for
\* the next cycle to fill in.
CopyPhoto(to, source) ==
    IF source.hash # None /\ ~ source.bytes
    THEN [push |-> [photo |-> NoPhoto, change |-> "none"], photos |-> Untracked]
    ELSE LET now == [s \in Side |-> IF s = to THEN Nothing ELSE source]
             plan == PhotoPlan(Untracked, now)
             push == Apply(to, plan[to], NoPhoto)
         IN  [push |-> push,
              photos |-> NextState(Untracked, now, plan,
                                   [s \in Side |-> IF s = to THEN push ELSE None])]

\* Faulty: a dropped photo is recorded as pushed.
LandedAsPushed(photos, landed, uri) ==
    IF landed = "uri" THEN [photos EXCEPT !.uri = uri] ELSE photos

(***************************************************************************)
(* What iCloud made of a photo it was sent, read back: `landed` is "uri",  *)
(* "inline" (also when the read-back failed), "dropped", or None.          *)
(***************************************************************************)
Landed(photos, landed, uri) ==
    CASE landed = "uri" -> [photos EXCEPT !.uri = uri]
      [] landed = "dropped" ->
            [photos EXCEPT !.uri = NoUri, !.icloud = None, !.stripped = TRUE]
      [] OTHER -> photos

=============================================================================
