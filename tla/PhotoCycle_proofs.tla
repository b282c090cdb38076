--------------------------- MODULE PhotoCycle_proofs ---------------------------
(***************************************************************************)
(* What a row records of a contact's photos, over every sequence of edits, *)
(* cycles and faults: the recorded photo of a side that has not changed is *)
(* the one there, and a photo that can be copied is.                       *)
(***************************************************************************)
EXTENDS PhotoCycle, FiniteSetTheorems, TLAPS

(***************************************************************************)
(* Types.                                                                  *)
(***************************************************************************)
AnyPhoto == [pic : Picture \cup {None}, uri : Nat]
AnyCard == [text : Text \cup {None}, photo : AnyPhoto, ver : Nat]
AnyPush == [photo : AnyPhoto, change : {"none", "kept", "removed", "set", "stripped"}]
AnyRow == [ver : [Side -> Nat], text : Text \cup {None}, photo : PhotoState]

AnyOp ==
    [kind : {"write", "adopt", "refresh", "forget", "delete"}, to : Side \cup {None},
     text : Text \cup {None}, push : AnyPush \cup {None}, counter : AnyPush \cup {None},
     photos : PhotoState, ver : [Side -> Nat], landed : {None, "uri", "inline", "dropped"},
     uri : Nat, deferred : BOOLEAN]

Busy == pc \notin {"wait", "plan"}

Types ==
    /\ card \in [Side -> AnyCard] /\ clock \in Nat /\ clock >= 2
    /\ row \in AnyRow \cup {None}
    /\ token \in [Side -> Nat] /\ failing \in BOOLEAN
    /\ pc \in {"wait", "plan", "main", "counter", "readback", "save", "delete"}
    /\ pc # "wait" => snap \in [Side -> AnyCard]
    /\ Busy => op \in AnyOp
    /\ faults \subseteq Faults

\* A card that is gone has no photo, and only iCloud's photos have a URI.
CardFits(s, c) ==
    /\ c.text = None => c.photo = NoPhoto
    /\ s = "fastmail" => c.photo.uri = NoUri
    /\ c.photo.uri # NoUri => c.photo.pic # None

(***************************************************************************)
(* Versions and URIs are never given out twice.                            *)
(***************************************************************************)
Fresh ==
    /\ \A s \in Side : /\ card[s].ver <= clock /\ card[s].photo.uri <= clock
                       /\ CardFits(s, card[s])
                       /\ token[s] <= card[s].ver
    /\ row # None => /\ \A s \in Side : row.ver[s] <= clock
                     /\ row.photo.uri <= clock
    /\ pc # "wait" => \A s \in Side : /\ token[s] <= snap[s].ver /\ snap[s].ver <= card[s].ver
                                      /\ snap[s].photo.uri <= clock
    /\ Busy => /\ op.photos.uri <= clock /\ op.uri <= clock
               /\ \A s \in Side : op.ver[s] <= clock

\* A photo of this URI on iCloud's card is this picture.
UriIs(uri, pic) ==
    uri # NoUri /\ card["icloud"].photo.uri = uri => card["icloud"].photo.pic = pic

\* What a row records of its photos is what the versions it names have.
RowTells ==
    row # None /\ row.photo.tracked =>
        /\ \A s \in Side : card[s].ver = row.ver[s] => card[s].photo.pic = row.photo[s]
        /\ UriIs(row.photo.uri, row.photo.icloud)

\* So with the cards read this cycle.
SnapTells ==
    pc # "wait" =>
        /\ \A s \in Side : /\ card[s].ver = snap[s].ver => card[s] = snap[s]
                           /\ CardFits(s, snap[s])
        /\ UriIs(snap["icloud"].photo.uri, snap["icloud"].photo.pic)
        /\ row # None /\ row.photo.tracked =>
               /\ \A s \in Side : snap[s].ver = row.ver[s] => snap[s].photo.pic = row.photo[s]
               /\ row.photo.uri # NoUri /\ snap["icloud"].photo.uri = row.photo.uri =>
                      snap["icloud"].photo.pic = row.photo.icloud

(***************************************************************************)
(* An operation and what it has written.                                   *)
(***************************************************************************)
PushTo(o, s) == IF s = o.to THEN o.push ELSE o.counter

\* The sides the operation still has to write, or to read back.
Pending ==
    CASE pc = "main" -> {s \in Side : s = op.to \/ op.counter # None}
      [] pc = "counter" -> {Other(op.to)}
      [] pc = "readback" -> {"icloud"}
      [] OTHER -> {}

Final == Landed(op.photos, op.landed, op.uri)

\* A photo written to iCloud is new there, or the one read; Fastmail's have
\* no URI.
Sendable(s, push) ==
    /\ push.photo.uri # NoUri => s = "icloud" /\ push.photo = snap["icloud"].photo
    /\ push.change = "set" => push.photo.pic # None

\* What an operation is to record is what it writes, or else what was read.
OpPushes(o) ==
    /\ o.kind = "write" => /\ o.to \in Side /\ o.push # None /\ o.text # None
                           /\ o.counter # None => \A s \in Side : Present(snap[s])
                           /\ o.to = "icloud" /\ o.push.change = "set" => o.counter = None
                           /\ \A s \in Side : PushTo(o, s) # None => Sendable(s, PushTo(o, s))
    /\ o.kind = "delete" => o.to \in Side
    /\ o.photos.tracked =>
          /\ o.kind # "delete"
          /\ \A s \in Side : o.photos[s] = IF o.kind = "write" /\ PushTo(o, s) # None
                                          THEN PushTo(o, s).photo.pic ELSE snap[s].photo.pic
          /\ UriIs(o.photos.uri, o.photos.icloud)

OpTells ==
    Busy =>
        /\ OpPushes(op)
        /\ pc \in {"main", "counter", "readback"} => op.kind = "write"
        /\ pc = "counter" => op.counter # None
        /\ pc = "delete" <=> op.kind = "delete"
        /\ pc \in {"main", "counter", "readback"} => op.uri = NoUri /\ op.landed = None
        /\ op.landed # None => op.kind = "write" /\ PushTo(op, "icloud") # None
        /\ pc = "main" => op.ver = [s \in Side |-> snap[s].ver]
        \* Sides that were not written are as they were read.
        /\ \A s \in Side : \/ op.ver[s] = snap[s].ver
                           \/ op.ver[s] > snap[s].ver /\ op.ver[s] <= card[s].ver
        /\ op.photos.tracked =>
              /\ \A s \in Side \ Pending : card[s].ver = op.ver[s] => card[s].photo.pic = Final[s]
              /\ pc = "save" => UriIs(Final.uri, Final.icloud)
        \* What iCloud made of the photo it was sent is to be read.
        /\ pc = "readback" =>
              /\ PushTo(op, "icloud") # None /\ PushTo(op, "icloud").change = "set"
              /\ card["icloud"].ver = op.ver["icloud"]
              /\ \/ card["icloud"].photo.pic = PushTo(op, "icloud").photo.pic
                 \/ card["icloud"].photo.pic = None /\ "drop" \in faults

\* The tokens stand for what the row names, unless a failure is recorded.
TokensTell ==
    row # None /\ ~ failing =>
        \A s \in Side : token[s] = card[s].ver => row.ver[s] = card[s].ver

(***************************************************************************)
(* Gaps.                                                                   *)
(***************************************************************************)
NoGap(rec) ==
    rec.tracked /\ ~ rec.stripped =>
        \A s \in Side : rec[s] = None => rec[Other(s)] \in Odd \cup {None}

NoGaps ==
    /\ row # None => NoGap(row.photo)
    /\ Busy => NoGap(op.photos)

IInv == Types /\ Fresh /\ RowTells /\ SnapTells /\ OpTells /\ TokensTell /\ NoGaps

(***************************************************************************)
(* The plan (Photos).                                                      *)
(***************************************************************************)
AnyNow == [hash : Picture \cup {None}, bytes : BOOLEAN, uri : Nat]

\* The two sides.
LEMMA Sides ==
    /\ Side = {"icloud", "fastmail"} /\ "icloud" # "fastmail"
    /\ \A s \in Side : Other(s) \in Side /\ Other(s) # s /\ Other(Other(s)) = s
    /\ \A s, r \in Side : r # s => r = Other(s)
    /\ Other("icloud") = "fastmail" /\ Other("fastmail") = "icloud"
BY DEF Side, Other

\* At most one side's photo goes to the other; and if none does, the photos
\* are as recorded or no gap is there to be filled.
LEMMA LeaderIsAlone ==
    ASSUME NEW rec \in PhotoState, NEW now \in [Side -> AnyNow]
    PROVE  /\ Leader(rec, now) \in SUBSET Side
           /\ \A l, m \in Leader(rec, now) : l = m
           /\ \A l \in Leader(rec, now) :
                 IF rec.tracked THEN now[l].hash # rec[l]
                 ELSE now[l].hash # None /\ now[Other(l)].hash = None
           /\ Leader(rec, now) = {} =>
                 \/ \A s \in Side : now[s].hash = now[Other(s)].hash
                 \/ rec.tracked /\ \A s \in Side : now[s].hash = rec[s]
                 \/ \A s \in Side : now[s].hash # None
<1> DEFINE moved == IF rec.tracked THEN {s \in Side : Changed(rec, now, s)}
                    ELSE {s \in Side : now[s].hash # None}
<1>0. Winner \in Side
  BY PhotoAssumptions DEF PhotoAssumptions
<1>1. moved \in {{}, {"icloud"}, {"fastmail"}, Side}
  <2>1. moved \subseteq Side
    OBVIOUS
  <2> HIDE DEF moved
  <2> QED BY <2>1 DEF Side
<1>2. Leader(rec, now) = IF moved = Side
                         THEN IF rec.tracked /\ ~ (now["icloud"].hash = now["fastmail"].hash)
                              THEN {Winner} ELSE {}
                         ELSE moved
  BY DEF Leader
<1>3. \A l \in moved : IF rec.tracked THEN now[l].hash # rec[l] ELSE now[l].hash # None
  BY DEF Changed
<1>4. \A l \in Side \ moved : IF rec.tracked THEN now[l].hash = rec[l] ELSE now[l].hash = None
  BY DEF Changed
<1> HIDE DEF moved
<1>5. CASE moved = Side
  BY <1>0, <1>2, <1>3, <1>5, Sides
<1>6. CASE moved # Side
  BY <1>1, <1>2, <1>3, <1>4, <1>6, Sides
<1> QED BY <1>5, <1>6

\* What a PUT carries for a plan.
LEMMA ApplyFacts ==
    ASSUME NEW s \in Side, NEW act, NEW target \in AnyPhoto,
           act \in [do : {"keep", "remove"}, pic : {None}] \cup [do : {"set"}, pic : Picture]
    PROVE  LET push == Apply(s, act, target)
           IN  /\ push \in AnyPush
               /\ act.do = "keep" => push.photo = target /\ push.change \in {"none", "kept"}
               /\ act.do # "keep" => push.photo.uri = NoUri
               /\ act.do = "remove" => push.photo = NoPhoto /\ push.change = "removed"
               /\ act.do = "set" => push.photo.pic = FitPhoto(s, act.pic)
               /\ act.do = "set" /\ s = "fastmail" => push.photo.pic = act.pic
               /\ push.change = "stripped" <=> act.do = "set" /\ push.photo.pic = None
               /\ push.change = "set" => push.photo.pic # None /\ act.do = "set"
<1>1. /\ Fitted \in [Picture -> Picture \cup {None}] /\ None \notin Picture
  BY PhotoAssumptions DEF PhotoAssumptions
<1>2. NoPhoto \in AnyPhoto
  BY DEF NoPhoto, Photo, NoUri, AnyPhoto
<1>3. CASE act.do = "keep"
  BY <1>1, <1>2, <1>3 DEF Apply, AnyPush
<1>4. CASE act.do = "remove"
  BY <1>1, <1>2, <1>4 DEF Apply, AnyPush, NoPhoto, Photo
<1>5. CASE act.do = "set"
  <2>1. FitPhoto(s, act.pic) \in Picture \cup {None} /\ (s = "fastmail" => FitPhoto(s, act.pic) = act.pic)
    BY <1>1, <1>5 DEF FitPhoto
  <2>2. Photo(FitPhoto(s, act.pic), NoUri) \in AnyPhoto
    BY <2>1 DEF Photo, NoUri, AnyPhoto
  <2>3. Apply(s, act, target) = [photo |-> Photo(FitPhoto(s, act.pic), NoUri),
             change |-> IF FitPhoto(s, act.pic) = None THEN "stripped" ELSE "set"]
    BY <1>5 DEF Apply
  <2> QED BY <1>1, <1>5, <2>1, <2>2, <2>3 DEF AnyPush, Photo
<1> QED BY <1>3, <1>4, <1>5

Act == [do : {"keep", "remove"}, pic : {None}] \cup [do : {"set"}, pic : Picture]

\* A photo is sent to one side at most.
LEMMA PlanFacts ==
    ASSUME NEW rec \in PhotoState, NEW now \in [Side -> AnyNow],
           \A s \in Side : now[s].bytes => now[s].hash # None
    PROVE  /\ \A s \in Side : PhotoPlan(rec, now)[s] \in Act
           /\ \A s \in Side : PhotoPlan(rec, now)[s] # Keep => PhotoPlan(rec, now)[Other(s)] = Keep
           /\ \A s \in Side : PhotoPlan(rec, now)[s].do = "keep" <=> PhotoPlan(rec, now)[s] = Keep
           /\ \A s \in Side : PhotoPlan(rec, now)[s].do = "remove" => now[Other(s)].hash = None
           /\ \A s \in Side : PhotoPlan(rec, now)[s].do = "set" =>
                  PhotoPlan(rec, now)[s].pic = now[Other(s)].hash /\ now[Other(s)].bytes
           /\ \A l \in Leader(rec, now) : PhotoPlan(rec, now)[Other(l)] = From(now[l])
<1>1. None \notin Picture
  BY PhotoAssumptions DEF PhotoAssumptions
<1>2. \A s \in Side : PhotoPlan(rec, now)[s]
          = IF Other(s) \in Leader(rec, now) THEN From(now[Other(s)]) ELSE Keep
  BY DEF PhotoPlan
<1>3. \A s \in Side :
          /\ From(now[s]) \in Act
          /\ From(now[s]).do = "keep" <=> From(now[s]) = Keep
          /\ From(now[s]).do = "remove" => now[s].hash = None
          /\ From(now[s]).do = "set" => From(now[s]).pic = now[s].hash /\ now[s].bytes
  <2> TAKE s \in Side
  <2>1. now[s] \in AnyNow
    OBVIOUS
  <2> QED BY <1>1, <2>1 DEF From, Keep, Remove, Act, AnyNow
<1>4. Keep \in Act /\ Keep.do = "keep"
  BY DEF Keep, Act
<1>5. /\ \A l, m \in Leader(rec, now) : l = m
      /\ Leader(rec, now) \in SUBSET Side
  BY LeaderIsAlone
<1> QED BY <1>2, <1>3, <1>4, <1>5, Sides

\* What a record becomes: what was pushed, or else what was there.
LEMMA NextFacts ==
    ASSUME NEW rec \in PhotoState, NEW now \in [Side -> AnyNow],
           NEW target \in [Side -> AnyPhoto], NEW push \in [Side -> AnyPush \cup {None}],
           \A s \in Side : now[s].bytes => now[s].hash # None,
           \A s \in Side : push[s] # None => /\ push[s] = Apply(s, PhotoPlan(rec, now)[s], target[s])
                                             /\ target[s].pic = now[s].hash,
           \A s \in Side : PhotoPlan(rec, now)[s] # Keep => push[s] # None
    PROVE  LET next == NextState(rec, now, PhotoPlan(rec, now), push)
           IN  /\ next \in PhotoState /\ next.tracked
               /\ \A s \in Side : next[s] = IF push[s] # None THEN push[s].photo.pic
                                            ELSE now[s].hash
               /\ \/ next.uri = NoUri
                  \/ next.uri = now["icloud"].uri /\ next.icloud = now["icloud"].hash
               /\ IF PhotoPlan(rec, now)["icloud"] = Keep
                  THEN next.stripped <=> rec.stripped /\ now["icloud"].hash = rec.icloud
                  ELSE next.stripped <=> push["icloud"].change = "stripped"
<1> DEFINE plan == PhotoPlan(rec, now)
           new(s) == IF plan[s] = Keep \/ push[s] = None THEN now[s].hash ELSE push[s].photo.pic
           left == plan["icloud"] = Keep \/ push["icloud"] = None
           next == NextState(rec, now, plan, push)
<1>0. "icloud" \in Side /\ "fastmail" \in Side
  BY DEF Side
<1>1. /\ next = [tracked |-> TRUE, icloud |-> new("icloud"), fastmail |-> new("fastmail"),
                 uri |-> IF left THEN now["icloud"].uri ELSE NoUri,
                 stripped |-> IF left THEN rec.stripped /\ now["icloud"].hash = rec.icloud
                              ELSE push["icloud"].change = "stripped"]
  BY DEF NextState
<1>2. \A s \in Side : plan[s] \in Act /\ (plan[s].do = "keep" <=> plan[s] = Keep)
  BY PlanFacts
<1>3. \A s \in Side : new(s) = IF push[s] # None THEN push[s].photo.pic ELSE now[s].hash
  <2> TAKE s \in Side
  <2>1. CASE plan[s] = Keep /\ push[s] # None
    <3>1. push[s].photo = target[s]
      BY <1>2, <2>1, ApplyFacts DEF Act
    <3> QED BY <2>1, <3>1
  <2> QED BY <2>1
<1>4. \A s \in Side : new(s) \in Picture \cup {None}
  <2> TAKE s \in Side
  <2>1. push[s] # None => push[s] \in AnyPush
    OBVIOUS
  <2>2. now[s] \in AnyNow
    OBVIOUS
  <2> QED BY <2>1, <2>2 DEF AnyPush, AnyPhoto, AnyNow
<1>5. rec.stripped \in BOOLEAN /\ now["icloud"].uri \in Nat /\ NoUri \in Nat
  <2>1. now["icloud"] \in AnyNow
    BY <1>0
  <2> QED BY <2>1 DEF PhotoState, AnyNow, NoUri
<1>6. left = (plan["icloud"] = Keep)
  BY <1>0
<1> DEFINE uri == IF left THEN now["icloud"].uri ELSE NoUri
           stripped == IF left THEN rec.stripped /\ now["icloud"].hash = rec.icloud
                       ELSE push["icloud"].change = "stripped"
           a == new("icloud")
           b == new("fastmail")
<1>7. stripped \in BOOLEAN /\ uri \in Nat /\ a \in Picture \cup {None} /\ b \in Picture \cup {None}
  BY <1>0, <1>4, <1>5
<1>8. next = [tracked |-> TRUE, icloud |-> a, fastmail |-> b, uri |-> uri, stripped |-> stripped]
  BY <1>1
<1>9. left => a = now["icloud"].hash
  BY DEF a
<1>10. uri = (IF left THEN now["icloud"].uri ELSE NoUri)
  OBVIOUS
<1>11. stripped = (IF left THEN rec.stripped /\ now["icloud"].hash = rec.icloud
                       ELSE push["icloud"].change = "stripped")
  OBVIOUS
<1>12. /\ a = IF push["icloud"] # None THEN push["icloud"].photo.pic ELSE now["icloud"].hash
       /\ b = IF push["fastmail"] # None THEN push["fastmail"].photo.pic ELSE now["fastmail"].hash
  BY <1>0, <1>3
<1> HIDE DEF a, b, uri, stripped, left, new
<1>13. next \in PhotoState /\ next.tracked
  BY <1>7, <1>8 DEF PhotoState
<1>14. \A s \in Side : next[s] = IF push[s] # None THEN push[s].photo.pic ELSE now[s].hash
  BY <1>8, <1>12 DEF Side
<1>15. next.uri = uri /\ next.stripped = stripped /\ next.icloud = a
  BY <1>8
<1> QED BY <1>6, <1>9, <1>10, <1>11, <1>13, <1>14, <1>15

\* A plan leaves no gap that it could fill.
LEMMA PlanFills ==
    ASSUME NEW rec \in PhotoState, NEW now \in [Side -> AnyNow],
           NEW target \in [Side -> AnyPhoto], NEW push \in [Side -> AnyPush \cup {None}],
           \A s \in Side : now[s].bytes => now[s].hash # None,
           \A s \in Side : push[s] # None => /\ push[s] = Apply(s, PhotoPlan(rec, now)[s], target[s])
                                             /\ target[s].pic = now[s].hash,
           \A s \in Side : PhotoPlan(rec, now)[s] # Keep => push[s] # None,
           NoGap(rec),
           \A l \in Leader(rec, now) : now[l].hash # None /\ ~ now[l].bytes => now[l].hash \in Odd
    PROVE  NoGap(NextState(rec, now, PhotoPlan(rec, now), push))
<1> DEFINE plan == PhotoPlan(rec, now)
           next == NextState(rec, now, plan, push)
<1> SUFFICES NoGap(next)
  OBVIOUS
<1>0. None \notin Picture /\ Odd \subseteq Picture
  BY PhotoAssumptions DEF PhotoAssumptions
<1>1. /\ \A s \in Side : next[s] = IF push[s] # None THEN push[s].photo.pic ELSE now[s].hash
      /\ IF plan["icloud"] = Keep
         THEN next.stripped <=> rec.stripped /\ now["icloud"].hash = rec.icloud
         ELSE next.stripped <=> push["icloud"].change = "stripped"
  BY NextFacts
<1>2. /\ \A s \in Side : plan[s] \in Act /\ (plan[s].do = "keep" <=> plan[s] = Keep)
      /\ \A s \in Side : plan[s] # Keep => plan[Other(s)] = Keep
      /\ \A s \in Side : plan[s].do = "remove" => now[Other(s)].hash = None
      /\ \A s \in Side : plan[s].do = "set" => now[Other(s)].bytes
      /\ \A l \in Leader(rec, now) : plan[Other(l)] = From(now[l])
  BY PlanFacts
<1>3. \A s \in Side : Other(s) \notin Leader(rec, now) => plan[s] = Keep
  BY DEF PhotoPlan
<1>4. /\ Leader(rec, now) \in SUBSET Side
      /\ \A l, m \in Leader(rec, now) : l = m
      /\ Leader(rec, now) = {} =>
                 \/ \A s \in Side : now[s].hash = now[Other(s)].hash
                 \/ rec.tracked /\ \A s \in Side : now[s].hash = rec[s]
                 \/ \A s \in Side : now[s].hash # None
  BY LeaderIsAlone
<1>5. \A s \in Side : push[s] # None =>
           /\ plan[s].do = "keep" => push[s].photo = target[s] /\ push[s].photo.pic = now[s].hash
           /\ plan[s].do = "remove" => push[s].photo.pic = None
           /\ plan[s].do = "set" /\ s = "fastmail" => push[s].photo.pic = plan[s].pic
           /\ plan[s].do = "set" /\ push[s].photo.pic = None => push[s].change = "stripped"
  <2> TAKE s \in Side
  <2> HAVE push[s] # None
  <2>1. push[s] = Apply(s, plan[s], target[s]) /\ plan[s] \in Act /\ target[s].pic = now[s].hash
    BY <1>2
  <2>2. target[s] \in AnyPhoto /\ NoPhoto.pic = None
    BY DEF NoPhoto, Photo
  <2> HIDE DEF plan
  <2> QED BY <2>1, <2>2, ApplyFacts DEF Act
<1>6. \A s \in Side : plan[s] = Keep => next[s] = now[s].hash
  BY <1>1, <1>2, <1>5
<1>7. \A s \in Side : plan[s].do = "remove" => next[s] = None
  BY <1>1, <1>2, <1>5 DEF Keep
<1>8. \A s \in Side : plan[s].do = "set" => next[s] # None \/ next.stripped
  <2> TAKE s \in Side
  <2> HAVE plan[s].do = "set"
  <2>1. plan[s] # Keep /\ push[s] # None /\ plan[s].pic \in Picture
    BY <1>2 DEF Keep, Act
  <2>2. CASE s = "fastmail"
    BY <1>0, <1>1, <1>5, <2>1, <2>2
  <2>3. CASE s = "icloud"
    BY <1>1, <1>5, <2>1, <2>3
  <2> QED BY <2>2, <2>3 DEF Side
<1> HIDE DEF plan
<1>9. CASE Leader(rec, now) = {}
  <2>1. \A s \in Side : plan[s] = Keep /\ next[s] = now[s].hash
    BY <1>3, <1>6, <1>9
  <2>2. next.stripped <=> rec.stripped /\ now["icloud"].hash = rec.icloud
    BY <1>1, <2>1, Sides
  <2> HIDE DEF next
  <2>3. CASE \A s \in Side : now[s].hash = now[Other(s)].hash
    BY <2>1, <2>3, Sides DEF NoGap
  <2>4. CASE rec.tracked /\ \A s \in Side : now[s].hash = rec[s]
    <3>1. "icloud" \in Side /\ rec["icloud"] = rec.icloud
      BY Sides
    <3>2. next.stripped <=> rec.stripped
      BY <2>2, <2>4, <3>1
    <3>3. \A s \in Side : next[s] = rec[s] /\ next[Other(s)] = rec[Other(s)]
      BY <2>1, <2>4, Sides
    <3> QED BY <2>4, <3>2, <3>3 DEF NoGap
  <2>5. CASE \A s \in Side : now[s].hash # None
    BY <2>1, <2>5 DEF NoGap
  <2> QED BY <1>4, <1>9, <2>3, <2>4, <2>5
<1>10. CASE Leader(rec, now) # {}
  <2>1. PICK l \in Leader(rec, now) : l \in Side
    BY <1>4, <1>10
  <2>2. Other(l) \in Side /\ Other(Other(l)) = l /\ Other(l) # l /\ \A s \in Side : s = l \/ s = Other(l)
    BY <2>1, Sides
  <2>3. plan[l] = Keep /\ next[l] = now[l].hash
    BY <1>3, <1>4, <1>6, <2>1, <2>2
  <2>4. plan[Other(l)] = From(now[l])
    BY <1>2, <2>1
  <2> HIDE DEF next
  <2>5. CASE now[l].hash = None
    <3>1. plan[Other(l)].do = "remove"
      BY <2>4, <2>5 DEF From, Remove
    <3> QED BY <1>7, <2>2, <2>3, <2>5, <3>1 DEF NoGap
  <2>6. CASE now[l].hash # None /\ now[l].bytes
    <3>1. plan[Other(l)].do = "set"
      BY <2>4, <2>6 DEF From
    <3> QED BY <1>8, <2>2, <2>3, <2>6, <3>1 DEF NoGap
  <2>7. CASE now[l].hash # None /\ ~ now[l].bytes
    BY <2>1, <2>2, <2>3, <2>7 DEF NoGap
  <2> QED BY <2>5, <2>6, <2>7
<1> QED BY <1>9, <1>10

\* The record of a contact whose photo was never pushed is of its type.
LEMMA UntrackedFits ==
    /\ Untracked \in PhotoState /\ ~ Untracked.tracked /\ NoGap(Untracked)
    /\ Nothing \in AnyNow /\ NoPhoto \in AnyPhoto
BY DEF Untracked, PhotoState, NoUri, NoGap, Nothing, AnyNow, NoPhoto, Photo, AnyPhoto

\* A copy to a side without a card.
LEMMA CopyFacts ==
    ASSUME NEW to \in Side, NEW source \in AnyNow, source.bytes => source.hash # None
    PROVE  LET copy == CopyPhoto(to, source)
           IN  /\ copy.push \in AnyPush /\ copy.photos \in PhotoState
               /\ copy.push.photo.uri = NoUri
               /\ copy.push.change = "set" => copy.push.photo.pic # None
               /\ copy.photos.tracked => /\ copy.photos[to] = copy.push.photo.pic
                                         /\ copy.photos[Other(to)] = source.hash
               /\ copy.photos.tracked =>
                     \/ copy.photos.uri = NoUri
                     \/ /\ copy.photos.uri = source.uri /\ copy.photos.icloud = source.hash
                        /\ to = "fastmail"
               /\ NoGap(copy.photos)
<1> DEFINE now == [s \in Side |-> IF s = to THEN Nothing ELSE source]
           plan == PhotoPlan(Untracked, now)
           push == Apply(to, plan[to], NoPhoto)
           pushes == [s \in Side |-> IF s = to THEN push ELSE None]
           next == NextState(Untracked, now, plan, pushes)
           copy == CopyPhoto(to, source)
<1> SUFFICES /\ copy.push \in AnyPush /\ copy.photos \in PhotoState
             /\ copy.push.photo.uri = NoUri
             /\ copy.push.change = "set" => copy.push.photo.pic # None
             /\ copy.photos.tracked => /\ copy.photos[to] = copy.push.photo.pic
                                       /\ copy.photos[Other(to)] = source.hash
             /\ copy.photos.tracked =>
                   \/ copy.photos.uri = NoUri
                   \/ /\ copy.photos.uri = source.uri /\ copy.photos.icloud = source.hash
                      /\ to = "fastmail"
             /\ NoGap(copy.photos)
  OBVIOUS
<1>1. CASE source.hash # None /\ ~ source.bytes
  <2>1. copy = [push |-> [photo |-> NoPhoto, change |-> "none"], photos |-> Untracked]
    BY <1>1 DEF CopyPhoto
  <2>2. [photo |-> NoPhoto, change |-> "none"] \in AnyPush
    BY UntrackedFits DEF AnyPush
  <2> HIDE DEF copy
  <2> QED BY <2>1, <2>2, UntrackedFits DEF NoPhoto, Photo
<1>2. CASE ~ (source.hash # None /\ ~ source.bytes)
  <2>1. copy = [push |-> push, photos |-> next]
    BY <1>2 DEF CopyPhoto
  <2>2. now \in [Side -> AnyNow] /\ now[to] = Nothing /\ now[Other(to)] = source
    BY UntrackedFits, Sides
  <2>3. \A s \in Side : now[s].bytes => now[s].hash # None
    BY DEF Nothing
  <2>4. /\ \A s \in Side : plan[s] \in Act
        /\ \A s \in Side : plan[s].do = "remove" => now[Other(s)].hash = None
        /\ \A s \in Side : plan[s].do = "keep" <=> plan[s] = Keep
    BY <2>2, <2>3, PlanFacts, UntrackedFits
  <2>5. \A l \in Leader(Untracked, now) : l \in Side /\ now[l].hash # None
    BY <2>2, LeaderIsAlone, UntrackedFits
  <2>6. Leader(Untracked, now) \subseteq {Other(to)}
    BY <2>2, <2>5, Sides DEF Nothing
  <2>7. plan[Other(to)] = Keep
    BY <2>6, Sides DEF PhotoPlan
  <2>8. push \in AnyPush /\ (push.change = "set" => push.photo.pic # None)
    BY <2>4, ApplyFacts, UntrackedFits DEF Act
  <2>9. push.photo.uri = NoUri
    <3>1. NoPhoto.uri = NoUri
      BY DEF NoPhoto, Photo
    <3>2. plan[to].do = "keep" => push.photo = NoPhoto
      BY <2>4, ApplyFacts, UntrackedFits DEF Act
    <3>3. plan[to].do # "keep" => push.photo.uri = NoUri
      BY <2>4, ApplyFacts, UntrackedFits DEF Act
    <3> QED BY <3>1, <3>2, <3>3
  <2> DEFINE target == [s \in Side |-> IF s = to THEN NoPhoto ELSE Photo(source.hash, source.uri)]
  <2>10. target \in [Side -> AnyPhoto] /\ \A s \in Side : target[s].pic = now[s].hash
    BY UntrackedFits DEF NoPhoto, Photo, AnyPhoto, AnyNow, Nothing
  <2>11. pushes \in [Side -> AnyPush \cup {None}]
    BY <2>8
  <2>12. \A s \in Side : /\ pushes[s] # None => pushes[s] = Apply(s, plan[s], target[s])
                         /\ plan[s] # Keep => pushes[s] # None
    <3>1. push # None
      BY <2>8, CycleAssumption DEF CycleAssumption, AnyPush, AnyPhoto
    <3>2. pushes[to] = push /\ pushes[Other(to)] = None /\ target[to] = NoPhoto
      BY Sides
    <3> HIDE DEF plan, pushes, target
    <3>3. \A s \in Side : s = to \/ s = Other(to)
      BY Sides
    <3> QED BY <2>7, <3>1, <3>2, <3>3
  <2>13. \A l \in Leader(Untracked, now) : now[l].hash # None /\ ~ now[l].bytes => now[l].hash \in Odd
    BY <1>2, <2>2, <2>6, Sides
  <2> HIDE DEF now, pushes, target
  <2>14. /\ next \in PhotoState
         /\ \A s \in Side : next[s] = IF pushes[s] # None THEN pushes[s].photo.pic ELSE now[s].hash
         /\ \/ next.uri = NoUri
            \/ next.uri = now["icloud"].uri /\ next.icloud = now["icloud"].hash
    BY <2>2, <2>3, <2>10, <2>11, <2>12, NextFacts, UntrackedFits
  <2>15. NoGap(next)
    BY <2>2, <2>3, <2>10, <2>11, <2>12, <2>13, PlanFills, UntrackedFits
  <2>16. pushes[to] = push /\ pushes[Other(to)] = None /\ push # None
    <3>1. push # None
      BY <2>8, CycleAssumption DEF CycleAssumption, AnyPush, AnyPhoto
    <3> QED BY <3>1, Sides DEF pushes
  <2> HIDE DEF next, push, copy
  <2>17. next[to] = push.photo.pic /\ next[Other(to)] = source.hash
    BY <2>2, <2>14, <2>16, Sides
  <2>18. next.uri = NoUri \/ (next.uri = source.uri /\ next.icloud = source.hash /\ to = "fastmail")
    <3>1. CASE to = "icloud"
      BY <2>2, <2>14, <3>1 DEF Nothing
    <3>2. CASE to = "fastmail"
      BY <2>2, <2>14, <3>2, Sides
    <3> QED BY <3>1, <3>2 DEF Side
  <2> QED BY <2>1, <2>8, <2>9, <2>14, <2>15, <2>17, <2>18
<1> QED BY <1>1, <1>2

(***************************************************************************)
(* The photos a cycle plans with: whether read, recorded or gone, a side's *)
(* is the one on the card that was read.                                   *)
(***************************************************************************)
LEMMA RecFits ==
    ASSUME Types
    PROVE  Rec \in PhotoState /\ (row # None => Rec = row.photo)
BY UntrackedFits DEF Types, Rec, AnyRow

\* What Current makes of a listed photo: its picture, and bytes or not.
LEMMA CurrentFacts ==
    ASSUME Types, SnapTells, pc # "wait", NEW s \in Side, NEW rec \in PhotoState,
           \/ ~ rec.tracked
           \/ row # None /\ rec = row.photo
    PROVE  /\ Current(snap[s].photo, rec) \in AnyNow
           /\ Current(snap[s].photo, rec).hash = snap[s].photo.pic
           /\ Current(snap[s].photo, rec).uri = snap[s].photo.uri
           /\ Current(snap[s].photo, rec).bytes => snap[s].photo.pic \notin Odd \cup {None}
           /\ \/ Current(snap[s].photo, rec).bytes
              \/ snap[s].photo.pic \in Odd \cup {None}
              \/ rec.tracked /\ snap[s].photo.pic = rec[s]
<1> DEFINE photo == snap[s].photo
<1>1. photo \in AnyPhoto /\ snap[s] \in AnyCard
  BY DEF Types, AnyCard
<1>2. CASE photo.uri # NoUri /\ Known(photo, rec)
  <2>1. s = "icloud"
    BY <1>2 DEF SnapTells, CardFits, Side
  <2>2. rec.tracked /\ photo.uri = rec.uri /\ row # None /\ rec = row.photo
    BY <1>2 DEF Known
  <2>3. photo.pic = rec.icloud
    BY <1>2, <2>1, <2>2 DEF SnapTells
  <2>4. Current(photo, rec) = [hash |-> rec.icloud, bytes |-> FALSE, uri |-> photo.uri]
    BY <1>2 DEF Current
  <2>5. rec.icloud \in Picture \cup {None} /\ photo.uri \in Nat
    BY <1>1 DEF PhotoState, AnyPhoto
  <2>6. rec[s] = rec.icloud
    BY <2>1
  <2> HIDE DEF photo
  <2>7. Current(photo, rec) \in AnyNow
    BY <2>4, <2>5 DEF AnyNow
  <2>8. /\ Current(photo, rec).hash = photo.pic /\ Current(photo, rec).uri = photo.uri
        /\ ~ Current(photo, rec).bytes
    BY <2>3, <2>4
  <2> QED BY <2>2, <2>3, <2>6, <2>7, <2>8 DEF photo
<1>3. CASE ~ (photo.uri # NoUri /\ Known(photo, rec))
  <2>1. Current(photo, rec) = [hash |-> photo.pic, bytes |-> photo.pic \notin Odd \cup {None},
                               uri |-> photo.uri]
    BY <1>3 DEF Current
  <2> HIDE DEF photo
  <2>2. Current(photo, rec) \in AnyNow
    BY <1>1, <2>1 DEF AnyNow, AnyPhoto
  <2>3. /\ Current(photo, rec).hash = photo.pic /\ Current(photo, rec).uri = photo.uri
        /\ Current(photo, rec).bytes = (photo.pic \notin Odd \cup {None})
    BY <2>1
  <2> QED BY <2>2, <2>3 DEF photo
<1> QED BY <1>2, <1>3

\* The photos both sides show, and who leads.
LEMMA NowFacts ==
    ASSUME Types, Fresh, RowTells, SnapTells, pc # "wait", row # None
    PROVE  /\ Now \in [Side -> AnyNow]
           /\ \A s \in Side : /\ Now[s].hash = snap[s].photo.pic
                              /\ Now[s].bytes => Now[s].hash # None
           /\ UriIs(Now["icloud"].uri, Now["icloud"].hash) /\ Now["icloud"].uri <= clock
           /\ \A l \in Leader(Rec, Now) : Now[l].hash # None /\ ~ Now[l].bytes => Now[l].hash \in Odd
<1>1. Rec \in PhotoState /\ Rec = row.photo
  BY RecFits
<1>2. /\ \A s \in Side : Now[s] = IF ~ Present(snap[s]) THEN Nothing
                                  ELSE IF Fetched(s) THEN Current(snap[s].photo, Rec)
                                  ELSE Recorded(s, Rec)
      /\ Now = [s \in Side |-> Now[s]]
  BY DEF Now
<1>3. ASSUME NEW s \in Side
      PROVE  /\ Now[s] \in AnyNow /\ Now[s].hash = snap[s].photo.pic
             /\ Now[s].bytes => Now[s].hash # None
             /\ s = "icloud" => UriIs(Now[s].uri, Now[s].hash)
             /\ s = "icloud" => Now[s].uri <= clock
             /\ \/ Now[s].bytes
                \/ Now[s].hash \in Odd \cup {None}
                \/ Rec.tracked /\ Now[s].hash = Rec[s]
  <2>1. CASE ~ Present(snap[s])
    <3>1. snap[s].photo = NoPhoto
      BY <2>1 DEF SnapTells, CardFits, Present
    <3>2. Now[s] = Nothing
      BY <1>2, <2>1
    <3>3. NoUri <= clock
      BY DEF Types, NoUri
    <3> QED BY <3>1, <3>2, <3>3, UntrackedFits DEF Nothing, NoPhoto, Photo, UriIs
  <2>2. CASE Present(snap[s]) /\ Fetched(s)
    <3>1. Now[s] = Current(snap[s].photo, Rec)
      BY <1>2, <2>2
    <3>2. /\ Current(snap[s].photo, Rec) \in AnyNow
          /\ Current(snap[s].photo, Rec).hash = snap[s].photo.pic
          /\ Current(snap[s].photo, Rec).uri = snap[s].photo.uri
          /\ Current(snap[s].photo, Rec).bytes => snap[s].photo.pic \notin Odd \cup {None}
          /\ \/ Current(snap[s].photo, Rec).bytes
             \/ snap[s].photo.pic \in Odd \cup {None}
             \/ Rec.tracked /\ snap[s].photo.pic = Rec[s]
      BY <1>1, CurrentFacts
    <3>3. UriIs(snap["icloud"].photo.uri, snap["icloud"].photo.pic)
      BY DEF SnapTells
    <3>4. snap[s].photo.uri <= clock
      BY DEF Fresh
    <3> QED BY <3>1, <3>2, <3>3, <3>4
  <2>3. CASE Present(snap[s]) /\ ~ Fetched(s)
    <3>1. Rec.tracked
      BY <1>1, <2>3 DEF Fetched, OwesPhotoCycle
    <3>2. snap[s].ver = row.ver[s]
      BY <2>3 DEF Fetched, Touched
    <3>3. snap[s].photo.pic = Rec[s]
      BY <1>1, <3>1, <3>2 DEF SnapTells
    <3>4. Now[s] = [hash |-> Rec[s], bytes |-> FALSE, uri |-> IF s = "icloud" THEN Rec.uri ELSE NoUri]
      BY <1>2, <2>3 DEF Recorded
    <3>5. Rec[s] \in Picture \cup {None} /\ Rec.uri \in Nat /\ NoUri \in Nat
      BY <1>1 DEF PhotoState, Side, NoUri
    <3>6. UriIs(Rec.uri, Rec.icloud)
      BY <1>1, <3>1 DEF RowTells
    <3>7. Now[s] \in AnyNow /\ Now[s].hash = Rec[s] /\ ~ Now[s].bytes
      BY <3>4, <3>5 DEF AnyNow
    <3>8. s = "icloud" => Now[s].uri = Rec.uri /\ Rec[s] = Rec.icloud
      BY <3>4
    <3>9. Rec.uri <= clock
      BY <1>1 DEF Fresh
    <3> QED BY <3>1, <3>3, <3>6, <3>7, <3>8, <3>9
  <2> QED BY <2>1, <2>2, <2>3
<1>4. Now \in [Side -> AnyNow]
  BY <1>2, <1>3
<1>5. ASSUME NEW l \in Leader(Rec, Now), Now[l].hash # None, ~ Now[l].bytes
      PROVE  Now[l].hash \in Odd
  <2>1. l \in Side /\ (Rec.tracked => Now[l].hash # Rec[l])
    BY <1>1, <1>4, LeaderIsAlone
  <2> QED BY <1>3, <1>5, <2>1
<1> QED BY <1>3, <1>4, <1>5, Sides

(***************************************************************************)
(* The operations a cycle plans.                                           *)
(***************************************************************************)
Planable(o) ==
    /\ o \in AnyOp /\ o.landed = None /\ o.uri = NoUri
    /\ o.ver = [s \in Side |-> snap[s].ver]
    /\ OpPushes(o) /\ NoGap(o.photos) /\ o.photos.uri <= clock

\* An operation that pushes nothing is one the plan may hold.
LEMMA SavingFits ==
    ASSUME Types, pc # "wait", NEW kind \in {"adopt", "refresh", "forget", "delete"},
           NEW text \in Text \cup {None}, NEW photos \in PhotoState, photos.uri <= clock,
           NEW to \in Side \cup {None}, kind = "delete" => to \in Side,
           photos.tracked => /\ kind # "delete" /\ UriIs(photos.uri, photos.icloud)
                             /\ \A s \in Side : photos[s] = snap[s].photo.pic,
           NoGap(photos)
    PROVE  Planable(Planning(kind, to, text, None, None, photos))
<1> DEFINE o == Planning(kind, to, text, None, None, photos)
           ver == [s \in Side |-> snap[s].ver]
<1>2. ver \in [Side -> Nat] /\ NoUri \in Nat
  BY DEF Types, AnyCard, NoUri
<1>1. o = [kind |-> kind, to |-> to, text |-> text, push |-> None, counter |-> None,
           photos |-> photos, ver |-> ver, landed |-> None, uri |-> NoUri, deferred |-> FALSE]
  BY DEF Planning
<1> HIDE DEF ver
<1>3. o \in AnyOp
  BY <1>1, <1>2 DEF AnyOp
<1>4. /\ o.kind = kind /\ o.to = to /\ o.photos = photos /\ o.landed = None /\ o.uri = NoUri /\ o.ver = ver
  BY <1>1
<1> HIDE DEF o
<1>5. OpPushes(o)
  BY <1>4 DEF OpPushes
<1> QED BY <1>3, <1>4, <1>5 DEF Planable, ver, o

\* An operation that pushes to one side is one the plan may hold.
LEMMA WritingFits ==
    ASSUME Types, pc # "wait", NEW to \in Side, NEW text \in Text, NEW push \in AnyPush,
           NEW counter \in AnyPush \cup {None}, NEW photos \in PhotoState,
           photos.uri <= clock,
           counter # None => \A s \in Side : Present(snap[s]),
           to = "icloud" /\ push.change = "set" => counter = None,
           Sendable(to, push), counter # None => Sendable(Other(to), counter),
           photos.tracked =>
              /\ UriIs(photos.uri, photos.icloud)
              /\ photos[to] = push.photo.pic
              /\ photos[Other(to)] = IF counter # None THEN counter.photo.pic
                                     ELSE snap[Other(to)].photo.pic,
           NoGap(photos)
    PROVE  Planable(Writing(to, text, push, counter, photos))
<1> DEFINE o == Writing(to, text, push, counter, photos)
           ver == [s \in Side |-> snap[s].ver]
<1>2. ver \in [Side -> Nat] /\ NoUri \in Nat
  BY DEF Types, AnyCard, NoUri
<1>3. push # None /\ text # None
  BY CycleAssumption DEF CycleAssumption, AnyPush, AnyPhoto
<1>1. o = [kind |-> "write", to |-> to, text |-> text, push |-> push, counter |-> counter,
           photos |-> photos, ver |-> ver, landed |-> None, uri |-> NoUri, deferred |-> FALSE]
  BY DEF Writing, Planning
<1> HIDE DEF ver
<1>4. o \in AnyOp
  BY <1>1, <1>2 DEF AnyOp
<1>5. /\ o.kind = "write" /\ o.to = to /\ o.text = text /\ o.push = push /\ o.counter = counter
      /\ o.photos = photos /\ o.landed = None /\ o.uri = NoUri /\ o.ver = ver
  BY <1>1
<1> HIDE DEF o
<1>6. PushTo(o, to) = push /\ PushTo(o, Other(to)) = counter
  BY <1>5, Sides DEF PushTo
<1>7. \A s \in Side : s = to \/ s = Other(to)
  BY Sides
<1>8. OpPushes(o)
  BY <1>3, <1>5, <1>6, <1>7 DEF OpPushes
<1> QED BY <1>4, <1>5, <1>8 DEF Planable, ver, o

\* Every photo has a URI given out before, or none.
LEMMA NoUriIsOld ==
    ASSUME Types PROVE NoUri \in Nat /\ NoUri <= clock
BY DEF Types, NoUri

\* A push of one side's card.
LEMMA PushFits ==
    ASSUME Types, Fresh, RowTells, SnapTells, NoGaps, pc = "plan", row # None,
           NEW to \in Side, NEW text \in Text, \A s \in Side : Present(snap[s])
    PROVE  Planable(Push(to, text))
<1> DEFINE plan == PhotoPlan(Rec, Now)
           push == [s \in Side |-> IF s = to \/ plan[s] # Keep
                                   THEN Apply(s, plan[s], snap[s].photo) ELSE None]
           next == NextState(Rec, Now, plan, push)
           target == [s \in Side |-> snap[s].photo]
<1>1. Rec \in PhotoState /\ NoGap(Rec)
  BY RecFits DEF NoGaps
<1>2. /\ Now \in [Side -> AnyNow]
      /\ \A s \in Side : /\ Now[s].hash = snap[s].photo.pic
                         /\ Now[s].bytes => Now[s].hash # None
      /\ UriIs(Now["icloud"].uri, Now["icloud"].hash) /\ Now["icloud"].uri <= clock
      /\ \A l \in Leader(Rec, Now) : Now[l].hash # None /\ ~ Now[l].bytes => Now[l].hash \in Odd
  BY NowFacts
<1>3. /\ \A s \in Side : plan[s] \in Act /\ (plan[s].do = "keep" <=> plan[s] = Keep)
      /\ \A s \in Side : plan[s] # Keep => plan[Other(s)] = Keep
  BY <1>1, <1>2, PlanFacts
<1>4. \A s \in Side : snap[s] \in AnyCard /\ snap[s].photo \in AnyPhoto
  BY DEF Types, AnyCard
<1>5. target \in [Side -> AnyPhoto] /\ \A s \in Side : target[s] = snap[s].photo
  BY <1>4
<1> HIDE DEF plan, target
<1>6. ASSUME NEW s \in Side
      PROVE  /\ Apply(s, plan[s], snap[s].photo) \in AnyPush
             /\ Sendable(s, Apply(s, plan[s], snap[s].photo))
             /\ Apply(s, plan[s], snap[s].photo).change = "set" => plan[s] # Keep
  <2> DEFINE it == Apply(s, plan[s], snap[s].photo)
  <2>1. /\ it \in AnyPush
        /\ plan[s].do = "keep" => it.photo = snap[s].photo
        /\ plan[s].do # "keep" => it.photo.uri = NoUri
        /\ it.change = "set" => it.photo.pic # None /\ plan[s].do = "set"
    BY <1>3, <1>4, ApplyFacts DEF Act
  <2>2. s = "fastmail" => snap[s].photo.uri = NoUri
    BY DEF SnapTells, CardFits
  <2> HIDE DEF it
  <2>3. it.photo.uri # NoUri => s = "icloud" /\ it.photo = snap["icloud"].photo
    BY <2>1, <2>2 DEF Side
  <2>4. it.change = "set" => plan[s] # Keep /\ it.photo.pic # None
    BY <1>3, <2>1
  <2> QED BY <2>1, <2>3, <2>4 DEF Sendable, it
<1>7. /\ push \in [Side -> AnyPush \cup {None}]
      /\ \A s \in Side : /\ push[s] # None => push[s] = Apply(s, plan[s], target[s])
                         /\ s = to \/ plan[s] # Keep => push[s] = Apply(s, plan[s], target[s])
                         /\ s # to /\ plan[s] = Keep => push[s] = None
  BY <1>5, <1>6
<1>8. \A s \in Side : push[s] # None => Sendable(s, push[s])
  BY <1>5, <1>6, <1>7
<1>9. None \notin AnyPush
  BY CycleAssumption DEF CycleAssumption, AnyPush, AnyPhoto
<1>10. \A s \in Side : plan[s] # Keep => push[s] # None
  BY <1>5, <1>6, <1>7, <1>9
<1> HIDE DEF push
<1>11. /\ next \in PhotoState /\ next.tracked
       /\ \A s \in Side : next[s] = IF push[s] # None THEN push[s].photo.pic ELSE Now[s].hash
       /\ \/ next.uri = NoUri
          \/ next.uri = Now["icloud"].uri /\ next.icloud = Now["icloud"].hash
  BY <1>1, <1>2, <1>5, <1>7, <1>10, NextFacts DEF plan
<1>12. NoGap(next)
  BY <1>1, <1>2, <1>5, <1>7, <1>10, PlanFills DEF plan
<1> HIDE DEF next
<1>13. UriIs(next.uri, next.icloud) /\ next.uri <= clock
  BY <1>2, <1>11, NoUriIsOld DEF UriIs
<1>14. push[to] \in AnyPush /\ push[Other(to)] \in AnyPush \cup {None}
  BY <1>5, <1>6, <1>7, Sides
<1>15. to = "icloud" /\ push[to].change = "set" => push[Other(to)] = None
  BY <1>3, <1>5, <1>6, <1>7, Sides
<1>16. Push(to, text) = Writing(to, text, push[to], push[Other(to)], next)
  BY DEF Push, push, next, plan
<1>17. /\ next[to] = push[to].photo.pic
       /\ next[Other(to)] = IF push[Other(to)] # None THEN push[Other(to)].photo.pic
                            ELSE snap[Other(to)].photo.pic
  BY <1>2, <1>9, <1>11, <1>14, Sides
<1>18. Sendable(to, push[to]) /\ (push[Other(to)] # None => Sendable(Other(to), push[Other(to)]))
  BY <1>8, <1>9, <1>14, Sides
<1> QED BY <1>11, <1>12, <1>13, <1>14, <1>15, <1>16, <1>17, <1>18, WritingFits

\* A card made anew on side `to`, where it is gone.
LEMMA CopyFits ==
    ASSUME Types, Fresh, RowTells, SnapTells, pc = "plan", NEW to \in Side, NEW text \in Text,
           NEW source \in AnyNow, source.hash = snap[Other(to)].photo.pic,
           source.bytes => source.hash # None,
           to = "fastmail" => source.uri <= clock /\ UriIs(source.uri, source.hash)
    PROVE  Planable(Writing(to, text, CopyPhoto(to, source).push, None,
                            CopyPhoto(to, source).photos))
<1> DEFINE push == CopyPhoto(to, source).push
           photos == CopyPhoto(to, source).photos
<1>1. /\ push \in AnyPush /\ photos \in PhotoState
      /\ push.photo.uri = NoUri
      /\ push.change = "set" => push.photo.pic # None
      /\ photos.tracked => photos[to] = push.photo.pic /\ photos[Other(to)] = source.hash
      /\ photos.tracked =>
            \/ photos.uri = NoUri
            \/ photos.uri = source.uri /\ photos.icloud = source.hash /\ to = "fastmail"
      /\ NoGap(photos)
  BY CopyFacts
<1>2. ~ photos.tracked => photos.uri = NoUri
  <2>1. CASE source.hash # None /\ ~ source.bytes
    BY <2>1 DEF CopyPhoto, Untracked
  <2>2. CASE ~ (source.hash # None /\ ~ source.bytes)
    BY <2>2 DEF CopyPhoto, NextState
  <2> QED BY <2>1, <2>2
<1> HIDE DEF push, photos
<1>3. photos.uri <= clock /\ (photos.tracked => UriIs(photos.uri, photos.icloud))
  BY <1>1, <1>2, NoUriIsOld DEF UriIs
<1>4. Sendable(to, push)
  BY <1>1 DEF Sendable
<1> HIDE DEF Sendable
<1>5. Planable(Writing(to, text, push, None, photos))
  BY <1>1, <1>3, <1>4, WritingFits
<1> QED BY <1>5 DEF push, photos

\* The operations of a contact with no row.
LEMMA PairCardsFit ==
    ASSUME Types, Fresh, RowTells, SnapTells, pc = "plan", row = None, NEW o \in PairCards
    PROVE  Planable(o)
<1> DEFINE present == {s \in Side : Present(snap[s])}
           copy(s) == CopyPhoto(Other(s), Current(snap[s].photo, Untracked))
           loser == Other(Winner)
<1>0. Winner \in Side /\ loser \in Side
  BY Sides, PhotoAssumptions DEF PhotoAssumptions
<1>1. \A s \in Side : snap[s] \in AnyCard /\ snap[s].photo \in AnyPhoto /\ snap[s].text \in Text \cup {None}
  BY DEF Types, AnyCard
<1>2. ASSUME present # {}, present # Side,
             NEW s \in present, o = Writing(Other(s), snap[s].text, copy(s).push, None, copy(s).photos)
      PROVE  Planable(o)
  <2> DEFINE source == Current(snap[s].photo, Untracked)
  <2>1. s \in Side /\ Other(s) \in Side /\ Other(Other(s)) = s /\ snap[s].text \in Text
    BY <1>1, Sides DEF Present
  <2>2. /\ source \in AnyNow
        /\ source.hash = snap[s].photo.pic /\ source.uri = snap[s].photo.uri
        /\ source.bytes => source.hash # None
    BY <2>1, CurrentFacts, UntrackedFits
  <2>3. Other(s) = "fastmail" => source.uri <= clock /\ UriIs(source.uri, source.hash)
    BY <2>1, <2>2, Sides DEF SnapTells, Fresh
  <2> HIDE DEF source
  <2>4. Planable(Writing(Other(s), snap[s].text, CopyPhoto(Other(s), source).push, None,
                         CopyPhoto(Other(s), source).photos))
    BY <2>1, <2>2, <2>3, CopyFits
  <2> QED BY <1>2, <2>4 DEF source
<1>3. ASSUME present = Side, o = Saving("adopt", snap["icloud"].text, Untracked)
      PROVE  Planable(o)
  <2>1. Untracked.uri <= clock
    BY NoUriIsOld DEF Untracked
  <2>2. Planable(Planning("adopt", None, snap["icloud"].text, None, None, Untracked))
    BY <1>1, <2>1, SavingFits, UntrackedFits, Sides
  <2> QED BY <1>3, <2>2 DEF Saving
<1>4. ASSUME present = Side,
             o = Writing(loser, snap[Winner].text, Apply(loser, Keep, snap[loser].photo), None, Untracked)
      PROVE  Planable(o)
  <2> DEFINE push == Apply(loser, Keep, snap[loser].photo)
  <2>1. Untracked.uri <= clock
    BY NoUriIsOld DEF Untracked
  <2>2. Keep \in Act /\ Keep.do = "keep"
    BY DEF Keep, Act
  <2>3. push \in AnyPush /\ push.photo = snap[loser].photo /\ push.change # "set"
    BY <1>0, <1>1, <2>2, ApplyFacts DEF Act
  <2>4. loser = "fastmail" => snap[loser].photo.uri = NoUri
    BY DEF SnapTells, CardFits, Side
  <2>5. snap[Winner].text \in Text
    BY <1>0, <1>1, <1>4 DEF Present
  <2> HIDE DEF push, loser
  <2>6. Sendable(loser, push)
    BY <1>0, <2>3, <2>4 DEF Sendable, Side
  <2>7. Planable(Writing(loser, snap[Winner].text, push, None, Untracked))
    BY <1>0, <2>1, <2>3, <2>5, <2>6, WritingFits, UntrackedFits
  <2> QED BY <1>4, <2>7 DEF push
<1>5. o \in IF present = {} THEN {}
            ELSE IF present # Side
            THEN {Writing(Other(s), snap[s].text, copy(s).push, None, copy(s).photos) : s \in present}
            ELSE IF snap["icloud"].text = snap["fastmail"].text
            THEN {Saving("adopt", snap["icloud"].text, Untracked)}
            ELSE {Writing(loser, snap[Winner].text, Apply(loser, Keep, snap[loser].photo), None, Untracked)}
  BY Zenon DEF PairCards
<1> HIDE DEF present, copy, loser
<1>6. \/ present # {} /\ present # Side /\ \E s \in present :
            o = Writing(Other(s), snap[s].text, copy(s).push, None, copy(s).photos)
      \/ present = Side /\ o = Saving("adopt", snap["icloud"].text, Untracked)
      \/ present = Side
         /\ o = Writing(loser, snap[Winner].text, Apply(loser, Keep, snap[loser].photo), None, Untracked)
  BY <1>5
<1> QED BY <1>2, <1>3, <1>4, <1>6

\* The operations of a contact of which only the photo moved.
LEMMA PhotoOnlyFits ==
    ASSUME Types, Fresh, RowTells, SnapTells, NoGaps, pc = "plan", row # None,
           NEW text \in Text \cup {None}, NEW refreshed \in BOOLEAN,
           \A s \in Side : Present(snap[s]), NEW o \in PhotoOnly(text, refreshed)
    PROVE  Planable(o)
<1> DEFINE plan == PhotoPlan(Rec, Now)
           to == {s \in Side : plan[s] # Keep}
           push == [s \in Side |-> None]
           next == NextState(Rec, Now, plan, push)
           target == [s \in Side |-> snap[s].photo]
<1>1. \A s \in Side : snap[s].text \in Text /\ snap[s].photo \in AnyPhoto
  BY DEF Types, AnyCard, Present
<1>2. o \in IF to # {} THEN {Push(s, snap[s].text) : s \in {s \in to : Fetched(s)}}
            ELSE IF refreshed \/ next # Rec THEN {Saving("refresh", text, next)}
            ELSE {}
  BY DEF PhotoOnly
<1>3. ASSUME NEW s \in Side, o = Push(s, snap[s].text)
      PROVE  Planable(o)
  BY <1>1, <1>3, PushFits
<1>4. ASSUME to = {}, o = Saving("refresh", text, next)
      PROVE  Planable(o)
  <2>1. Rec \in PhotoState /\ NoGap(Rec)
    BY RecFits DEF NoGaps
  <2>2. /\ Now \in [Side -> AnyNow]
        /\ \A s \in Side : /\ Now[s].hash = snap[s].photo.pic
                           /\ Now[s].bytes => Now[s].hash # None
        /\ UriIs(Now["icloud"].uri, Now["icloud"].hash) /\ Now["icloud"].uri <= clock
        /\ \A l \in Leader(Rec, Now) : Now[l].hash # None /\ ~ Now[l].bytes => Now[l].hash \in Odd
    BY NowFacts
  <2>3. \A s \in Side : plan[s] = Keep /\ push[s] = None
    BY <1>4
  <2>4. target \in [Side -> AnyPhoto] /\ push \in [Side -> AnyPush \cup {None}]
    BY <1>1
  <2> HIDE DEF push, target
  <2>5. /\ next \in PhotoState /\ next.tracked
        /\ \A s \in Side : next[s] = IF push[s] # None THEN push[s].photo.pic ELSE Now[s].hash
        /\ \/ next.uri = NoUri
           \/ next.uri = Now["icloud"].uri /\ next.icloud = Now["icloud"].hash
    BY <2>1, <2>2, <2>3, <2>4, NextFacts
  <2>6. NoGap(next)
    BY <2>1, <2>2, <2>3, <2>4, PlanFills
  <2> HIDE DEF next
  <2>7. UriIs(next.uri, next.icloud) /\ next.uri <= clock
    BY <2>2, <2>5, NoUriIsOld DEF UriIs
  <2>8. \A s \in Side : next[s] = snap[s].photo.pic
    BY <2>2, <2>3, <2>5
  <2>9. Planable(Planning("refresh", None, text, None, None, next))
    BY <2>5, <2>6, <2>7, <2>8, SavingFits
  <2> QED BY <1>4, <2>9 DEF Saving
<1> HIDE DEF to, next
<1>5. to \subseteq Side
  BY DEF to
<1> QED BY <1>2, <1>3, <1>4, <1>5

\* The operations of a contact both sides changed.
LEMMA MergeFits ==
    ASSUME Types, Fresh, RowTells, SnapTells, NoGaps, pc = "plan", row # None, NEW o \in Merge
    PROVE  Planable(o)
<1> DEFINE edited == {s \in Side : Edited(s)}
           gone == {s \in Side : ~ Present(snap[s])}
           agreed == edited = Side /\ snap["icloud"].text = snap["fastmail"].text
<1>0. Winner \in Side /\ Other(Winner) \in Side
  BY Sides, PhotoAssumptions DEF PhotoAssumptions
<1>1. /\ \A s \in Side : snap[s] \in AnyCard /\ snap[s].text \in Text \cup {None}
      /\ row.text \in Text \cup {None}
      /\ Untracked.uri <= clock
  BY NoUriIsOld DEF Types, AnyCard, AnyRow, Untracked
<1>2. ASSUME o = Saving("forget", None, Untracked)
      PROVE  Planable(o)
  <2>1. Planable(Planning("forget", None, None, None, None, Untracked))
    BY <1>1, SavingFits, UntrackedFits
  <2> QED BY <1>2, <2>1 DEF Saving
<1>3. ASSUME gone # Side, NEW s \in gone, o = Resurrect(s)
      PROVE  Planable(o)
  <2> DEFINE source == Now[Other(s)]
  <2>1. s \in Side /\ Other(s) \in Side /\ snap[Other(s)].text \in Text
    BY <1>1, <1>3, Sides DEF Present
  <2>2. source \in AnyNow /\ source.hash = snap[Other(s)].photo.pic /\ (source.bytes => source.hash # None)
    BY <2>1, NowFacts
  <2>3. s = "fastmail" => source.uri <= clock /\ UriIs(source.uri, source.hash)
    BY NowFacts, Sides
  <2>4. o = Writing(s, snap[Other(s)].text, CopyPhoto(s, source).push, None, CopyPhoto(s, source).photos)
    BY <1>3 DEF Resurrect
  <2> HIDE DEF source
  <2> QED BY <2>1, <2>2, <2>3, <2>4, CopyFits
<1>4. ASSUME NEW s \in gone, o = Deleting(Other(s))
      PROVE  Planable(o)
  <2>1. Other(s) \in Side
    BY Sides
  <2>2. Planable(Planning("delete", Other(s), None, None, None, Untracked))
    BY <1>1, <2>1, SavingFits, UntrackedFits
  <2> QED BY <1>4, <2>2 DEF Deleting
<1>5. ASSUME gone = {}, NEW text \in Text \cup {None}, NEW refreshed \in BOOLEAN, o \in PhotoOnly(text, refreshed)
      PROVE  Planable(o)
  BY <1>5, PhotoOnlyFits
<1>6. ASSUME gone = {}, NEW s \in Side, o = Push(Other(s), snap[s].text)
      PROVE  Planable(o)
  <2>1. Other(s) \in Side /\ snap[s].text \in Text /\ \A r \in Side : Present(snap[r])
    BY <1>1, <1>6, Sides DEF Present
  <2> QED BY <1>6, <2>1, PushFits
<1>7. o \in IF gone = Side THEN {Saving("forget", None, Untracked)}
            ELSE IF edited # {} /\ gone # {} THEN {Resurrect(s) : s \in gone}
            ELSE IF gone # {} THEN {Deleting(Other(s)) : s \in gone}
            ELSE IF agreed THEN PhotoOnly(snap["icloud"].text, TRUE)
            ELSE IF edited = Side THEN {Push(Other(Winner), snap[Winner].text)}
            ELSE IF edited # {} THEN {Push(Other(s), snap[s].text) : s \in edited}
            ELSE PhotoOnly(row.text, \E s \in Side : Fetched(s))
  BY Zenon DEF Merge
<1>8. edited \subseteq Side /\ (\E s \in Side : Fetched(s)) \in BOOLEAN /\ snap["icloud"].text \in Text \cup {None}
  BY <1>1, Sides
<1> HIDE DEF edited, gone, agreed
<1>9. CASE gone = Side
  BY <1>2, <1>7, <1>9
<1>10. CASE gone # Side /\ edited # {} /\ gone # {}
  BY <1>3, <1>7, <1>10
<1>11. CASE gone # Side /\ edited = {} /\ gone # {}
  BY <1>4, <1>7, <1>11
<1>12. CASE gone # Side /\ gone = {} /\ agreed
  BY <1>5, <1>7, <1>8, <1>12
<1>13. CASE gone # Side /\ gone = {} /\ ~ agreed /\ edited = Side
  BY <1>0, <1>6, <1>7, <1>13
<1>14. CASE gone # Side /\ gone = {} /\ ~ agreed /\ edited # Side /\ edited # {}
  BY <1>6, <1>7, <1>8, <1>14
<1>15. CASE gone # Side /\ gone = {} /\ ~ agreed /\ edited # Side /\ edited = {}
  <2>1. o \in PhotoOnly(row.text, \E s \in Side : Fetched(s))
    BY <1>7, <1>15
  <2> QED BY <1>1, <1>5, <1>8, <1>15, <2>1
<1> QED BY <1>9, <1>10, <1>11, <1>12, <1>13, <1>14, <1>15

\* Every operation the planner makes tells the truth of what it saves.
LEMMA PlannedFits ==
    ASSUME Types, Fresh, RowTells, SnapTells, NoGaps, pc = "plan", NEW o \in Planned
    PROVE  Planable(o)
BY PairCardsFit, MergeFits DEF Planned

(***************************************************************************)
(* A card is written, by a person or the daemon: it gets a version nobody  *)
(* has seen, and a photo nobody has seen or the one it had.                *)
(***************************************************************************)
CardChanges(s, new) ==
    /\ card' = [card EXCEPT ![s] = new]
    /\ clock' = clock + 1 /\ new.ver = clock + 1
    /\ new \in AnyCard /\ CardFits(s, new)
    /\ new.photo.uri \in {NoUri, clock + 1} \/ new.photo = card[s].photo

\* A card that changes gets a version and a URI no one has seen.
LEMMA ChangeFacts ==
    ASSUME Types, Fresh, NEW s \in Side, NEW new, CardChanges(s, new)
    PROVE  /\ card' \in [Side -> AnyCard]
           /\ clock' = clock + 1 /\ clock' \in Nat /\ clock' >= 2
           /\ card'[s] = new
           /\ \A r \in Side : r # s => card'[r] = card[r]
           /\ \A r \in Side : /\ card'[r].ver <= clock' /\ card'[r].photo.uri <= clock'
                              /\ CardFits(r, card'[r])
                              /\ card[r].ver <= card'[r].ver
           /\ \A r \in Side : \A v \in Nat : v <= clock /\ card'[r].ver = v => card'[r] = card[r]
           /\ \A u \in Nat : \A p : u <= clock /\ UriIs(u, p) => UriIs(u, p)'
<1> DEFINE k == clock + 1
<1>1. /\ k \in Nat /\ k >= 2 /\ clock < k /\ clock \in Nat /\ NoUri <= k
  BY DEF Types, NoUri
<1>2. clock' = k /\ card' = [card EXCEPT ![s] = new] /\ new.ver = k
  BY DEF CardChanges
<1>3. /\ card'[s] = new /\ \A r \in Side : r # s => card'[r] = card[r]
      /\ card' \in [Side -> AnyCard]
  BY <1>2 DEF CardChanges, Types
<1>4. \A r \in Side : /\ card[r].ver \in Nat /\ card[r].photo.uri \in Nat
                      /\ card[r].ver <= clock /\ card[r].photo.uri <= clock /\ CardFits(r, card[r])
  BY DEF Types, AnyCard, AnyPhoto, Fresh
<1>5. CardFits(s, new) /\ new.photo.uri \in Nat /\ (new.photo.uri \in {NoUri, k} \/ new.photo = card[s].photo)
  BY DEF CardChanges, AnyCard, AnyPhoto
<1> HIDE DEF k
<1>6. \A n \in Nat : n <= clock => n <= k
  BY <1>1
<1>7. ASSUME NEW r \in Side
      PROVE  /\ card'[r].ver <= k /\ card'[r].photo.uri <= k
             /\ CardFits(r, card'[r])
             /\ card[r].ver <= card'[r].ver
  <2>1. CASE r = s
    <3>1. new.ver <= k /\ card[s].ver <= new.ver
      BY <1>1, <1>2, <1>4, <1>6
    <3>2. new.photo.uri <= k
      BY <1>1, <1>4, <1>5, <1>6
    <3> QED BY <1>3, <1>5, <2>1, <3>1, <3>2
  <2>2. CASE r # s
    <3>1. card[r].ver <= k /\ card[r].photo.uri <= k /\ card[r].ver <= card[r].ver
      BY <1>4, <1>6
    <3> QED BY <1>3, <1>4, <2>2, <3>1
  <2> QED BY <2>1, <2>2
<1>8. \A v \in Nat : v <= clock => v # k
  BY <1>1
<1>9. ASSUME NEW r \in Side, NEW v \in Nat, v <= clock, card'[r].ver = v
      PROVE  card'[r] = card[r]
  BY <1>2, <1>3, <1>8, <1>9
<1>10. ASSUME NEW u \in Nat, NEW p, u <= clock, UriIs(u, p)
       PROVE  UriIs(u, p)'
  <2>1. CASE s = "icloud"
    <3>1. u # k
      BY <1>8, <1>10
    <3>2. u # NoUri /\ new.photo.uri = u => new.photo = card[s].photo
      BY <1>5, <3>1
    <3>3. card'["icloud"] = new
      BY <1>3, <2>1
    <3> QED BY <1>10, <2>1, <3>2, <3>3 DEF UriIs
  <2>2. CASE s = "fastmail"
    <3>1. card'["icloud"] = card["icloud"]
      BY <1>3, <2>2, Sides
    <3> QED BY <1>10, <3>1 DEF UriIs
  <2> QED BY <2>1, <2>2 DEF Side
<1>11. clock' = clock + 1
  BY <1>2 DEF k
<1> QED BY <1>1, <1>2, <1>3, <1>7, <1>9, <1>10, <1>11

\* What is known of a card before it changes is so after.
LEMMA ChangeTells ==
    ASSUME IInv, NEW s \in Side, NEW new, CardChanges(s, new)
    PROVE  /\ \A n \in Nat : n <= clock => n <= clock'
           /\ \A r \in Side : /\ token[r] <= card'[r].ver
                              /\ token[r] = card'[r].ver => card'[r] = card[r]
           /\ row # None => /\ row.photo.uri \in Nat /\ row.photo.uri <= clock
                            /\ row.photo.uri <= clock'
                            /\ \A r \in Side : row.ver[r] <= clock'
           /\ pc # "wait" => \A r \in Side :
                 /\ snap[r].ver \in Nat /\ snap[r].ver <= clock
                 /\ snap[r].photo.uri \in Nat /\ snap[r].photo.uri <= clock
                 /\ snap[r].photo.uri <= clock'
                 /\ token[r] <= snap[r].ver /\ snap[r].ver <= card'[r].ver
                 /\ card'[r].ver = snap[r].ver => card'[r] = snap[r]
           /\ Busy => /\ op.photos.uri \in Nat /\ op.photos.uri <= clock
                      /\ op.photos.uri <= clock' /\ op.uri <= clock'
                      /\ \A r \in Side : /\ op.ver[r] \in Nat /\ op.ver[r] <= clock
                                         /\ op.ver[r] <= clock'
                                         /\ op.ver[r] <= card[r].ver => op.ver[r] <= card'[r].ver
           /\ row' = row => RowTells'
           /\ pc # "wait" /\ UNCHANGED <<row, snap, pc>> => SnapTells'
<1>0. Types /\ Fresh /\ RowTells /\ SnapTells
  BY DEF IInv
<1>1. /\ card' \in [Side -> AnyCard] /\ clock' = clock + 1 /\ clock' \in Nat
      /\ \A r \in Side : card'[r].ver <= clock' /\ card[r].ver <= card'[r].ver
      /\ \A r \in Side : \A v \in Nat : v <= clock /\ card'[r].ver = v => card'[r] = card[r]
      /\ \A u \in Nat : \A p : u <= clock /\ UriIs(u, p) => UriIs(u, p)'
  BY <1>0, ChangeFacts
<1>2. \A l, m, n \in Nat : l <= m /\ m <= n => l <= n
  OBVIOUS
<1>3. clock \in Nat /\ \A n \in Nat : n <= clock => n <= clock'
  BY <1>0, <1>1 DEF Types
<1>4. \A r \in Side : card[r].ver \in Nat /\ card'[r].ver \in Nat /\ card[r].ver <= clock
                      /\ token[r] \in Nat /\ token[r] <= card[r].ver
  BY <1>0, <1>1 DEF Types, AnyCard, Fresh
<1>5. \A r \in Side : token[r] <= clock /\ token[r] <= card'[r].ver
  BY <1>1, <1>2, <1>3, <1>4
<1>6. row # None => /\ row.photo.uri \in Nat /\ row.photo.uri <= clock
                    /\ \A r \in Side : row.ver[r] \in Nat /\ row.ver[r] <= clock
  BY <1>0 DEF Types, Fresh, AnyRow, PhotoState
<1>7. pc # "wait" => \A r \in Side :
          /\ snap[r].ver \in Nat /\ snap[r].ver <= card[r].ver /\ token[r] <= snap[r].ver
          /\ snap[r].photo.uri \in Nat /\ snap[r].photo.uri <= clock
          /\ card[r].ver = snap[r].ver => card[r] = snap[r]
  BY <1>0 DEF Types, AnyCard, AnyPhoto, Fresh, SnapTells
<1>8. pc # "wait" => \A r \in Side : /\ snap[r].ver <= clock /\ snap[r].ver <= card'[r].ver
                                     /\ card'[r].ver = snap[r].ver => card'[r] = snap[r]
  <2> SUFFICES ASSUME pc # "wait", NEW r \in Side
               PROVE  /\ snap[r].ver <= clock /\ snap[r].ver <= card'[r].ver
                      /\ card'[r].ver = snap[r].ver => card'[r] = snap[r]
    OBVIOUS
  <2>1. snap[r].ver <= clock /\ snap[r].ver <= card'[r].ver
    BY <1>1, <1>2, <1>3, <1>4, <1>7
  <2>2. ASSUME card'[r].ver = snap[r].ver PROVE card'[r] = snap[r]
    BY <1>1, <1>7, <2>1, <2>2
  <2> QED BY <2>1, <2>2
<1>9. Busy => /\ op.photos.uri \in Nat /\ op.photos.uri <= clock /\ op.uri \in Nat /\ op.uri <= clock
              /\ \A r \in Side : op.ver[r] \in Nat /\ op.ver[r] <= clock
  BY <1>0 DEF Types, Fresh, AnyOp, PhotoState
<1>10. Busy => \A r \in Side : op.ver[r] <= card[r].ver => op.ver[r] <= card'[r].ver
  BY <1>1, <1>2, <1>4, <1>9
<1>11. row' = row => RowTells'
  BY <1>0, <1>1, <1>6 DEF RowTells
<1>12. ASSUME pc # "wait", UNCHANGED <<row, snap, pc>>
       PROVE  SnapTells'
  <2>1. \A r \in Side : card'[r].ver = snap[r].ver => card'[r] = snap[r]
    BY <1>8, <1>12
  <2>2. UriIs(snap["icloud"].photo.uri, snap["icloud"].photo.pic)'
    <3> DEFINE u == snap["icloud"].photo.uri
               p == snap["icloud"].photo.pic
    <3>1. u \in Nat /\ u <= clock /\ UriIs(u, p)
      BY <1>0, <1>7, <1>12, Sides DEF SnapTells
    <3>2. u' = u /\ p' = p
      BY <1>12
    <3> HIDE DEF u, p
    <3>3. UriIs(u, p)'
      BY <1>1, <3>1, <3>2 DEF UriIs
    <3> QED BY <3>3 DEF u, p
  <2> QED BY <1>0, <1>12, <2>1, <2>2 DEF SnapTells
<1>13. row # None => /\ row.photo.uri <= clock' /\ \A r \in Side : row.ver[r] <= clock'
  BY <1>3, <1>6
<1>14. pc # "wait" => \A r \in Side : snap[r].photo.uri <= clock'
  BY <1>3, <1>7
<1>15. Busy => /\ op.photos.uri <= clock' /\ op.uri <= clock'
               /\ \A r \in Side : op.ver[r] <= clock'
  BY <1>3, <1>9
<1>16. \A r \in Side : token[r] = card'[r].ver => card'[r] = card[r]
  BY <1>1, <1>4, <1>5
<1> QED BY <1>3, <1>5, <1>6, <1>7, <1>8, <1>9, <1>10, <1>11, <1>12, <1>13, <1>14, <1>15, <1>16

\* A deletion is a change of a card.
LEMMA GoneChanges ==
    ASSUME Types, NEW s \in Side, clock' = clock + 1,
           card' = [card EXCEPT ![s] = Gone(clock + 1)]
    PROVE  CardChanges(s, Gone(clock + 1)) /\ Gone(clock + 1) \in AnyCard
<1> DEFINE new == Gone(clock + 1)
<1>1. new = [text |-> None, photo |-> NoPhoto, ver |-> clock + 1]
  BY DEF Gone, Card
<1>2. clock + 1 \in Nat
  BY DEF Types
<1>3. new \in AnyCard
  BY <1>1, <1>2, UntrackedFits DEF AnyCard
<1>4. new.text = None /\ new.photo = NoPhoto /\ new.ver = clock + 1
  BY <1>1
<1>5. NoPhoto.uri = NoUri /\ NoPhoto.pic = None
  BY DEF NoPhoto, Photo
<1>6. card' = [card EXCEPT ![s] = new]
  OBVIOUS
<1> HIDE DEF new
<1>7. CardFits(s, new)
  BY <1>4, <1>5 DEF CardFits
<1>8. CardChanges(s, new)
  BY <1>3, <1>4, <1>5, <1>6, <1>7 DEF CardChanges
<1> QED BY <1>3, <1>8 DEF new

\* What people do is a change of one card, never between PUT and read-back.
LEMMA EditChanges ==
    ASSUME Types, Fresh, People, ~ EditsAtReadBack
    PROVE  /\ \E s \in Side, new \in AnyCard : CardChanges(s, new)
           /\ UNCHANGED <<row, token, failing, pc, snap, op, faults>>
           /\ pc # "readback"
<1>1. None \notin Text /\ None \notin Picture /\ UserPics \subseteq Picture
  BY CycleAssumption, PhotoAssumptions DEF CycleAssumption, PhotoAssumptions
<1>2. \A s \in Side : /\ card[s] \in AnyCard /\ card[s].text \in Text \cup {None}
                      /\ card[s].photo \in AnyPhoto /\ CardFits(s, card[s])
  BY DEF Types, AnyCard, Fresh
<1>3. /\ clock + 1 \in Nat /\ NoUri \in Nat /\ "icloud" \in Side /\ clock + 1 # NoUri
      /\ card \in [Side -> AnyCard]
  BY Sides DEF Types, NoUri
<1>4. ASSUME NEW what, NEW s, Edit(what, s)
      PROVE  /\ clock' = clock + 1 /\ Present(card[s])
             /\ UNCHANGED <<row, token, failing, pc, snap, op, faults>>
             /\ pc # "readback"
  BY <1>4 DEF Edit, cycle
<1>5. ASSUME NEW text \in Text, NEW photo \in AnyPhoto, NEW s \in Side,
             clock' = clock + 1, card' = [card EXCEPT ![s] = Card(text, photo, clock + 1)],
             s = "fastmail" => photo.uri = NoUri,
             photo.uri # NoUri => photo.pic # None,
             photo.uri \in {NoUri, clock + 1} \/ photo = card[s].photo
      PROVE  \E r \in Side, new \in AnyCard : CardChanges(r, new)
  <2> DEFINE new == Card(text, photo, clock + 1)
  <2>1. new = [text |-> text, photo |-> photo, ver |-> clock + 1]
    BY DEF Card
  <2>2. new \in AnyCard
    BY <1>3, <2>1 DEF AnyCard
  <2>3. new.text = text /\ new.photo = photo /\ new.ver = clock + 1
    BY <2>1
  <2> HIDE DEF new
  <2>4. CardFits(s, new)
    BY <1>1, <1>5, <2>3 DEF CardFits
  <2>5. card' = [card EXCEPT ![s] = new]
    BY <1>5 DEF new
  <2>6. CardChanges(s, new)
    BY <1>5, <2>2, <2>3, <2>4, <2>5 DEF CardChanges
  <2> QED BY <2>2, <2>6
<1>6. CASE NewUri
  <2> DEFINE photo == Photo(card["icloud"].photo.pic, clock + 1)
  <2>1. Edit("uri", "icloud") /\ card["icloud"].photo.uri # NoUri
    BY <1>6 DEF NewUri
  <2>2. clock' = clock + 1 /\ Present(card["icloud"])
    BY <1>4, <2>1
  <2>3. card' = [card EXCEPT !["icloud"] = Card(card["icloud"].text, photo, clock + 1)]
    BY <1>6, <2>2 DEF NewUri
  <2>4. photo \in AnyPhoto /\ photo.uri = clock + 1 /\ photo.pic = card["icloud"].photo.pic
    BY <1>2, <1>3 DEF Photo, AnyPhoto
  <2>5. photo.pic # None
    BY <1>2, <1>3, <2>1, <2>4 DEF CardFits
  <2> HIDE DEF photo
  <2>6. card["icloud"].text \in Text /\ "icloud" # "fastmail"
    BY <1>2, <1>3, <2>2 DEF Present
  <2> QED BY <1>3, <1>4, <1>5, <2>1, <2>2, <2>3, <2>4, <2>5, <2>6
<1>7. ASSUME NEW s \in Side, EditText(s)
      PROVE  \E r \in Side, new \in AnyCard : CardChanges(r, new)
  <2>1. Edit("text", s)
    BY <1>7 DEF EditText
  <2>2. clock' = clock + 1
    BY <1>4, <2>1
  <2>3. PICK t \in Text : card' = [card EXCEPT ![s] = Card(t, card[s].photo, clock + 1)]
    BY <1>7, <2>2 DEF EditText
  <2> QED BY <1>2, <1>5, <2>2, <2>3 DEF CardFits
<1>8. ASSUME NEW s \in Side, SetPhoto(s)
      PROVE  \E r \in Side, new \in AnyCard : CardChanges(r, new)
  <2>1. Edit("photo", s)
    BY <1>8 DEF SetPhoto
  <2>2. clock' = clock + 1 /\ Present(card[s])
    BY <1>4, <2>1
  <2>3. PICK p \in UserPics : card' = [card EXCEPT ![s] =
            Card(card[s].text, Photo(p, IF s = "icloud" /\ p \notin Odd THEN clock + 1 ELSE NoUri), clock + 1)]
    BY <1>8, <2>2 DEF SetPhoto
  <2> DEFINE photo == Photo(p, IF s = "icloud" /\ p \notin Odd THEN clock + 1 ELSE NoUri)
  <2>4. /\ photo \in AnyPhoto /\ photo.pic = p /\ photo.uri \in {NoUri, clock + 1}
        /\ s = "fastmail" => photo.uri = NoUri
    BY <1>1, <1>3 DEF Photo, AnyPhoto
  <2>5. card[s].text \in Text /\ p # None
    BY <1>1, <1>2, <2>2 DEF Present
  <2>6. card' = [card EXCEPT ![s] = Card(card[s].text, photo, clock + 1)]
    BY <2>3
  <2> HIDE DEF photo
  <2> QED BY <1>5, <2>2, <2>4, <2>5, <2>6
<1>9. ASSUME NEW s \in Side, RemovePhoto(s)
      PROVE  \E r \in Side, new \in AnyCard : CardChanges(r, new)
  <2>1. Edit("remove", s)
    BY <1>9 DEF RemovePhoto
  <2>2. clock' = clock + 1 /\ Present(card[s])
    BY <1>4, <2>1
  <2>3. card' = [card EXCEPT ![s] = Card(card[s].text, NoPhoto, clock + 1)]
    BY <1>9, <2>2 DEF RemovePhoto
  <2>4. card[s].text \in Text /\ NoPhoto \in AnyPhoto /\ NoPhoto.uri = NoUri
    BY <1>2, <2>2, UntrackedFits DEF Present, NoPhoto, Photo
  <2> QED BY <1>5, <2>2, <2>3, <2>4
<1>10. ASSUME NEW s \in Side, DeleteCard(s)
       PROVE  \E r \in Side, new \in AnyCard : CardChanges(r, new)
  <2>1. Edit("delete", s)
    BY <1>10 DEF DeleteCard
  <2>2. clock' = clock + 1
    BY <1>4, <2>1
  <2>3. card' = [card EXCEPT ![s] = Gone(clock + 1)]
    BY <1>10, <2>2 DEF DeleteCard
  <2>4. CardChanges(s, Gone(clock + 1)) /\ Gone(clock + 1) \in AnyCard
    BY <2>2, <2>3, GoneChanges
  <2> QED BY <2>4
<1>11. UNCHANGED <<row, token, failing, pc, snap, op, faults>> /\ pc # "readback"
  BY <1>4 DEF People, NewUri, EditText, SetPhoto, RemovePhoto, DeleteCard
<1>12. NewUri \/ \E s \in Side : EditText(s) \/ SetPhoto(s) \/ RemovePhoto(s) \/ DeleteCard(s)
  BY DEF People
<1> QED BY <1>6, <1>7, <1>8, <1>9, <1>10, <1>11, <1>12

\* What a row will record once the write was read back.
LEMMA LandedFits ==
    ASSUME NEW ph \in PhotoState, NEW landed, NEW uri \in Nat
    PROVE  LET final == Landed(ph, landed, uri)
           IN  /\ final \in PhotoState /\ final.fastmail = ph.fastmail
               /\ final.tracked = ph.tracked
               /\ final.uri \in {ph.uri, uri, NoUri}
               /\ landed # "dropped" => final.icloud = ph.icloud /\ final.stripped = ph.stripped
               /\ landed = "dropped" => final.icloud = None /\ final.stripped /\ final.uri = NoUri
               /\ landed = "uri" => final.uri = uri
               /\ landed \notin {"uri", "dropped"} => final = ph
<1>1. ph = [uri |-> ph.uri, icloud |-> ph.icloud, fastmail |-> ph.fastmail,
            stripped |-> ph.stripped, tracked |-> ph.tracked]
      /\ ph.uri \in Nat /\ ph.icloud \in Picture \cup {None} /\ ph.fastmail \in Picture \cup {None}
      /\ ph.stripped \in BOOLEAN /\ ph.tracked \in BOOLEAN /\ NoUri \in Nat
  BY DEF PhotoState, NoUri
<1> DEFINE final == Landed(ph, landed, uri)
<1>2. CASE landed = "uri"
  <2>1. final = [ph EXCEPT !.uri = uri]
    BY <1>2 DEF Landed
  <2>2. final = [uri |-> uri, icloud |-> ph.icloud, fastmail |-> ph.fastmail,
                 stripped |-> ph.stripped, tracked |-> ph.tracked]
    BY <1>1, <2>1
  <2> HIDE DEF final
  <2>3. final \in PhotoState
    BY <1>1, <2>2 DEF PhotoState
  <2> QED BY <1>2, <2>2, <2>3 DEF final
<1>3. CASE landed = "dropped"
  <2>1. final = [ph EXCEPT !.uri = NoUri, !.icloud = None, !.stripped = TRUE]
    BY <1>3 DEF Landed
  <2>2. final = [uri |-> NoUri, icloud |-> None, fastmail |-> ph.fastmail,
                 stripped |-> TRUE, tracked |-> ph.tracked]
    BY <1>1, <2>1
  <2> HIDE DEF final
  <2>3. final \in PhotoState
    BY <1>1, <2>2 DEF PhotoState
  <2> QED BY <1>3, <2>2, <2>3 DEF final
<1>4. CASE landed \notin {"uri", "dropped"}
  <2>1. final = ph
    BY <1>4 DEF Landed
  <2> QED BY <1>4, <2>1
<1> QED BY <1>2, <1>3, <1>4

\* The record an operation saves.
LEMMA FinalFits ==
    ASSUME Types, Busy
    PROVE  /\ Final \in PhotoState /\ Final.fastmail = op.photos.fastmail
           /\ Final.tracked = op.photos.tracked
           /\ Final.uri \in {op.photos.uri, op.uri, NoUri}
           /\ op.landed # "dropped" => Final.icloud = op.photos.icloud /\ Final.stripped = op.photos.stripped
           /\ op.landed = "dropped" => Final.icloud = None /\ Final.stripped /\ Final.uri = NoUri
<1>1. op.photos \in PhotoState /\ op.uri \in Nat
  BY DEF Types, AnyOp
<1> QED BY <1>1, LandedFits DEF Final

\* People's edits keep IInv.
LEMMA PeopleKeep ==
    ASSUME IInv, People, ~ EditsAtReadBack
    PROVE  IInv'
<1>0. Types /\ Fresh /\ RowTells /\ SnapTells /\ OpTells /\ TokensTell /\ NoGaps
  BY DEF IInv
<1>1. /\ UNCHANGED <<row, token, failing, pc, snap, op, faults>> /\ pc # "readback"
      /\ \E s \in Side, new \in AnyCard : CardChanges(s, new)
  BY <1>0, EditChanges
<1>2. PICK s \in Side, new \in AnyCard : CardChanges(s, new)
  BY <1>1
<1>3. /\ card' \in [Side -> AnyCard]
      /\ clock' = clock + 1 /\ clock' \in Nat /\ clock' >= 2
      /\ \A r \in Side : /\ card'[r].ver <= clock' /\ card'[r].photo.uri <= clock'
                         /\ CardFits(r, card'[r])
                         /\ card[r].ver <= card'[r].ver
      /\ \A r \in Side : \A v \in Nat : v <= clock /\ card'[r].ver = v => card'[r] = card[r]
      /\ \A u \in Nat : \A p : u <= clock /\ UriIs(u, p) => UriIs(u, p)'
  BY <1>0, <1>2, ChangeFacts
<1>4. /\ \A r \in Side : /\ token[r] <= card'[r].ver
                         /\ token[r] = card'[r].ver => card'[r] = card[r]
      /\ row # None => /\ row.photo.uri <= clock' /\ \A r \in Side : row.ver[r] <= clock'
      /\ pc # "wait" => \A r \in Side : /\ snap[r].photo.uri <= clock'
                                        /\ token[r] <= snap[r].ver /\ snap[r].ver <= card'[r].ver
      /\ Busy => /\ op.photos.uri \in Nat /\ op.photos.uri <= clock
                 /\ op.photos.uri <= clock' /\ op.uri <= clock'
                 /\ \A r \in Side : /\ op.ver[r] \in Nat /\ op.ver[r] <= clock
                                    /\ op.ver[r] <= clock'
                                    /\ op.ver[r] <= card[r].ver => op.ver[r] <= card'[r].ver
      /\ RowTells'
      /\ pc # "wait" => SnapTells'
  BY <1>1, <1>2, ChangeTells
<1>5. Types'
  BY <1>0, <1>1, <1>3 DEF Types, Busy
<1>6. Fresh'
  BY <1>1, <1>3, <1>4 DEF Fresh, Busy
<1>7. SnapTells'
  BY <1>1, <1>4 DEF SnapTells
<1>8. TokensTell'
  BY <1>0, <1>1, <1>4 DEF TokensTell
<1>9. NoGaps'
  BY <1>0, <1>1 DEF NoGaps, NoGap, Busy
<1>10. OpTells'
  <2> SUFFICES ASSUME Busy PROVE OpTells'
    BY <1>1 DEF OpTells, Busy
  <2>1. OpPushes(op)'
    BY <1>0, <1>1, <1>3, <1>4 DEF OpTells, OpPushes, PushTo, Sendable
  <2>2. \A r \in Side : \/ op.ver[r] = snap[r].ver
                        \/ op.ver[r] > snap[r].ver /\ op.ver[r] <= card'[r].ver
    BY <1>0, <1>4 DEF OpTells
  <2>3. Pending' = Pending /\ Final' = Final
    BY <1>1 DEF Pending, Final
  <2>4. op.photos.tracked =>
              \A r \in Side \ Pending : card'[r].ver = op.ver[r] => card'[r].photo.pic = Final[r]
    BY <1>0, <1>3, <1>4 DEF OpTells
  <2>5. pc = "save" /\ op.photos.tracked => UriIs(Final.uri, Final.icloud)'
    <3> HAVE pc = "save" /\ op.photos.tracked
    <3> DEFINE u == Final.uri
               p == Final.icloud
    <3>1. u \in Nat /\ u <= clock
      <4>1. u \in {op.photos.uri, op.uri, NoUri}
        BY <1>0, FinalFits
      <4>2. op.uri \in Nat /\ op.uri <= clock
        BY <1>0 DEF Types, AnyOp, Fresh
      <4> QED BY <1>0, <1>4, <4>1, <4>2, NoUriIsOld
    <3>2. u' = u /\ p' = p
      BY <2>3
    <3>3. UriIs(u, p)
      BY <1>0 DEF OpTells
    <3> HIDE DEF u, p
    <3>4. UriIs(u, p)'
      BY <1>3, <3>1, <3>2, <3>3 DEF UriIs
    <3> QED BY <3>4 DEF u, p
  <2> QED BY <1>0, <1>1, <2>1, <2>2, <2>3, <2>4, <2>5 DEF OpTells, Busy, PushTo
<1> QED BY <1>4, <1>5, <1>6, <1>7, <1>8, <1>9, <1>10 DEF IInv

(***************************************************************************)
(* The daemon's steps.                                                     *)
(***************************************************************************)
LEMMA ReadKeeps ==
    ASSUME IInv, Read
    PROVE  IInv'
<1>0. Types /\ Fresh /\ RowTells /\ SnapTells /\ OpTells /\ TokensTell /\ NoGaps
  BY DEF IInv
<1>1. /\ pc' = "plan" /\ snap' = card
      /\ UNCHANGED <<card, clock, row, token, failing, op, faults>>
  BY DEF Read, NoFault
<1>2. ~ Busy'
  BY <1>1 DEF Busy
<1>3. Types'
  BY <1>0, <1>1, <1>2 DEF Types
<1>4. Fresh'
  <2>1. \A r \in Side : card[r].ver \in Nat /\ card[r].ver <= card[r].ver
    BY <1>0 DEF Types, AnyCard
  <2> QED BY <1>0, <1>1, <1>2, <2>1 DEF Fresh
<1>5. RowTells' /\ TokensTell' /\ NoGaps' /\ OpTells'
  BY <1>0, <1>1, <1>2 DEF RowTells, TokensTell, NoGaps, OpTells, UriIs, NoGap
<1>6. SnapTells'
  <2>1. /\ UriIs(card["icloud"].photo.uri, card["icloud"].photo.pic)
        /\ \A r \in Side : CardFits(r, card[r])
    BY <1>0 DEF UriIs, Fresh
  <2> QED BY <1>0, <1>1, <2>1 DEF SnapTells, RowTells, UriIs
<1> QED BY <1>3, <1>4, <1>5, <1>6 DEF IInv

\* The end of a cycle.
LEMMA EndFacts ==
    ASSUME Types, Fresh, pc # "wait", NEW stored, NEW fails \in BOOLEAN,
           EndCycle(stored, fails)
    PROVE  /\ pc' = "wait" /\ ~ Busy' /\ failing' = fails
           /\ token' \in [Side -> Nat]
           /\ \A s \in Side : /\ token'[s] = (IF stored THEN snap[s].ver ELSE token[s])
                              /\ token'[s] <= card[s].ver
<1>1. pc' = "wait" /\ failing' = fails
      /\ token' = IF stored THEN [s \in Side |-> snap[s].ver] ELSE token
  BY DEF EndCycle
<1>2. token \in [Side -> Nat] /\ \A s \in Side : snap[s].ver \in Nat
  BY DEF Types, AnyCard
<1>3. \A s \in Side : snap[s].ver <= card[s].ver /\ token[s] <= card[s].ver
  BY DEF Fresh
<1> QED BY <1>1, <1>2, <1>3 DEF Busy

\* The end of a cycle keeps IInv.
LEMMA EndKeeps ==
    ASSUME IInv, pc # "wait", NEW stored \in BOOLEAN, NEW fails \in BOOLEAN,
           EndCycle(stored, fails), UNCHANGED <<card, clock, row>>, faults' \subseteq Faults,
           \/ fails
           \/ ~ stored /\ ~ failing
           \/ stored /\ (row # None => \A s \in Side : row.ver[s] = snap[s].ver)
    PROVE  IInv'
<1>0. Types /\ Fresh /\ RowTells /\ SnapTells /\ OpTells /\ TokensTell /\ NoGaps
  BY DEF IInv
<1>1. /\ pc' = "wait" /\ ~ Busy' /\ failing' = fails
      /\ token' \in [Side -> Nat]
      /\ \A s \in Side : /\ token'[s] = (IF stored THEN snap[s].ver ELSE token[s])
                         /\ token'[s] <= card[s].ver
  BY <1>0, EndFacts
<1>2. Types'
  BY <1>0, <1>1 DEF Types
<1>3. Fresh'
  BY <1>0, <1>1 DEF Fresh
<1>4. RowTells' /\ SnapTells' /\ OpTells' /\ NoGaps'
  BY <1>0, <1>1 DEF RowTells, SnapTells, OpTells, NoGaps, UriIs, NoGap
<1>5. TokensTell'
  BY <1>0, <1>1 DEF TokensTell
<1> QED BY <1>2, <1>3, <1>4, <1>5 DEF IInv

\* A cycle with nothing to do read what the row has.
LEMMA NothingPlanned ==
    ASSUME Planned = {}, row # None, NEW s \in Side
    PROVE  row.ver[s] = snap[s].ver
<1> DEFINE gone == {r \in Side : ~ Present(snap[r])}
           edited == {r \in Side : Edited(r)}
           agreed == edited = Side /\ snap["icloud"].text = snap["fastmail"].text
<1>1. {} = IF gone = Side THEN {Saving("forget", None, Untracked)}
           ELSE IF edited # {} /\ gone # {} THEN {Resurrect(r) : r \in gone}
           ELSE IF gone # {} THEN {Deleting(Other(r)) : r \in gone}
           ELSE IF agreed THEN PhotoOnly(snap["icloud"].text, TRUE)
           ELSE IF edited = Side THEN {Push(Other(Winner), snap[Winner].text)}
           ELSE IF edited # {} THEN {Push(Other(r), snap[r].text) : r \in edited}
           ELSE PhotoOnly(row.text, \E r \in Side : Fetched(r))
  BY Zenon DEF Planned, Merge
<1>2. ASSUME NEW text, NEW refreshed \in BOOLEAN, PhotoOnly(text, refreshed) = {},
             gone = {}, \E r \in Side : Fetched(r)
      PROVE  ~ refreshed
  <2> DEFINE plan == PhotoPlan(Rec, Now)
             to == {r \in Side : plan[r] # Keep}
             next == NextState(Rec, Now, plan, [r \in Side |-> None])
  <2>1. \A r \in Side : Fetched(r)
    BY <1>2 DEF Fetched
  <2>2. {} = IF to # {} THEN {Push(r, snap[r].text) : r \in {r \in to : Fetched(r)}}
             ELSE IF refreshed \/ next # Rec THEN {Saving("refresh", text, next)}
             ELSE {}
    BY <1>2, Zenon DEF PhotoOnly
  <2> HIDE DEF next, plan
  <2>3. to = {}
    BY <2>1, <2>2
  <2> QED BY <2>2, <2>3
<1>3. gone = {} /\ edited # Side /\ edited = {} /\ ~ agreed
  <2>1. gone # Side
    BY <1>1
  <2>2. gone = {}
    BY <1>1, <2>1
  <2>3. edited \subseteq Side /\ \A r \in edited : Fetched(r)
    BY DEF Edited
  <2>4. Side # {}
    BY Sides
  <2>5. ~ agreed
    <3> SUFFICES ASSUME agreed PROVE FALSE
      OBVIOUS
    <3>1. PhotoOnly(snap["icloud"].text, TRUE) = {}
      BY <1>1, <2>1, <2>2
    <3>2. \E r \in Side : Fetched(r)
      BY <2>3, <2>4
    <3> HIDE DEF gone
    <3> QED BY <1>2, <2>2, <3>1, <3>2
  <2> HIDE DEF agreed, edited, gone
  <2>6. edited # Side
    BY <1>1, <2>1, <2>2, <2>5
  <2>7. edited = {}
    BY <1>1, <2>1, <2>2, <2>5, <2>6
  <2> QED BY <2>2, <2>5, <2>6, <2>7
<1>4. PhotoOnly(row.text, \E r \in Side : Fetched(r)) = {}
  <2> HIDE DEF gone, edited, agreed
  <2>1. gone # Side
    BY <1>3, Sides
  <2> QED BY <1>1, <1>3, <2>1
<1>5. (\E r \in Side : Fetched(r)) \in BOOLEAN
  OBVIOUS
<1>6. ~ \E r \in Side : Fetched(r)
  <2> HIDE DEF gone
  <2> QED BY <1>2, <1>3, <1>4, <1>5
<1>7. Present(snap[s]) /\ ~ Fetched(s)
  BY <1>3, <1>6
<1> QED BY <1>7 DEF Fetched, Touched

\* A plan keeps IInv.
LEMMA PlanKeeps ==
    ASSUME IInv, Plan
    PROVE  IInv'
<1>0. Types /\ Fresh /\ RowTells /\ SnapTells /\ OpTells /\ TokensTell /\ NoGaps /\ pc = "plan"
  BY DEF IInv, Plan
<1>1. UNCHANGED <<card, clock, row>>
  BY DEF Plan
<1>2. CASE Planned = {} /\ EndCycle(TRUE, FALSE) /\ NoFault
  <2>1. row # None => \A s \in Side : row.ver[s] = snap[s].ver
    BY <1>2, NothingPlanned
  <2>2. faults' \subseteq Faults
    BY <1>0, <1>2 DEF NoFault, Types
  <2> QED BY <1>0, <1>1, <1>2, <2>1, <2>2, EndKeeps
<1>3. CASE Unavailable /\ (EndCycle(TRUE, TRUE) \/ EndCycle(FALSE, failing))
  <2>1. faults' \subseteq Faults /\ failing \in BOOLEAN
    BY <1>0, <1>3 DEF Unavailable, Fault, Types
  <2>2. CASE EndCycle(TRUE, TRUE)
    BY <1>0, <1>1, <2>1, <2>2, EndKeeps
  <2>3. CASE EndCycle(FALSE, failing)
    BY <1>0, <1>1, <2>1, <2>3, EndKeeps
  <2> QED BY <1>3, <2>2, <2>3
<1>4. ASSUME NEW o \in Planned, op' = o, pc' = FirstStep(o),
             UNCHANGED <<token, failing, snap>>, NoFault
      PROVE  IInv'
  <2>1. /\ o \in AnyOp /\ o.landed = None /\ o.uri = NoUri
        /\ o.ver = [s \in Side |-> snap[s].ver]
        /\ OpPushes(o) /\ NoGap(o.photos) /\ o.photos.uri <= clock
    BY <1>0, <1>4, PlannedFits DEF Planable
  <2>2. /\ pc' \in {"main", "delete", "save"}
        /\ pc' = "main" <=> o.kind = "write"
        /\ pc' = "delete" <=> o.kind = "delete"
    BY <1>4 DEF FirstStep
  <2>3. \A s \in Side : o.ver[s] = snap[s].ver /\ snap[s].ver \in Nat /\ snap[s].ver <= clock
    <3>1. \A s \in Side : /\ snap[s].ver \in Nat /\ card[s].ver \in Nat
                          /\ snap[s].ver <= card[s].ver /\ card[s].ver <= clock
      BY <1>0 DEF Types, AnyCard, Fresh
    <3>2. \A l, m, n \in Nat : l <= m /\ m <= n => l <= n
      OBVIOUS
    <3> QED BY <1>0, <2>1, <3>1, <3>2 DEF Types
  <2>4. Types'
    BY <1>0, <1>1, <1>4, <2>1, <2>2 DEF Types, NoFault
  <2>5. Fresh'
    BY <1>0, <1>1, <1>4, <2>1, <2>2, <2>3, NoUriIsOld DEF Fresh
  <2>6. RowTells' /\ SnapTells' /\ TokensTell'
    BY <1>0, <1>1, <1>4, <2>2 DEF RowTells, SnapTells, TokensTell, UriIs
  <2>7. NoGaps'
    BY <1>0, <1>1, <1>4, <2>1 DEF NoGaps, NoGap
  <2>8. OpTells'
    <3>1. OpPushes(op)'
      BY <1>1, <1>4, <2>1 DEF OpPushes, PushTo, Sendable, UriIs
    <3>2. Final' = o.photos
      BY <1>4, <2>1, CycleAssumption DEF Final, Landed, CycleAssumption
    <3>3. o.photos.tracked => \A s \in Side \ Pending' : card[s].ver = o.ver[s] => card[s].photo.pic = o.photos[s]
      <4> SUFFICES ASSUME o.photos.tracked, NEW s \in Side \ Pending', card[s].ver = o.ver[s]
                   PROVE  card[s].photo.pic = o.photos[s]
        OBVIOUS
      <4>1. card[s] = snap[s]
        BY <1>0, <2>3 DEF SnapTells
      <4>2. o.photos[s] = snap[s].photo.pic
        <5>1. CASE o.kind = "write"
          <6>1. s # o.to /\ o.counter = None
            BY <1>4, <2>2, <5>1 DEF Pending
          <6> QED BY <2>1, <6>1 DEF OpPushes, PushTo
        <5>2. CASE o.kind # "write"
          BY <2>1, <5>2 DEF OpPushes
        <5> QED BY <5>1, <5>2
      <4> QED BY <4>1, <4>2
    <3>4. o.photos.tracked => UriIs(o.photos.uri, o.photos.icloud)'
      BY <1>1, <2>1 DEF OpPushes, UriIs
    <3>5. (op.photos.tracked)' = o.photos.tracked /\ (op.photos)' = o.photos /\ op' = o
      BY <1>4
    <3>6. UriIs(Final.uri, Final.icloud)' <=> UriIs(o.photos.uri, o.photos.icloud)'
      BY <1>1, <1>4, <3>2 DEF UriIs
    <3> QED BY <1>1, <1>4, <2>1, <2>2, <2>3, <3>1, <3>2, <3>3, <3>4, <3>5, <3>6 DEF OpTells
  <2> QED BY <2>4, <2>5, <2>6, <2>7, <2>8 DEF IInv
<1> QED BY <1>2, <1>3, <1>4 DEF Plan

\* What a PUT does: the card is new, with the photo sent unless iCloud
\* dropped it.
IsFresh(s, push) == s = "icloud" /\ push.change = "set"

\* A PUT is a change of one card, to the pushed picture or to none.
LEMMA PutChanges ==
    ASSUME IInv, pc # "wait", NEW s \in Side, NEW text \in Text, NEW push \in AnyPush, NEW then,
           Sendable(s, push), Put(s, text, push, then)
    PROVE  \E new \in AnyCard :
              /\ CardChanges(s, new) /\ row' = row
              /\ faults \subseteq faults' /\ faults' \subseteq Faults
              /\ \/ new.photo.pic = push.photo.pic
                 \/ IsFresh(s, push) /\ new.photo.pic = None /\ "drop" \in faults'
              /\ \/ /\ op' = [op EXCEPT !.ver[s] = clock + 1]
                    /\ pc' = IF IsFresh(s, push) THEN "readback" ELSE then
                    /\ UNCHANGED <<token, failing, snap>>
                 \/ EndCycle(FALSE, failing \/ row # None)
<1>0. Types /\ Fresh /\ SnapTells
  BY DEF IInv
<1>1. None \notin Text
  BY CycleAssumption DEF CycleAssumption
<1>2. /\ clock + 1 \in Nat /\ NoUri \in Nat /\ clock + 1 # NoUri /\ card \in [Side -> AnyCard]
      /\ faults \subseteq Faults
  BY <1>0 DEF Types, NoUri
<1> DEFINE sent == push.photo
           fresh == IsFresh(s, push)
           becomes(photo) == card' = [card EXCEPT ![s] = Card(text, photo, clock')]
           answered == /\ op' = [op EXCEPT !.ver[s] = clock']
                       /\ pc' = IF fresh THEN "readback" ELSE then
                       /\ UNCHANGED <<token, failing, snap>>
           kept == becomes(sent) \/ (fresh /\ becomes(Photo(sent.pic, clock')))
           lost == EndCycle(FALSE, failing \/ row # None)
           done == answered \/ lost
<1>3. /\ Matches(s) /\ clock' = clock + 1 /\ row' = row
      /\ \/ kept /\ answered /\ NoFault
         \/ fresh /\ becomes(NoPhoto) /\ answered /\ Fault("drop")
         \/ kept /\ lost /\ Fault("lost")
  BY DEF Put, IsFresh
<1>4. faults \subseteq faults' /\ faults' \subseteq Faults
  BY <1>2, <1>3 DEF NoFault, Fault
<1>5. sent \in AnyPhoto
  BY DEF AnyPush
<1>6. ASSUME NEW photo \in AnyPhoto, becomes(photo),
             s = "fastmail" => photo.uri = NoUri,
             photo.uri # NoUri => photo.pic # None,
             photo.uri \in {NoUri, clock + 1} \/ photo = card[s].photo
      PROVE  \E new \in AnyCard : CardChanges(s, new) /\ new.photo = photo
  <2> DEFINE new == Card(text, photo, clock + 1)
  <2>1. new = [text |-> text, photo |-> photo, ver |-> clock + 1]
    BY DEF Card
  <2>2. new \in AnyCard
    BY <1>2, <2>1 DEF AnyCard
  <2>3. new.text = text /\ new.photo = photo /\ new.ver = clock + 1
    BY <2>1
  <2>4. card' = [card EXCEPT ![s] = new]
    BY <1>3, <1>6
  <2> HIDE DEF new
  <2>5. CardFits(s, new)
    BY <1>1, <1>6, <2>3 DEF CardFits
  <2>6. CardChanges(s, new)
    BY <1>3, <1>6, <2>2, <2>3, <2>4, <2>5 DEF CardChanges
  <2> QED BY <2>2, <2>3, <2>6
<1> HIDE DEF answered, lost
<1>7. card[s] = snap[s] /\ CardFits(s, snap[s])
  BY <1>0, <1>3 DEF Matches, SnapTells
<1>8. CASE becomes(sent) /\ done
  <2>1. /\ s = "fastmail" => sent.uri = NoUri
        /\ sent.uri # NoUri => sent.pic # None
        /\ sent.uri \in {NoUri, clock + 1} \/ sent = card[s].photo
    BY <1>7, Sides DEF Sendable, CardFits
  <2>2. PICK new \in AnyCard : CardChanges(s, new) /\ new.photo = sent
    BY <1>5, <1>6, <1>8, <2>1
  <2> QED BY <1>3, <1>4, <1>8, <2>2 DEF answered, lost
<1>9. CASE fresh /\ becomes(Photo(sent.pic, clock')) /\ done
  <2> DEFINE photo == Photo(sent.pic, clock + 1)
  <2>1. photo \in AnyPhoto /\ photo.uri = clock + 1 /\ photo.pic = sent.pic
    BY <1>2, <1>5 DEF Photo, AnyPhoto
  <2>2. sent.pic # None /\ s # "fastmail"
    BY <1>9, Sides DEF Sendable, IsFresh
  <2>3. becomes(photo)
    BY <1>3, <1>9
  <2> HIDE DEF photo
  <2>4. PICK new \in AnyCard : CardChanges(s, new) /\ new.photo = photo
    BY <1>6, <2>1, <2>2, <2>3
  <2> QED BY <1>3, <1>4, <1>9, <2>1, <2>4 DEF answered, lost
<1>10. CASE fresh /\ becomes(NoPhoto) /\ answered /\ Fault("drop")
  <2>1. NoPhoto \in AnyPhoto /\ NoPhoto.uri = NoUri /\ NoPhoto.pic = None
    BY UntrackedFits DEF NoPhoto, Photo
  <2>2. PICK new \in AnyCard : CardChanges(s, new) /\ new.photo = NoPhoto
    BY <1>6, <1>10, <2>1
  <2>3. "drop" \in faults'
    BY <1>10 DEF Fault
  <2> QED BY <1>3, <1>4, <1>10, <2>1, <2>2, <2>3 DEF answered
<1> QED BY <1>3, <1>8, <1>9, <1>10

\* The fields of an operation whose versions were updated.
LEMMA VerChanges ==
    ASSUME NEW o \in AnyOp, NEW s \in Side, NEW v \in Nat
    PROVE  LET new == [o EXCEPT !.ver[s] = v]
           IN  /\ new \in AnyOp
               /\ new.ver = [o.ver EXCEPT ![s] = v]
               /\ new.kind = o.kind /\ new.to = o.to /\ new.text = o.text /\ new.push = o.push
               /\ new.counter = o.counter /\ new.photos = o.photos /\ new.landed = o.landed
               /\ new.uri = o.uri /\ new.deferred = o.deferred
<1>1. o.ver \in [Side -> Nat]
  BY DEF AnyOp
<1>2. [o.ver EXCEPT ![s] = v] \in [Side -> Nat]
  BY <1>1
<1> QED BY <1>2 DEF AnyOp

\* A PUT keeps IInv.
LEMMA PutKeeps ==
    ASSUME IInv, pc \in {"main", "counter"}, NEW s \in Side, NEW text \in Text, NEW then,
           PushTo(op, s) # None,
           \/ /\ pc = "main" /\ s = op.to
              /\ then = IF op.counter = None THEN "save" ELSE "counter"
           \/ pc = "counter" /\ s = Other(op.to) /\ then = "save",
           Put(s, text, PushTo(op, s), then)
    PROVE  IInv'
<1> DEFINE push == PushTo(op, s)
<1>0. Types /\ Fresh /\ RowTells /\ SnapTells /\ OpTells /\ TokensTell /\ NoGaps /\ pc # "wait" /\ Busy
  BY DEF IInv, Busy
<1>1. op \in AnyOp /\ OpPushes(op) /\ op.kind = "write"
  BY <1>0 DEF Types, OpTells
<1>2. push \in AnyPush /\ Sendable(s, push)
  <2>1. op.push \in AnyPush \cup {None} /\ op.counter \in AnyPush \cup {None}
    BY <1>1 DEF AnyOp
  <2> QED BY <1>1, <2>1 DEF OpPushes, PushTo
<1> HIDE DEF push
<1>3. PICK new \in AnyCard :
              /\ CardChanges(s, new) /\ row' = row
              /\ faults \subseteq faults' /\ faults' \subseteq Faults
              /\ \/ new.photo.pic = push.photo.pic
                 \/ IsFresh(s, push) /\ new.photo.pic = None /\ "drop" \in faults'
              /\ \/ /\ op' = [op EXCEPT !.ver[s] = clock + 1]
                    /\ pc' = IF IsFresh(s, push) THEN "readback" ELSE then
                    /\ UNCHANGED <<token, failing, snap>>
                 \/ EndCycle(FALSE, failing \/ row # None)
  <2>1. Put(s, text, push, then)
    BY DEF push
  <2> QED BY <1>0, <1>2, <2>1, PutChanges
<1>4. /\ card' \in [Side -> AnyCard] /\ card'[s] = new
      /\ \A r \in Side : r # s => card'[r] = card[r]
      /\ clock' = clock + 1 /\ clock' \in Nat /\ clock' >= 2
      /\ \A r \in Side : /\ card'[r].ver <= clock' /\ card'[r].photo.uri <= clock'
                         /\ CardFits(r, card'[r])
      /\ \A u \in Nat : \A p : u <= clock /\ UriIs(u, p) => UriIs(u, p)'
  BY <1>0, <1>3, ChangeFacts
<1>5. /\ \A r \in Side : /\ token[r] <= card'[r].ver
                         /\ token[r] = card'[r].ver => card'[r] = card[r]
      /\ row # None => /\ row.photo.uri <= clock' /\ \A r \in Side : row.ver[r] <= clock'
      /\ \A r \in Side : /\ snap[r].ver \in Nat /\ snap[r].ver <= clock
                         /\ snap[r].photo.uri <= clock'
                         /\ token[r] <= snap[r].ver /\ snap[r].ver <= card'[r].ver
      /\ op.photos.uri \in Nat /\ op.photos.uri <= clock
      /\ op.photos.uri <= clock' /\ op.uri <= clock'
      /\ \A r \in Side : /\ op.ver[r] \in Nat /\ op.ver[r] <= clock /\ op.ver[r] <= clock'
                         /\ op.ver[r] <= card[r].ver => op.ver[r] <= card'[r].ver
      /\ RowTells'
  BY <1>0, <1>3, ChangeTells
<1>6. CASE EndCycle(FALSE, failing \/ row # None)
  <2>1. (failing \/ row # None) \in BOOLEAN
    BY <1>0 DEF Types
  <2>2. /\ pc' = "wait" /\ ~ Busy' /\ failing' = (failing \/ row # None)
        /\ token' \in [Side -> Nat] /\ \A r \in Side : token'[r] = token[r]
    BY <1>0, <1>6, <2>1, EndFacts
  <2>3. Types'
    BY <1>0, <1>3, <1>4, <2>1, <2>2 DEF Types
  <2>4. Fresh'
    BY <1>3, <1>4, <1>5, <2>2 DEF Fresh
  <2>5. SnapTells' /\ OpTells' /\ NoGaps' /\ TokensTell'
    BY <1>0, <1>3, <2>2 DEF SnapTells, OpTells, NoGaps, TokensTell, NoGap
  <2> QED BY <1>5, <2>3, <2>4, <2>5 DEF IInv
<1>7. CASE /\ op' = [op EXCEPT !.ver[s] = clock + 1]
           /\ pc' = IF IsFresh(s, push) THEN "readback" ELSE then
           /\ UNCHANGED <<token, failing, snap>>
  <2>0. clock + 1 \in Nat
    BY <1>4
  <2>1. /\ op' \in AnyOp /\ op'.ver = [op.ver EXCEPT ![s] = clock + 1]
        /\ op'.kind = op.kind /\ op'.to = op.to /\ op'.text = op.text /\ op'.push = op.push
        /\ op'.counter = op.counter /\ op'.photos = op.photos /\ op'.landed = op.landed
        /\ op'.uri = op.uri
    BY <1>1, <1>7, <2>0, VerChanges
  <2>2. /\ op'.ver[s] = clock' /\ new.ver = clock'
        /\ \A r \in Side : r # s => op'.ver[r] = op.ver[r]
    BY <1>1, <1>3, <1>4, <2>1 DEF AnyOp, CardChanges
  <2>3. pc' \in {"readback", "save", "counter"} /\ Busy' /\ pc' # "wait"
    BY <1>7 DEF Busy
  <2>4. Types'
    BY <1>0, <1>3, <1>4, <1>7, <2>1, <2>3 DEF Types
  <2>5. clock' <= clock'
    BY <1>4
  <2>6. Fresh'
    <3>1. \A r \in Side : op'.ver[r] <= clock'
      BY <1>5, <2>2, <2>5
    <3> QED BY <1>3, <1>4, <1>5, <1>7, <2>1, <3>1 DEF Fresh
  <2>7. SnapTells'
    <3>1. \A r \in Side : card'[r].ver = snap[r].ver => card'[r] = snap[r]
      BY <1>0, <1>3, ChangeTells
    <3>2. UriIs(snap["icloud"].photo.uri, snap["icloud"].photo.pic)'
      <4> DEFINE u == snap["icloud"].photo.uri
                 p == snap["icloud"].photo.pic
      <4>1. u \in Nat /\ u <= clock /\ UriIs(u, p)
        BY <1>0, <1>3, Sides, ChangeTells DEF SnapTells
      <4>2. u' = u /\ p' = p
        BY <1>7
      <4> HIDE DEF u, p
      <4>3. UriIs(u, p)'
        BY <1>4, <4>1, <4>2 DEF UriIs
      <4> QED BY <4>3 DEF u, p
    <3> QED BY <1>0, <1>3, <1>7, <2>3, <3>1, <3>2 DEF SnapTells
  <2>8. TokensTell'
    BY <1>0, <1>3, <1>5, <1>7 DEF TokensTell
  <2>9. NoGaps'
    BY <1>0, <1>3, <2>1 DEF NoGaps, NoGap
  <2>10. OpTells'
    <3>1. \A r : PushTo(op, r)' = PushTo(op, r)
      BY <2>1 DEF PushTo
    <3>2. op.photos.tracked => UriIs(op.photos.uri, op.photos.icloud)'
      <4> DEFINE u == op.photos.uri
                 p == op.photos.icloud
      <4>1. u \in Nat /\ u <= clock /\ u' = u /\ p' = p
        BY <1>5, <2>1
      <4>2. op.photos.tracked => UriIs(u, p)
        BY <1>1 DEF OpPushes
      <4> HIDE DEF u, p
      <4>3. op.photos.tracked => UriIs(u, p)'
        BY <1>4, <4>1, <4>2 DEF UriIs
      <4> QED BY <2>1, <4>3 DEF u, p
    <3>3. OpPushes(op)'
      BY <1>1, <1>7, <2>1, <3>2 DEF OpPushes, PushTo, Sendable
    <3>4. op.landed = None /\ op.uri = NoUri
      BY <1>0 DEF OpTells
    <3>5. Final' = op.photos
      BY <2>1, <3>4, CycleAssumption DEF Final, Landed, CycleAssumption
    <3>6. \A r \in Side : \/ op'.ver[r] = snap[r].ver
                          \/ op'.ver[r] > snap[r].ver /\ op'.ver[r] <= card'[r].ver
      <4> TAKE r \in Side
      <4>1. CASE r = s
        <5>1. snap[s].ver < clock'
          BY <1>0, <1>4, <1>5 DEF Types
        <5> QED BY <1>4, <1>5, <2>2, <2>5, <4>1, <5>1
      <4>2. CASE r # s
        <5>1. \/ op.ver[r] = snap[r].ver
              \/ op.ver[r] > snap[r].ver /\ op.ver[r] <= card[r].ver
          BY <1>0 DEF OpTells
        <5> QED BY <1>5, <2>2, <4>2, <5>1
      <4> QED BY <4>1, <4>2
    <3>7. ASSUME op.photos.tracked, NEW r \in Side \ Pending', card'[r].ver = op'.ver[r]
          PROVE  card'[r].photo.pic = op.photos[r]
      <4>1. CASE r = s
        <5>1. ~ IsFresh(s, push)
          BY <1>7, <4>1 DEF Pending, IsFresh
        <5>2. card'[r].photo.pic = push.photo.pic
          BY <1>3, <1>4, <4>1, <5>1
        <5>3. op.photos[s] = push.photo.pic
          BY <1>1, <3>7 DEF OpPushes, push
        <5> QED BY <4>1, <5>2, <5>3
      <4>2. CASE r # s
        <5>1. card'[r] = card[r] /\ op'.ver[r] = op.ver[r]
          BY <1>4, <2>2, <4>2
        <5>2. r \notin Pending
          <6>1. CASE pc = "main"
            <7>1. s = op.to /\ then = IF op.counter = None THEN "save" ELSE "counter"
              BY <6>1
            <7>2. IsFresh(s, push) => op.counter = None
              BY <1>1, <7>1 DEF OpPushes, IsFresh, PushTo, push
            <7>3. op.counter # None => r \in Pending'
              BY <1>7, <2>1, <4>2, <7>1, <7>2, Sides DEF Pending
            <7> QED BY <3>7, <4>2, <6>1, <7>1, <7>3 DEF Pending
          <6>2. CASE pc = "counter"
            BY <4>2, <6>2 DEF Pending
          <6> QED BY <6>1, <6>2
        <5>3. Final = op.photos
          BY <3>4, CycleAssumption DEF Final, Landed, CycleAssumption
        <5>4. \A q \in Side \ Pending : card[q].ver = op.ver[q] => card[q].photo.pic = Final[q]
          BY <1>0, <3>7 DEF OpTells
        <5> QED BY <3>7, <5>1, <5>2, <5>3, <5>4
      <4> QED BY <4>1, <4>2
    <3>8. pc' = "counter" => op'.counter # None
      BY <1>7, <2>1
    <3>9. pc' = "readback" => /\ s = "icloud" /\ PushTo(op, "icloud") # None
                              /\ PushTo(op, "icloud").change = "set"
                              /\ card'["icloud"].ver = op'.ver["icloud"]
                              /\ \/ card'["icloud"].photo.pic = PushTo(op, "icloud").photo.pic
                                 \/ card'["icloud"].photo.pic = None /\ "drop" \in faults'
      <4> HAVE pc' = "readback"
      <4>1. IsFresh(s, push)
        BY <1>7
      <4>2. s = "icloud" /\ push.change = "set" /\ push = PushTo(op, "icloud")
        BY <4>1 DEF IsFresh, push
      <4> QED BY <1>3, <1>4, <2>2, <4>2
    <3>10. op'.landed = None /\ op'.uri = NoUri /\ op'.kind = "write" /\ pc' # "delete" /\ pc' # "main"
      BY <1>1, <2>1, <2>3, <3>4
    <3>11. op'.photos.tracked => (pc' = "save" => UriIs(Final.uri, Final.icloud)')
      BY <2>1, <3>2, <3>5 DEF UriIs
    <3>12. op'.photos.tracked =>
              \A r \in Side \ Pending' : card'[r].ver = op'.ver[r] => card'[r].photo.pic = Final'[r]
      BY <2>1, <3>5, <3>7
    <3>13. \A r \in Side : \/ op'.ver[r] = snap'[r].ver
                           \/ op'.ver[r] > snap'[r].ver /\ op'.ver[r] <= card'[r].ver
      BY <1>7, <3>6
    <3> QED BY <3>1, <3>3, <3>8, <3>9, <3>10, <3>11, <3>12, <3>13 DEF OpTells
  <2> QED BY <1>5, <2>4, <2>6, <2>7, <2>8, <2>9, <2>10 DEF IInv
<1> QED BY <1>3, <1>6, <1>7

\* A failing operation keeps IInv.
LEMMA FailsKeeps ==
    ASSUME IInv, pc # "wait", Fails
    PROVE  IInv'
BY EndKeeps DEF Fails, NoFault, IInv, Types

\* The first PUT or DELETE keeps IInv.
LEMMA MainKeeps ==
    ASSUME IInv, Main
    PROVE  IInv'
<1>1. pc = "main" /\ Busy /\ OpPushes(op) /\ op.kind = "write" /\ op \in AnyOp
  BY DEF Main, Busy, IInv, OpTells, Types
<1>2. CASE Put(op.to, op.text, op.push, IF op.counter = None THEN "save" ELSE "counter")
  <2>1. op.to \in Side /\ op.text \in Text /\ PushTo(op, op.to) = op.push /\ op.push # None
    BY <1>1 DEF AnyOp, OpPushes, PushTo
  <2> DEFINE then == IF op.counter = None THEN "save" ELSE "counter"
             s == op.to
             text == op.text
  <2>2. Put(s, text, PushTo(op, s), then) /\ PushTo(op, s) # None
    BY <1>2, <2>1
  <2>3. s = op.to /\ then = IF op.counter = None THEN "save" ELSE "counter"
    OBVIOUS
  <2>4. s \in Side /\ text \in Text
    BY <2>1
  <2> HIDE DEF then, s, text
  <2> QED BY <1>1, <2>2, <2>3, <2>4, PutKeeps
<1>3. CASE Fails
  BY <1>1, <1>3, FailsKeeps
<1> QED BY <1>2, <1>3 DEF Main

\* The PUT to the other side keeps IInv.
LEMMA CounterKeeps ==
    ASSUME IInv, Counter
    PROVE  IInv'
<1>1. pc = "counter" /\ Busy /\ OpPushes(op) /\ op.kind = "write" /\ op \in AnyOp /\ op.counter # None
  BY DEF Counter, Busy, IInv, OpTells, Types
<1>2. CASE Put(Other(op.to), snap[Other(op.to)].text, op.counter, "save")
  <2> DEFINE s == Other(op.to)
             text == snap[s].text
  <2>1. s \in Side /\ s # op.to /\ s = Other(op.to)
    BY <1>1, Sides DEF OpPushes
  <2>2. PushTo(op, s) = op.counter
    BY <2>1 DEF PushTo
  <2>3. text \in Text
    BY <1>1, <2>1 DEF OpPushes, Present, IInv, Types, AnyCard
  <2>4. Put(s, text, PushTo(op, s), "save") /\ PushTo(op, s) # None
    BY <1>1, <1>2, <2>2
  <2> HIDE DEF s, text
  <2> QED BY <1>1, <2>1, <2>3, <2>4, PutKeeps
<1>3. CASE Fails
  BY <1>1, <1>3, FailsKeeps
<1> QED BY <1>2, <1>3 DEF Counter

\* A crash keeps IInv.
LEMMA CrashKeeps ==
    ASSUME IInv, Crash
    PROVE  IInv'
<1>1. /\ pc # "wait" /\ EndCycle(FALSE, failing) /\ UNCHANGED <<card, clock, row>>
      /\ faults' \subseteq Faults /\ failing \in BOOLEAN
  BY DEF Crash, Fault, IInv, Types
<1> QED BY <1>1, EndKeeps

\* A deletion takes the row with it.
LEMMA DeleteKeeps ==
    ASSUME IInv, Delete
    PROVE  IInv'
<1>0. Types /\ Fresh /\ OpTells /\ pc = "delete" /\ pc # "wait" /\ Busy
  BY DEF Delete, IInv, Busy
<1>1. CASE /\ clock' = clock + 1 /\ card' = [card EXCEPT ![op.to] = Gone(clock')]
           /\ row' = None /\ EndCycle(TRUE, FALSE) /\ NoFault
  <2> DEFINE s == op.to
  <2>1. s \in Side
    BY <1>0 DEF OpTells, OpPushes
  <2>2. card' = [card EXCEPT ![s] = Gone(clock + 1)]
    BY <1>1
  <2> HIDE DEF s
  <2>3. CardChanges(s, Gone(clock + 1))
    BY <1>0, <1>1, <2>1, <2>2, GoneChanges
  <2>4. /\ card' \in [Side -> AnyCard]
        /\ clock' \in Nat /\ clock' >= 2
        /\ \A r \in Side : /\ card'[r].ver <= clock' /\ card'[r].photo.uri <= clock'
                           /\ CardFits(r, card'[r])
    BY <1>0, <2>1, <2>3, ChangeFacts
  <2>5. /\ pc' = "wait" /\ ~ Busy' /\ failing' = FALSE
        /\ token' \in [Side -> Nat] /\ \A r \in Side : token'[r] = snap[r].ver
    BY <1>0, <1>1, EndFacts
  <2>6. \A r \in Side : snap[r].ver <= card'[r].ver
    BY <1>0, <2>1, <2>3, ChangeTells
  <2>7. Types'
    BY <1>0, <1>1, <2>4, <2>5 DEF Types, NoFault
  <2>8. Fresh'
    BY <1>1, <2>4, <2>5, <2>6 DEF Fresh
  <2>9. RowTells' /\ SnapTells' /\ OpTells' /\ NoGaps' /\ TokensTell'
    BY <1>1, <2>5 DEF RowTells, SnapTells, OpTells, NoGaps, TokensTell
  <2> QED BY <2>7, <2>8, <2>9 DEF IInv
<1>2. CASE Fails
  BY <1>0, <1>2, FailsKeeps
<1> QED BY <1>1, <1>2 DEF Delete

\* The row saved tells of the versions written and read.
LEMMA SaveKeeps ==
    ASSUME IInv, Save
    PROVE  IInv'
<1>0. Types /\ Fresh /\ OpTells /\ NoGaps /\ pc = "save" /\ pc # "wait" /\ Busy /\ op \in AnyOp
  BY DEF Save, IInv, Busy, Types
<1>1. /\ row' = IF op.kind = "forget" THEN None
                ELSE [ver |-> op.ver, text |-> op.text, photo |-> Final]
      /\ EndCycle(~ op.deferred, FALSE)
      /\ UNCHANGED <<card, clock, faults>>
  BY DEF Save, NoFault, Final
<1>2. /\ Final \in PhotoState /\ Final.fastmail = op.photos.fastmail
      /\ Final.tracked = op.photos.tracked
      /\ Final.uri \in {op.photos.uri, op.uri, NoUri}
      /\ op.landed # "dropped" => Final.icloud = op.photos.icloud /\ Final.stripped = op.photos.stripped
      /\ op.landed = "dropped" => Final.stripped
  BY <1>0, FinalFits
<1>3. /\ pc' = "wait" /\ ~ Busy' /\ failing' = FALSE
      /\ token' \in [Side -> Nat]
      /\ \A s \in Side : /\ token'[s] = (IF ~ op.deferred THEN snap[s].ver ELSE token[s])
                         /\ token'[s] <= card[s].ver
  BY <1>0, <1>1, EndFacts
<1>4. op.ver \in [Side -> Nat] /\ op.text \in Text \cup {None}
  BY <1>0 DEF AnyOp
<1> HIDE DEF Final
<1>5. row' # None => row'.ver = op.ver /\ row'.photo = Final /\ row' \in AnyRow
  BY <1>1, <1>2, <1>4 DEF AnyRow
<1>6. Types'
  BY <1>0, <1>1, <1>3, <1>5 DEF Types
<1>7. Fresh'
  <2>1. Final.uri <= clock /\ \A s \in Side : op.ver[s] <= clock
    BY <1>0, <1>2, NoUriIsOld DEF Fresh
  <2> QED BY <1>0, <1>1, <1>3, <1>5, <2>1 DEF Fresh
<1>8. RowTells'
  <2>1. Final.tracked => /\ \A s \in Side : card[s].ver = op.ver[s] => card[s].photo.pic = Final[s]
                         /\ UriIs(Final.uri, Final.icloud)
    BY <1>0, <1>2 DEF OpTells, Pending
  <2> QED BY <1>1, <1>5, <2>1 DEF RowTells, UriIs
<1>9. TokensTell'
  <2> SUFFICES ASSUME row' # None, NEW s \in Side, token'[s] = card[s].ver
               PROVE  op.ver[s] = card[s].ver
    BY <1>1, <1>5 DEF TokensTell
  <2>1. /\ token[s] \in Nat /\ snap[s].ver \in Nat /\ card[s].ver \in Nat /\ op.ver[s] \in Nat
        /\ token[s] <= snap[s].ver /\ snap[s].ver <= card[s].ver
    BY <1>0, <1>4 DEF Types, AnyCard, Fresh
  <2>2. snap[s].ver = card[s].ver
    <3>1. \A l, m, n \in Nat : (l = n \/ m = n) /\ l <= m /\ m <= n => m = n
      OBVIOUS
    <3> QED BY <1>3, <2>1, <3>1
  <2>3. \/ op.ver[s] = snap[s].ver
        \/ op.ver[s] > snap[s].ver /\ op.ver[s] <= card[s].ver
    BY <1>0 DEF OpTells
  <2> QED BY <2>1, <2>2, <2>3
<1>10. NoGaps'
  <2>1. NoGap(op.photos)
    BY <1>0 DEF NoGaps
  <2>2. NoGap(Final)
    <3>1. CASE op.landed = "dropped"
      BY <1>2, <3>1 DEF NoGap
    <3>2. CASE op.landed # "dropped"
      <4>1. \A s \in Side : Final[s] = op.photos[s]
        BY <1>2, <3>2 DEF Side
      <4> QED BY <1>2, <2>1, <3>2, <4>1, Sides DEF NoGap
    <3> QED BY <3>1, <3>2
  <2> QED BY <1>3, <1>5, <2>2 DEF NoGaps, NoGap
<1>11. SnapTells' /\ OpTells'
  BY <1>3 DEF SnapTells, OpTells
<1> QED BY <1>6, <1>7, <1>8, <1>9, <1>10, <1>11 DEF IInv

\* A photo that iCloud dropped, and the one it was not seen to drop.
DropUnseen == {"drop", "readback"} \subseteq faults

Lands(o, l, u, v, d) ==
    [o EXCEPT !.landed = l, !.uri = u, !.ver["icloud"] = v, !.deferred = d]

\* The fields of an operation whose photo was read back.
LEMMA LandChanges ==
    ASSUME NEW o \in AnyOp, NEW l \in {"uri", "inline", "dropped"}, NEW u \in Nat, NEW v \in Nat,
           NEW d \in BOOLEAN
    PROVE  LET new == Lands(o, l, u, v, d)
           IN  /\ new \in AnyOp
               /\ new.ver = [o.ver EXCEPT !["icloud"] = v]
               /\ new.kind = o.kind /\ new.to = o.to /\ new.text = o.text /\ new.push = o.push
               /\ new.counter = o.counter /\ new.photos = o.photos /\ new.landed = l
               /\ new.uri = u /\ new.deferred = d
<1>1. o.ver \in [Side -> Nat]
  BY DEF AnyOp
<1>2. [o.ver EXCEPT !["icloud"] = v] \in [Side -> Nat]
  BY <1>1, Sides
<1> QED BY <1>2 DEF AnyOp, Lands

\* What a read-back notes keeps IInv.
LEMMA LandsKeeps ==
    ASSUME IInv, pc = "readback",
           NEW l \in {"uri", "inline", "dropped"}, NEW u \in Nat, NEW d \in BOOLEAN,
           op' = [op EXCEPT !.landed = l, !.uri = u, !.ver["icloud"] = card["icloud"].ver,
                            !.deferred = d],
           pc' = "save", UNCHANGED <<token, failing, snap, card, clock, row>>,
           faults' \subseteq Faults,
           u <= clock, UriIs(u, card["icloud"].photo.pic),
           IF l = "dropped" THEN card["icloud"].photo.pic = None
           ELSE card["icloud"].photo.pic = PushTo(op, "icloud").photo.pic
    PROVE  IInv'
<1>0. Types /\ Fresh /\ RowTells /\ SnapTells /\ OpTells /\ TokensTell /\ NoGaps /\ pc # "wait" /\ Busy
  BY DEF IInv, Busy
<1>1. /\ op \in AnyOp /\ OpPushes(op) /\ op.kind = "write" /\ PushTo(op, "icloud") # None
      /\ card["icloud"].ver = op.ver["icloud"]
      /\ op.uri = NoUri /\ op.landed = None
      /\ \A r \in Side : \/ op.ver[r] = snap[r].ver
                         \/ op.ver[r] > snap[r].ver /\ op.ver[r] <= card[r].ver
      /\ op.photos.tracked =>
            \A r \in Side \ Pending : card[r].ver = op.ver[r] => card[r].photo.pic = Final[r]
  BY <1>0 DEF Types, OpTells
<1>2. op.ver \in [Side -> Nat] /\ card["icloud"].ver \in Nat
  BY <1>0, <1>1, Sides DEF AnyOp, Types, AnyCard
<1>3. /\ op' \in AnyOp /\ op'.ver = op.ver
      /\ op'.kind = op.kind /\ op'.to = op.to /\ op'.text = op.text /\ op'.push = op.push
      /\ op'.counter = op.counter /\ op'.photos = op.photos /\ op'.landed = l /\ op'.uri = u
  <2> DEFINE new == Lands(op, l, u, card["icloud"].ver, d)
  <2>1. [op.ver EXCEPT !["icloud"] = card["icloud"].ver] = op.ver
    BY <1>1, <1>2
  <2>2. /\ new \in AnyOp
        /\ new.ver = [op.ver EXCEPT !["icloud"] = card["icloud"].ver]
        /\ new.kind = op.kind /\ new.to = op.to /\ new.text = op.text /\ new.push = op.push
        /\ new.counter = op.counter /\ new.photos = op.photos /\ new.landed = l
        /\ new.uri = u
    BY <1>1, <1>2, LandChanges
  <2>3. op' = new
    BY DEF Lands
  <2> HIDE DEF new
  <2> QED BY <2>1, <2>2, <2>3
<1>4. Busy' /\ pc' # "wait"
  BY DEF Busy
<1>5. Types'
  BY <1>0, <1>3, <1>4 DEF Types
<1>6. Fresh'
  BY <1>0, <1>3, <1>4 DEF Fresh
<1>7. RowTells' /\ SnapTells' /\ TokensTell' /\ NoGaps'
  BY <1>0, <1>3, <1>4 DEF RowTells, SnapTells, TokensTell, NoGaps, NoGap, UriIs
<1>8. /\ Final' \in PhotoState /\ Final'.fastmail = op.photos.fastmail
      /\ l = "uri" => Final'.uri = u
      /\ l # "dropped" => Final'.icloud = op.photos.icloud
      /\ l = "dropped" => Final'.icloud = None /\ Final'.uri = NoUri
      /\ l = "inline" => Final' = op.photos
  <2>1. Final' = Landed(op'.photos, l, u) /\ op'.photos = op.photos
    BY <1>3 DEF Final
  <2>2. op.photos \in PhotoState
    BY <1>1 DEF AnyOp
  <2>3. Final' = Landed(op.photos, l, u)
    BY <2>1
  <2> QED BY <2>2, <2>3, LandedFits
<1>9. ASSUME op.photos.tracked
      PROVE  /\ \A r \in Side : card[r].ver = op.ver[r] => card[r].photo.pic = Final'[r]
             /\ UriIs(Final'.uri, Final'.icloud)
  <2>1. op.photos.icloud = PushTo(op, "icloud").photo.pic /\ UriIs(op.photos.uri, op.photos.icloud)
    BY <1>1, <1>9, Sides DEF OpPushes
  <2>2. card["icloud"].photo.pic = Final'.icloud
    BY <1>8, <2>1
  <2>3. card["fastmail"].ver = op.ver["fastmail"] => card["fastmail"].photo.pic = Final'.fastmail
    <3>1. "fastmail" \in Side \ Pending
      BY Sides DEF Pending
    <3>2. Final = op.photos
      BY <1>1, CycleAssumption DEF Final, Landed, CycleAssumption
    <3> QED BY <1>1, <1>8, <1>9, <3>1, <3>2
  <2>4. UriIs(Final'.uri, Final'.icloud)
    <3>1. CASE l = "uri"
      BY <1>8, <2>2, <3>1
    <3>2. CASE l = "inline"
      BY <1>8, <2>1, <3>2
    <3>3. CASE l = "dropped"
      BY <1>8, <3>3 DEF UriIs
    <3> QED BY <3>1, <3>2, <3>3
  <2> QED BY <2>2, <2>3, <2>4 DEF Side
<1>10. OpTells'
  <2>1. OpPushes(op)'
    BY <1>1, <1>3 DEF OpPushes, PushTo, Sendable, UriIs
  <2>2. UriIs(Final.uri, Final.icloud)' <=> UriIs(Final'.uri, Final'.icloud)
    BY DEF UriIs
  <2>3. \A r : PushTo(op, r)' = PushTo(op, r)
    BY <1>3 DEF PushTo
  <2> QED BY <1>1, <1>3, <1>9, <2>1, <2>2, <2>3 DEF OpTells
<1> QED BY <1>5, <1>6, <1>7, <1>10 DEF IInv

\* A read-back keeps IInv, unless iCloud dropped a photo and the read-back failed.
LEMMA ReadBackKeeps ==
    ASSUME IInv, ReadBack, ~ DropUnseen'
    PROVE  IInv'
<1>0. Types /\ Fresh /\ OpTells /\ pc = "readback" /\ pc # "wait" /\ Busy
  BY DEF ReadBack, IInv, Busy
<1> DEFINE back == card["icloud"]
<1>1. back \in AnyCard /\ back.photo.uri \in Nat /\ back.photo.uri <= clock /\ CardFits("icloud", back)
  BY <1>0, Sides DEF Types, AnyCard, AnyPhoto, Fresh
<1>2. /\ back.ver = op.ver["icloud"]
      /\ \/ back.photo.pic = PushTo(op, "icloud").photo.pic
         \/ back.photo.pic = None /\ "drop" \in faults
  BY <1>0 DEF OpTells
<1>3. CASE Fails
  BY <1>0, <1>3, FailsKeeps
<1>4. ASSUME NEW l \in {"uri", "inline", "dropped"}, NEW u \in Nat, NEW d \in BOOLEAN,
             op' = [op EXCEPT !.landed = l, !.uri = u, !.ver["icloud"] = back.ver, !.deferred = d],
             pc' = "save", UNCHANGED <<token, failing, snap, card, clock, row>>,
             faults' \subseteq Faults,
             u <= clock, UriIs(u, back.photo.pic),
             IF l = "dropped" THEN back.photo.pic = None
             ELSE back.photo.pic = PushTo(op, "icloud").photo.pic
      PROVE  IInv'
  BY <1>0, <1>4, LandsKeeps
<1>5. CASE /\ Present(back)
           /\ op' = [op EXCEPT !.landed = IF back.photo.uri # NoUri THEN "uri"
                                          ELSE IF back.photo.pic # None THEN "inline" ELSE "dropped",
                               !.uri = back.photo.uri, !.ver["icloud"] = back.ver,
                               !.deferred = FALSE]
           /\ pc' = "save" /\ UNCHANGED <<token, failing, snap, card, clock, row>>
           /\ NoFault
  <2> DEFINE l == IF back.photo.uri # NoUri THEN "uri"
                  ELSE IF back.photo.pic # None THEN "inline" ELSE "dropped"
             u == back.photo.uri
  <2>1. l \in {"uri", "inline", "dropped"} /\ u \in Nat /\ u <= clock /\ UriIs(u, back.photo.pic)
    BY <1>1 DEF UriIs
  <2>2. IF l = "dropped" THEN back.photo.pic = None
        ELSE back.photo.pic = PushTo(op, "icloud").photo.pic
    BY <1>1, <1>2 DEF CardFits
  <2>3. faults' \subseteq Faults
    BY <1>0, <1>5 DEF NoFault, Types
  <2>4. op' = [op EXCEPT !.landed = l, !.uri = u, !.ver["icloud"] = back.ver, !.deferred = FALSE]
    BY <1>5
  <2> HIDE DEF l, u, back
  <2> QED BY <1>4, <1>5, <2>1, <2>2, <2>3, <2>4
<1>6. ASSUME Fault("readback"), NEW d \in BOOLEAN,
             op' = [op EXCEPT !.landed = "inline", !.uri = NoUri,
                              !.ver["icloud"] = op.ver["icloud"], !.deferred = d],
             pc' = "save", UNCHANGED <<token, failing, snap, card, clock, row>>
      PROVE  IInv'
  <2>1. back.photo.pic = PushTo(op, "icloud").photo.pic
    BY <1>2, <1>6 DEF Fault, DropUnseen
  <2>2. NoUri \in Nat /\ NoUri <= clock /\ UriIs(NoUri, back.photo.pic)
    BY <1>0, NoUriIsOld DEF UriIs
  <2>3. faults' \subseteq Faults
    BY <1>0, <1>6 DEF Fault, Types
  <2>4. op' = [op EXCEPT !.landed = "inline", !.uri = NoUri,
                         !.ver["icloud"] = back.ver, !.deferred = d]
    BY <1>2, <1>6
  <2>5. "inline" \in {"uri", "inline", "dropped"} /\ "inline" # "dropped"
    OBVIOUS
  <2> HIDE DEF back
  <2> QED BY <1>4, <1>6, <2>1, <2>2, <2>3, <2>4, <2>5
<1> QED BY <1>3, <1>5, <1>6 DEF ReadBack

(***************************************************************************)
(* The theorems.                                                           *)
(***************************************************************************)
LEMMA InitTells ==
    ASSUME Init
    PROVE  IInv
<1>0. /\ \A s \in Side : /\ card[s].ver \in 1..2 /\ card[s].photo.uri \in 0..2
                         /\ card[s] \in AnyCard /\ CardFits(s, card[s])
      /\ card \in [Side -> AnyCard]
  <2>1. card \in [Side -> [text : Text \cup {None},
                           photo : [pic : Picture \cup {None}, uri : 0..2], ver : 1..2]]
        /\ card["fastmail"].photo.uri = NoUri
        /\ \A s \in Side : /\ card[s].text = None => card[s].photo = NoPhoto
                           /\ card[s].photo.uri # NoUri => card[s].photo.pic # None
    BY StartsAssumption DEF Init, StartsAssumption
  <2>2. \A s \in Side : card[s] \in [text : Text \cup {None},
                           photo : [pic : Picture \cup {None}, uri : 0..2], ver : 1..2]
    BY <2>1
  <2>3. \A s \in Side : card[s] \in AnyCard
    BY <2>2 DEF AnyCard, AnyPhoto
  <2>4. \A s \in Side : CardFits(s, card[s])
    BY <2>1 DEF CardFits
  <2> QED BY <2>1, <2>2, <2>3, <2>4
<1>1. /\ clock = 2 /\ token = [s \in Side |-> 0] /\ failing = FALSE /\ pc = "wait"
      /\ faults = {} /\ ~ Busy
  BY DEF Init, Busy
<1>2. row # None => /\ row \in AnyRow /\ row.photo = Untracked
                    /\ \A s \in Side : row.ver[s] <= 2
  <2> SUFFICES ASSUME row # None
               PROVE  /\ row \in AnyRow /\ row.photo = Untracked
                      /\ \A s \in Side : row.ver[s] <= 2
    OBVIOUS
  <2> DEFINE ver == [s \in Side |-> card[s].ver]
  <2>1. row = [ver |-> ver, text |-> card["icloud"].text, photo |-> Untracked]
    BY DEF Init
  <2>2. ver \in [Side -> Nat] /\ \A s \in Side : ver[s] <= 2
    BY <1>0
  <2>3. card["icloud"].text \in Text \cup {None}
    BY <1>0, Sides DEF AnyCard
  <2> HIDE DEF ver
  <2> QED BY <2>1, <2>2, <2>3, UntrackedFits DEF AnyRow
<1>3. Types
  <2>1. clock \in Nat /\ clock >= 2 /\ token \in [Side -> Nat] /\ faults \subseteq Faults
    BY <1>1
  <2>2. failing \in BOOLEAN
    BY <1>1
  <2>3. row \in AnyRow \cup {None}
    BY <1>2
  <2> QED BY <1>0, <1>1, <2>1, <2>2, <2>3 DEF Types
<1>4. Fresh
  <2>1. Untracked.uri <= 2
    BY DEF Untracked, NoUri
  <2>2. \A s \in Side : token[s] <= card[s].ver /\ card[s].ver <= 2 /\ card[s].photo.uri <= 2
    BY <1>0, <1>1
  <2> QED BY <1>0, <1>1, <1>2, <2>1, <2>2 DEF Fresh
<1>5. RowTells /\ NoGaps
  BY <1>1, <1>2, UntrackedFits DEF RowTells, NoGaps
<1>6. TokensTell
  BY <1>0, <1>1 DEF TokensTell
<1>7. SnapTells /\ OpTells
  BY <1>1 DEF SnapTells, OpTells
<1> QED BY <1>3, <1>4, <1>5, <1>6, <1>7 DEF IInv

\* IInv is inductive, in steps that drop no photo unseen.
LEMMA StepTells ==
    ASSUME IInv, [Next]_vars, ~ EditsAtReadBack, ~ DropUnseen'
    PROVE  IInv'
<1>1. CASE UNCHANGED vars
  BY <1>1 DEF IInv, vars, cycle, Types, Busy, Fresh, RowTells, SnapTells, OpTells, TokensTell,
              NoGaps, NoGap, UriIs, CardFits, OpPushes, PushTo, Sendable, Pending, Final, Present
<1> QED BY <1>1, PeopleKeep, ReadKeeps, PlanKeeps, MainKeeps, CounterKeeps, ReadBackKeeps,
           DeleteKeeps, SaveKeeps, CrashKeeps DEF Next, Daemon

\* What went wrong is not forgotten, and is no more than the bound.
FaultsFit == faults \subseteq Faults /\ IsFiniteSet(faults) /\ Cardinality(faults) <= MaxFaults

\* A step adds at most one fault.
LEMMA FaultsGrow ==
    ASSUME [Next]_vars
    PROVE  faults' = faults \/ \E kind : Fault(kind)
<1>1. ASSUME NEW what, NEW s, Edit(what, s) PROVE faults' = faults
  BY <1>1 DEF Edit
<1>2. CASE People
  BY <1>1, <1>2 DEF People, NewUri, EditText, SetPhoto, RemovePhoto, DeleteCard
<1>3. CASE Daemon
  BY <1>3 DEF Daemon, Read, Plan, Unavailable, Main, Counter, Put, Fails, ReadBack, Delete, Save, NoFault
<1>4. CASE Crash
  BY <1>4 DEF Crash
<1>5. CASE UNCHANGED vars
  BY <1>5 DEF vars
<1> QED BY <1>2, <1>3, <1>4, <1>5 DEF Next

\* The faults that happened stay happened.
LEMMA FaultsKeep ==
    ASSUME [Next]_vars
    PROVE  (DropUnseen => DropUnseen') /\ (FaultsFit => FaultsFit')
<1>1. DropUnseen => DropUnseen'
  BY FaultsGrow DEF DropUnseen, Fault
<1>2. ASSUME FaultsFit PROVE FaultsFit'
  <2>1. CASE faults' = faults
    BY <1>2, <2>1 DEF FaultsFit
  <2>2. ASSUME NEW kind, Fault(kind) PROVE FaultsFit'
    <3>1. IsFiniteSet(faults) /\ kind \in Faults \ faults /\ faults' = faults \cup {kind}
          /\ Cardinality(faults) < MaxFaults
      BY <1>2, <2>2 DEF FaultsFit, Fault
    <3>2. IsFiniteSet(faults \cup {kind}) /\ Cardinality(faults \cup {kind}) = Cardinality(faults) + 1
      BY <3>1, FS_AddElement
    <3>3. Cardinality(faults) \in Nat /\ MaxFaults \in Nat
      BY <3>1, FS_CardinalityType, CycleAssumption DEF CycleAssumption
    <3>4. Cardinality(faults) + 1 <= MaxFaults
      BY <3>1, <3>3
    <3> QED BY <1>2, <3>1, <3>2, <3>4 DEF FaultsFit
  <2> QED BY <2>1, <2>2, FaultsGrow
<1> QED BY <1>1, <1>2

\* Either iCloud dropped a photo and its read-back failed, so that nobody
\* could know; or what is recorded is so.
THEOREM RecordsTell ==
    ASSUME ~ EditsAtReadBack
    PROVE  Spec => [](DropUnseen \/ IInv)
<1>1. Init => DropUnseen \/ IInv
  BY InitTells
<1>2. (DropUnseen \/ IInv) /\ [Next]_vars => (DropUnseen \/ IInv)'
  BY StepTells, FaultsKeep
<1> QED BY <1>1, <1>2, PTL DEF Spec

\* The two cannot come together where one fault at most is allowed.
SeenOrOne == MaxFaults <= 1 \/ ~ ({"drop", "readback"} \subseteq Faults)

\* With one fault, or without one of the two, no drop goes unseen.
LEMMA DropIsSeen ==
    ASSUME SeenOrOne, FaultsFit
    PROVE  ~ DropUnseen
<1>1. "drop" # "readback" /\ MaxFaults \in Nat
  BY CycleAssumption DEF CycleAssumption
<1>2. SUFFICES ASSUME DropUnseen PROVE MaxFaults > 1 /\ {"drop", "readback"} \subseteq Faults
  BY <1>1 DEF SeenOrOne
<1>3. Cardinality({"drop", "readback"}) = 2 /\ IsFiniteSet({"drop", "readback"})
  <2>1. IsFiniteSet({}) /\ Cardinality({}) = 0
    BY FS_EmptySet
  <2>2. IsFiniteSet({} \cup {"drop"}) /\ Cardinality({} \cup {"drop"}) = 1
    BY <2>1, FS_AddElement
  <2>3. {} \cup {"drop"} = {"drop"}
    OBVIOUS
  <2>4. IsFiniteSet({"drop"}) /\ Cardinality({"drop"}) = 1
    BY <2>2, <2>3
  <2>5. /\ IsFiniteSet({"drop"} \cup {"readback"})
        /\ Cardinality({"drop"} \cup {"readback"}) = Cardinality({"drop"}) + 1
    BY <1>1, <2>4, FS_AddElement
  <2>6. {"drop"} \cup {"readback"} = {"drop", "readback"}
    OBVIOUS
  <2> QED BY <2>4, <2>5, <2>6
<1>4. Cardinality({"drop", "readback"}) <= Cardinality(faults) /\ Cardinality(faults) \in Nat
  BY <1>2, FS_Subset, FS_CardinalityType DEF FaultsFit, DropUnseen
<1>5. Cardinality(faults) <= MaxFaults
  BY DEF FaultsFit
<1>6. MaxFaults > 1
  BY <1>1, <1>3, <1>4, <1>5
<1> QED BY <1>2, <1>6 DEF FaultsFit, DropUnseen

\* IInv is invariant where no drop goes unseen.
LEMMA AlwaysTells ==
    ASSUME ~ EditsAtReadBack, SeenOrOne
    PROVE  Spec => []IInv
<1>1. Spec => [](DropUnseen \/ IInv)
  BY RecordsTell
<1>2. Init => FaultsFit
  <2>1. IsFiniteSet({}) /\ Cardinality({}) = 0 /\ MaxFaults \in Nat
    BY FS_EmptySet, CycleAssumption DEF CycleAssumption
  <2> QED BY <2>1 DEF Init, FaultsFit
<1>3. FaultsFit /\ [Next]_vars => FaultsFit'
  BY FaultsKeep
<1>4. FaultsFit => ~ DropUnseen
  BY DropIsSeen
<1> QED BY <1>1, <1>2, <1>3, <1>4, PTL DEF Spec

\* A side whose version the row names has the photo the row records.
THEOREM RecordedIsThereHolds ==
    ASSUME ~ EditsAtReadBack, SeenOrOne
    PROVE  Spec => []RecordedIsThere
<1>1. IInv => RecordedIsThere
  BY DEF IInv, RowTells, RecordedIsThere
<1> QED BY <1>1, AlwaysTells, PTL

\* A contact with nothing left to do lacks no photo that could be copied.
THEOREM NoGapAtRestHolds ==
    ASSUME ~ EditsAtReadBack, SeenOrOne
    PROVE  Spec => []NoGapAtRest
<1>1. ASSUME IInv, pc = "wait", Idle, Rec.tracked, ~ Rec.stripped,
             NEW s \in Side, card[s].photo.pic = None
      PROVE  card[Other(s)].photo.pic \in Odd \cup {None}
  <2>1. row # None /\ Rec = row.photo
    BY <1>1, UntrackedFits DEF Rec
  <2>2. \A r \in Side : row.ver[r] = card[r].ver
    BY <1>1, <2>1 DEF IInv, TokensTell, Idle
  <2>3. \A r \in Side : card[r].photo.pic = Rec[r]
    BY <1>1, <2>1, <2>2 DEF IInv, RowTells
  <2> QED BY <1>1, <2>1, <2>3, Sides DEF IInv, NoGaps, NoGap
<1>2. IInv => NoGapAtRest
  BY <1>1 DEF NoGapAtRest
<1> QED BY <1>2, AlwaysTells, PTL

(***************************************************************************)
(* What Fastmail is sent.  The daemon follows iCloud's picture from one    *)
(* card to the next: it is the one remembered, or a person's.              *)
(***************************************************************************)
\* iCloud's picture is pic where it was x when the daemon last knew it: since
\* then nobody but people changed it.
Remembers(x, pic) ==
    /\ pic \in Shrunk => x = pic
    /\ removed = {} /\ x # None => pic # None

Icloud == card["icloud"].photo.pic

\* The photo an operation sends to Fastmail in place of another one is not
\* missing unless a person removed one, and not shrunk; and a side whose photo
\* goes to the other keeps its own.
Meant(o) ==
    /\ o.counter # None => o.push.photo = snap[o.to].photo
    /\ LET push == PushTo(o, "fastmail")
           photo == snap["fastmail"].photo
       IN  push # None /\ photo # NoPhoto =>
               /\ push.photo.pic = None => removed # {}
               /\ push.photo.pic \in Shrunk => push.photo.pic = photo.pic

\* The row's picture, the one read and the one about to be saved are
\* remembered ones.
RowRemembers ==
    row # None /\ row.photo.tracked =>
        /\ pc \notin {"readback", "save"} => Remembers(row.photo.icloud, Icloud)
        /\ pc = "plan" => Remembers(row.photo.icloud, snap["icloud"].photo.pic)

SnapRemembers ==
    pc \in {"plan", "main", "counter", "delete"} => Remembers(snap["icloud"].photo.pic, Icloud)

OpRemembers ==
    /\ pc \in {"main", "counter"} => Meant(op)
    /\ pc = "readback" => Present(card["icloud"])
    /\ pc = "save" /\ op.photos.tracked => Remembers(Final.icloud, Icloud)

OwnPhotos == RowRemembers /\ SnapRemembers /\ OpRemembers

\* The present picture is remembered, and none is no picture.
LEMMA RemembersItself ==
    /\ \A x : Remembers(x, x)
    /\ None \notin Shrunk /\ UserPics \cap Shrunk = {} /\ None \notin UserPics
BY PhotoAssumptions, CycleAssumption DEF Remembers, Shrunk, PhotoAssumptions, CycleAssumption

\* A card on Fastmail without a picture has no photo.
LEMMA NoPictureNoPhoto ==
    ASSUME NEW c \in AnyCard, CardFits("fastmail", c), c.photo.pic = None
    PROVE  c.photo = NoPhoto
BY DEF AnyCard, AnyPhoto, CardFits, NoPhoto, Photo

\* Writing one side alone.
LEMMA WritingIsMeant ==
    ASSUME Types, SnapTells, pc = "plan", NEW to \in Side, NEW text, NEW push, NEW photos,
           snap[to].photo = NoPhoto \/ push.photo = snap[to].photo
    PROVE  Meant(Writing(to, text, push, None, photos))
<1> DEFINE o == Writing(to, text, push, None, photos)
<1>1. o.to = to /\ o.push = push /\ o.counter = None
  BY DEF Writing, Planning
<1> HIDE DEF o
<1>2. snap["fastmail"] \in AnyCard /\ CardFits("fastmail", snap["fastmail"])
  BY Sides DEF Types, SnapTells
<1>3. PushTo(o, "fastmail") = IF to = "fastmail" THEN push ELSE None
  BY <1>1 DEF PushTo
<1>4. ASSUME to = "fastmail", push.photo = snap[to].photo
      PROVE  Meant(o)
  <2>1. snap["fastmail"].photo # NoPhoto => push.photo.pic # None
    BY <1>2, <1>4, NoPictureNoPhoto
  <2>2. o.counter = None /\ PushTo(o, "fastmail") = push
    BY <1>1, <1>3, <1>4
  <2> QED BY <1>4, <2>1, <2>2 DEF Meant
<1>5. ASSUME to = "icloud" \/ snap[to].photo = NoPhoto
      PROVE  Meant(o)
  <2>1. PushTo(o, "fastmail") = None \/ snap["fastmail"].photo = NoPhoto
    BY <1>3, <1>5, Sides
  <2> QED BY <1>1, <2>1 DEF Meant
<1>6. Meant(o)
  BY <1>4, <1>5, Sides
<1> QED BY <1>6 DEF o

\* Photos and text of a contact on both sides.
LEMMA PushIsMeant ==
    ASSUME Types, Fresh, RowTells, SnapTells, RowRemembers, pc = "plan", row # None,
           NEW to \in Side, NEW text
    PROVE  Meant(Push(to, text))
<1> DEFINE plan == PhotoPlan(Rec, Now)
           push == [s \in Side |-> IF s = to \/ plan[s] # Keep
                                   THEN Apply(s, plan[s], snap[s].photo) ELSE None]
           o == Push(to, text)
           pic == snap["icloud"].photo.pic
           photo == snap["fastmail"].photo
<1>1. Rec \in PhotoState /\ Rec = row.photo
  BY RecFits
<1>2. /\ Now \in [Side -> AnyNow]
      /\ \A s \in Side : /\ Now[s].hash = snap[s].photo.pic
                         /\ Now[s].bytes => Now[s].hash # None
  BY NowFacts
<1>3. /\ \A s \in Side : plan[s] \in Act /\ (plan[s].do = "keep" <=> plan[s] = Keep)
      /\ \A s \in Side : plan[s] # Keep => plan[Other(s)] = Keep
      /\ \A s \in Side : plan[s].do = "remove" => Now[Other(s)].hash = None
      /\ \A s \in Side : plan[s].do = "set" => plan[s].pic = Now[Other(s)].hash
  BY <1>1, <1>2, PlanFacts
<1>4. \A l \in Leader(Rec, Now) : IF Rec.tracked THEN Now[l].hash # Rec[l]
                                  ELSE Now[l].hash # None /\ Now[Other(l)].hash = None
  BY <1>1, <1>2, LeaderIsAlone
<1>5. plan["fastmail"] # Keep => "icloud" \in Leader(Rec, Now)
  BY Sides DEF PhotoPlan
<1>6. \A s \in Side : snap[s] \in AnyCard /\ snap[s].photo \in AnyPhoto
  BY DEF Types, AnyCard
<1>7. \A s \in Side : /\ plan[s].do = "keep" => Apply(s, plan[s], snap[s].photo).photo = snap[s].photo
                      /\ plan[s].do = "remove" => Apply(s, plan[s], snap[s].photo).photo.pic = None
                      /\ plan[s].do = "set" /\ s = "fastmail" =>
                            Apply(s, plan[s], snap[s].photo).photo.pic = plan[s].pic
  <2> TAKE s \in Side
  <2>1. plan[s] \in [do : {"keep", "remove"}, pic : {None}] \cup [do : {"set"}, pic : Picture]
    BY <1>3 DEF Act
  <2> HIDE DEF plan
  <2> QED BY <1>6, <2>1, ApplyFacts DEF NoPhoto, Photo
<1>8. o.to = to /\ o.push = push[to] /\ o.counter = push[Other(to)]
  BY DEF Push, Writing, Planning
<1>9. \A s \in Side : push[s] = IF s = to \/ plan[s] # Keep THEN Apply(s, plan[s], snap[s].photo) ELSE None
  OBVIOUS
<1> HIDE DEF plan, push, o
<1>10. o.counter # None => o.push.photo = snap[to].photo
  BY <1>3, <1>7, <1>8, <1>9, Sides
<1>11. PushTo(o, "fastmail") = push["fastmail"]
  BY <1>8, Sides DEF PushTo
<1>12. ASSUME push["fastmail"] # None, photo # NoPhoto
       PROVE  /\ push["fastmail"].photo.pic = None => removed # {}
              /\ push["fastmail"].photo.pic \in Shrunk => push["fastmail"].photo.pic = photo.pic
  <2>1. push["fastmail"] = Apply("fastmail", plan["fastmail"], photo)
    BY <1>9, <1>12, Sides
  <2>2. photo.pic # None
    BY <1>6, <1>12, NoPictureNoPhoto, Sides DEF SnapTells
  <2>3. Rec.tracked => Remembers(Rec.icloud, pic)
    BY <1>1 DEF RowRemembers
  <2>4. CASE plan["fastmail"].do = "keep"
    BY <1>7, <2>1, <2>2, <2>4, Sides
  <2>5. ASSUME plan["fastmail"].do # "keep"
        PROVE  Rec.tracked /\ pic # Rec.icloud
    <3>1. "icloud" \in Leader(Rec, Now)
      BY <1>3, <1>5, <2>5, Sides
    <3>2. Now["icloud"].hash = pic /\ Now["fastmail"].hash = photo.pic
      BY <1>2, Sides
    <3> QED BY <1>4, <2>2, <3>1, <3>2, Sides
  <2>6. CASE plan["fastmail"].do = "remove"
    <3>1. pic = None /\ push["fastmail"].photo.pic = None
      BY <1>2, <1>3, <1>7, <2>1, <2>6, Sides
    <3> QED BY <2>3, <2>5, <2>6, <3>1, RemembersItself DEF Remembers
  <2>7. CASE plan["fastmail"].do = "set"
    <3>1. push["fastmail"].photo.pic = pic
      BY <1>2, <1>3, <1>7, <2>1, <2>7, Sides
    <3>2. pic # None
      BY <1>3, <2>7, <1>2, PhotoAssumptions, Sides DEF Act, PhotoAssumptions
    <3> QED BY <2>3, <2>5, <2>7, <3>1, <3>2 DEF Remembers
  <2> QED BY <1>3, <2>4, <2>6, <2>7, Sides DEF Act
<1> QED BY <1>8, <1>10, <1>11, <1>12 DEF Meant, o

\* The operations of a contact of which only the photo moved.
LEMMA PhotoOnlyIsMeant ==
    ASSUME Types, Fresh, RowTells, SnapTells, RowRemembers, pc = "plan", row # None,
           NEW text, NEW refreshed \in BOOLEAN, NEW o \in PhotoOnly(text, refreshed),
           o.kind = "write"
    PROVE  Meant(o)
<1> DEFINE to == {s \in Side : PhotoPlan(Rec, Now)[s] # Keep}
           next == NextState(Rec, Now, PhotoPlan(Rec, Now), [s \in Side |-> None])
<1>1. o \in IF to # {} THEN {Push(s, snap[s].text) : s \in {s \in to : Fetched(s)}}
            ELSE IF refreshed \/ next # Rec THEN {Saving("refresh", text, next)}
            ELSE {}
  BY DEF PhotoOnly
<1>2. to \subseteq Side
  OBVIOUS
<1> HIDE DEF to, next
<1>3. o # Saving("refresh", text, next)
  BY DEF Saving, Planning
<1>4. \E s \in Side : o = Push(s, snap[s].text)
  BY <1>1, <1>2, <1>3
<1> QED BY <1>4, PushIsMeant

\* The operations of a contact both sides have, or had.
LEMMA MergeIsMeant ==
    ASSUME Types, Fresh, RowTells, SnapTells, RowRemembers, pc = "plan", row # None,
           NEW o \in Merge, o.kind = "write"
    PROVE  Meant(o)
<1> DEFINE edited == {s \in Side : Edited(s)}
           gone == {s \in Side : ~ Present(snap[s])}
           agreed == edited = Side /\ snap["icloud"].text = snap["fastmail"].text
<1>0. Winner \in Side /\ \A s \in Side : Other(s) \in Side
  BY Sides, PhotoAssumptions DEF PhotoAssumptions
<1>1. o \in IF gone = Side THEN {Saving("forget", None, Untracked)}
            ELSE IF edited # {} /\ gone # {} THEN {Resurrect(s) : s \in gone}
            ELSE IF gone # {} THEN {Deleting(Other(s)) : s \in gone}
            ELSE IF agreed THEN PhotoOnly(snap["icloud"].text, TRUE)
            ELSE IF edited = Side THEN {Push(Other(Winner), snap[Winner].text)}
            ELSE IF edited # {} THEN {Push(Other(s), snap[s].text) : s \in edited}
            ELSE PhotoOnly(row.text, \E s \in Side : Fetched(s))
  BY Zenon DEF Merge
<1>2. o # Saving("forget", None, Untracked) /\ \A s : o # Deleting(s)
  BY DEF Saving, Deleting, Planning
<1>3. ASSUME NEW s \in gone, o = Resurrect(s)
      PROVE  Meant(o)
  <2>1. s \in Side /\ snap[s].photo = NoPhoto
    BY DEF SnapTells, CardFits, Present
  <2> DEFINE copy == CopyPhoto(s, Now[Other(s)])
  <2>2. o = Writing(s, snap[Other(s)].text, copy.push, None, copy.photos)
    BY <1>3 DEF Resurrect
  <2> HIDE DEF copy
  <2> QED BY <2>1, <2>2, WritingIsMeant
<1>4. ASSUME NEW s \in Side, NEW text, o = Push(s, text)
      PROVE  Meant(o)
  BY <1>4, PushIsMeant
<1>5. ASSUME NEW text, NEW refreshed \in BOOLEAN, o \in PhotoOnly(text, refreshed)
      PROVE  Meant(o)
  BY <1>5, PhotoOnlyIsMeant
<1>6. edited \subseteq Side /\ (\E s \in Side : Fetched(s)) \in BOOLEAN
  OBVIOUS
<1> HIDE DEF edited, gone, agreed
<1>7. \/ \E s \in gone : o = Resurrect(s)
      \/ o \in PhotoOnly(snap["icloud"].text, TRUE)
      \/ o = Push(Other(Winner), snap[Winner].text)
      \/ \E s \in edited : o = Push(Other(s), snap[s].text)
      \/ o \in PhotoOnly(row.text, \E s \in Side : Fetched(s))
  BY <1>1, <1>2
<1> QED BY <1>0, <1>3, <1>4, <1>5, <1>6, <1>7

\* The operations of a contact with no row.
LEMMA PairCardsAreMeant ==
    ASSUME Types, SnapTells, pc = "plan", NEW o \in PairCards, o.kind = "write"
    PROVE  Meant(o)
<1> DEFINE present == {s \in Side : Present(snap[s])}
           copy(s) == CopyPhoto(Other(s), Current(snap[s].photo, Untracked))
           loser == Other(Winner)
           push == Apply(loser, Keep, snap[loser].photo)
<1>1. o \in IF present = {} THEN {}
            ELSE IF present # Side
            THEN {Writing(Other(s), snap[s].text, copy(s).push, None, copy(s).photos) : s \in present}
            ELSE IF snap["icloud"].text = snap["fastmail"].text
            THEN {Saving("adopt", snap["icloud"].text, Untracked)}
            ELSE {Writing(loser, snap[Winner].text, push, None, Untracked)}
  BY Zenon DEF PairCards
<1>2. o # Saving("adopt", snap["icloud"].text, Untracked)
  BY DEF Saving, Planning
<1>3. loser \in Side /\ push.photo = snap[loser].photo
  BY Sides, PhotoAssumptions DEF PhotoAssumptions, Apply, Keep
<1>4. ASSUME present # Side, NEW s \in present,
             o = Writing(Other(s), snap[s].text, copy(s).push, None, copy(s).photos)
      PROVE  Meant(o)
  <2>1. Other(s) \in Side /\ ~ Present(snap[Other(s)])
    BY <1>4, Sides
  <2>2. snap[Other(s)].photo = NoPhoto
    BY <2>1 DEF SnapTells, CardFits, Present
  <2> HIDE DEF copy
  <2> QED BY <1>4, <2>1, <2>2, WritingIsMeant
<1> HIDE DEF present, copy, loser, push
<1>5. \/ present # Side /\ \E s \in present :
             o = Writing(Other(s), snap[s].text, copy(s).push, None, copy(s).photos)
      \/ o = Writing(loser, snap[Winner].text, push, None, Untracked)
  BY <1>1, <1>2
<1> QED BY <1>3, <1>4, <1>5, WritingIsMeant

\* Every operation the planner makes sends Fastmail what it is meant to have.
LEMMA PlannedIsMeant ==
    ASSUME Types, Fresh, RowTells, SnapTells, RowRemembers, pc = "plan", NEW o \in Planned,
           o.kind = "write"
    PROVE  Meant(o)
BY PairCardsAreMeant, MergeIsMeant DEF Planned

\* What people make of iCloud's picture is theirs.
LEMMA PeopleOwn ==
    ASSUME IInv, People, OwnPhotos, ~ EditsAtReadBack
    PROVE  OwnPhotos'
<1>0. Types /\ card \in [Side -> AnyCard]
  BY DEF IInv, Types
<1>1. UNCHANGED <<row, cycle, faults>> /\ removed \subseteq removed'
  BY DEF People, NewUri, EditText, SetPhoto, RemovePhoto, DeleteCard, Edit
<1>2. pc = "readback" => FALSE
  BY DEF People, NewUri, EditText, SetPhoto, RemovePhoto, DeleteCard, Edit
<1>3. Icloud' = Icloud \/ Icloud' \in UserPics \/ (removed' # {} /\ Icloud' = None)
  <2>1. CASE NewUri
    BY <1>0, <2>1, Sides DEF NewUri, Card, Photo, Icloud
  <2>2. ASSUME NEW s \in Side, EditText(s)
        PROVE  Icloud' = Icloud
    BY <1>0, <2>2, Sides DEF EditText, Card, Icloud
  <2>3. ASSUME NEW s \in Side, SetPhoto(s)
        PROVE  Icloud' = Icloud \/ Icloud' \in UserPics
    BY <1>0, <2>3, Sides DEF SetPhoto, Card, Photo, Icloud
  <2>4. ASSUME NEW s \in Side, RemovePhoto(s)
        PROVE  removed' # {} /\ (Icloud' = Icloud \/ Icloud' = None)
    BY <1>0, <2>4, Sides DEF RemovePhoto, Card, NoPhoto, Photo, Icloud
  <2>5. ASSUME NEW s \in Side, DeleteCard(s)
        PROVE  removed' # {} /\ (Icloud' = Icloud \/ Icloud' = None)
    BY <1>0, <2>5, Sides DEF DeleteCard, Gone, Card, NoPhoto, Photo, Icloud
  <2> QED BY <2>1, <2>2, <2>3, <2>4, <2>5 DEF People
<1>4. \A x : Remembers(x, Icloud) => Remembers(x, Icloud)'
  BY <1>1, <1>3, RemembersItself DEF Remembers
<1>5. \A x, pic : Remembers(x, pic) => Remembers(x, pic)'
  BY <1>1 DEF Remembers
<1>6. UNCHANGED <<pc, snap, op, row>>
  BY <1>1 DEF cycle
<1>7. \A o : Meant(o) => Meant(o)'
  BY <1>1, <1>6 DEF Meant, PushTo
<1>8. Final' = Final
  BY <1>6 DEF Final
<1>9. RowRemembers'
  BY <1>4, <1>5, <1>6 DEF OwnPhotos, RowRemembers
<1>10. SnapRemembers'
  BY <1>4, <1>6 DEF OwnPhotos, SnapRemembers
<1>11. OpRemembers'
  BY <1>2, <1>4, <1>6, <1>7, <1>8 DEF OwnPhotos, OpRemembers
<1> QED BY <1>9, <1>10, <1>11 DEF OwnPhotos

\* A read keeps OwnPhotos: what is read is what is there.
LEMMA ReadOwn ==
    ASSUME Read, OwnPhotos
    PROVE  OwnPhotos'
<1>1. pc = "wait" /\ pc' = "plan" /\ snap' = card /\ UNCHANGED <<card, row, removed>>
  BY DEF Read
<1>2. \A x, pic : Remembers(x, pic)' <=> Remembers(x, pic)
  BY <1>1 DEF Remembers
<1>3. Icloud' = Icloud /\ snap'["icloud"].photo.pic = Icloud
  BY <1>1 DEF Icloud
<1>4. RowRemembers'
  BY <1>1, <1>2, <1>3 DEF OwnPhotos, RowRemembers
<1>5. SnapRemembers' /\ OpRemembers'
  BY <1>1, <1>2, <1>3, RemembersItself DEF SnapRemembers, OpRemembers
<1> QED BY <1>4, <1>5 DEF OwnPhotos

\* The end of a cycle that leaves card and row as they are.
LEMMA EndOwn ==
    ASSUME OwnPhotos, pc' = "wait", UNCHANGED <<card, row, removed>>,
           \/ pc \notin {"readback", "save"}
           \/ pc = "readback" /\ ~ Present(card["icloud"])
    PROVE  OwnPhotos'
<1>1. pc \notin {"readback", "save"}
  BY DEF OwnPhotos, OpRemembers
<1>2. \A x, pic : Remembers(x, pic)' <=> Remembers(x, pic)
  BY DEF Remembers
<1>3. Icloud' = Icloud
  BY DEF Icloud
<1>4. RowRemembers'
  BY <1>1, <1>2, <1>3 DEF OwnPhotos, RowRemembers
<1>5. SnapRemembers' /\ OpRemembers'
  BY DEF SnapRemembers, OpRemembers
<1> QED BY <1>4, <1>5 DEF OwnPhotos

\* A plan keeps OwnPhotos.
LEMMA PlanOwn ==
    ASSUME IInv, Plan, OwnPhotos
    PROVE  OwnPhotos'
<1>0. Types /\ Fresh /\ RowTells /\ SnapTells /\ NoGaps /\ RowRemembers /\ SnapRemembers
      /\ pc = "plan" /\ UNCHANGED <<card, row, removed>>
  BY DEF IInv, Plan, OwnPhotos
<1>1. CASE pc' = "wait"
  BY <1>0, <1>1, EndOwn
<1>2. ASSUME NEW o \in Planned, op' = o, pc' = FirstStep(o), snap' = snap
      PROVE  OwnPhotos'
  <2>1. Planable(o) /\ (o.kind = "write" => Meant(o))
    BY <1>0, PlannedFits, PlannedIsMeant
  <2>2. pc' = IF o.kind = "write" THEN "main" ELSE IF o.kind = "delete" THEN "delete" ELSE "save"
    BY <1>2 DEF FirstStep
  <2>3. \A x, pic : Remembers(x, pic)' <=> Remembers(x, pic)
    BY <1>0 DEF Remembers
  <2>4. Icloud' = Icloud
    BY <1>0 DEF Icloud
  <2>5. RowRemembers'
    BY <1>0, <2>2, <2>3, <2>4 DEF RowRemembers
  <2>6. SnapRemembers'
    BY <1>0, <1>2, <2>3, <2>4 DEF SnapRemembers
  <2>7. pc' \in {"main", "counter"} => Meant(o)'
    <3>1. pc' \in {"main", "counter"} => Meant(o)
      BY <2>1, <2>2
    <3>2. Meant(o) => Meant(o)'
      BY <1>0, <1>2 DEF Meant, PushTo
    <3> QED BY <3>1, <3>2
  <2>8. ASSUME pc' = "save", o.photos.tracked
        PROVE  Remembers(Final'.icloud, Icloud)
    <3>1. Final' = o.photos
      BY <1>2, <2>1, CycleAssumption DEF Final, Landed, Planable, AnyOp
    <3>2. o.photos.icloud = snap["icloud"].photo.pic
      BY <2>1, <2>2, <2>8, Sides DEF Planable, OpPushes
    <3> QED BY <1>0, <3>1, <3>2 DEF SnapRemembers
  <2>9. OpRemembers'
    BY <1>2, <2>2, <2>3, <2>4, <2>7, <2>8 DEF OpRemembers
  <2> QED BY <2>5, <2>6, <2>9 DEF OwnPhotos
<1> QED BY <1>1, <1>2 DEF Plan, EndCycle

\* What a PUT makes of a card.
LEMMA PutWrites ==
    ASSUME Types, NEW s \in Side, NEW text, NEW push, NEW then, Put(s, text, push, then)
    PROVE  /\ card[s].ver = snap[s].ver /\ UNCHANGED row
           /\ card'[s].text = text
           /\ \A r \in Side \ {s} : card'[r] = card[r]
           /\ \/ card'[s].photo.pic = push.photo.pic
              \/ IsFresh(s, push) /\ card'[s].photo = NoPhoto
           /\ "lost" \notin faults' =>
                 /\ op' = [op EXCEPT !.ver[s] = clock + 1] /\ snap' = snap
                 /\ pc' = IF IsFresh(s, push) THEN "readback" ELSE then
<1>1. card \in [Side -> AnyCard]
  BY DEF Types
<1> DEFINE becomes(photo) == card' = [card EXCEPT ![s] = Card(text, photo, clock')]
           answered == /\ op' = [op EXCEPT !.ver[s] = clock']
                       /\ pc' = IF IsFresh(s, push) THEN "readback" ELSE then
                       /\ UNCHANGED <<token, failing, snap>>
           kept == becomes(push.photo) \/ (IsFresh(s, push) /\ becomes(Photo(push.photo.pic, clock')))
           lost == EndCycle(FALSE, failing \/ row # None) /\ Fault("lost")
<1>2. /\ card[s].ver = snap[s].ver /\ UNCHANGED row /\ clock' = clock + 1
      /\ \/ kept /\ answered
         \/ IsFresh(s, push) /\ becomes(NoPhoto) /\ answered
         \/ kept /\ lost
  BY DEF Put, Matches, IsFresh
<1>3. \A photo : becomes(photo) => /\ card'[s].text = text /\ card'[s].photo = photo
                                   /\ \A r \in Side \ {s} : card'[r] = card[r]
  BY <1>1 DEF Card
<1>4. lost => "lost" \in faults'
  BY DEF Fault
<1>5. Photo(push.photo.pic, clock').pic = push.photo.pic
  BY DEF Photo
<1>6. answered => /\ op' = [op EXCEPT !.ver[s] = clock + 1] /\ snap' = snap
                  /\ pc' = IF IsFresh(s, push) THEN "readback" ELSE then
  BY <1>2
<1> HIDE DEF becomes, answered, lost
<1>7. /\ card'[s].text = text
      /\ \A r \in Side \ {s} : card'[r] = card[r]
      /\ \/ card'[s].photo.pic = push.photo.pic
         \/ IsFresh(s, push) /\ card'[s].photo = NoPhoto
  BY <1>2, <1>3, <1>5
<1>8. answered \/ lost
  BY <1>2
<1> QED BY <1>2, <1>4, <1>6, <1>7, <1>8

\* A PUT keeps OwnPhotos, unless its answer is lost: it sends iCloud the picture
\* read there, none, or a new one, which the operation goes on to save.
LEMMA PutOwn ==
    ASSUME IInv, OwnPhotos, pc \in {"main", "counter"}, NEW s \in Side, NEW text, text # None,
           NEW then, PushTo(op, s) # None, UNCHANGED removed, "lost" \notin faults',
           \/ /\ pc = "main" /\ s = op.to
              /\ then = IF op.counter = None THEN "save" ELSE "counter"
           \/ pc = "counter" /\ s = Other(op.to) /\ then = "save",
           Put(s, text, PushTo(op, s), then)
    PROVE  OwnPhotos'
<1> DEFINE push == PushTo(op, s)
<1>0. /\ Types /\ SnapTells /\ OpTells /\ RowRemembers /\ SnapRemembers /\ Meant(op)
      /\ Busy /\ op \in AnyOp /\ OpPushes(op) /\ op.kind = "write" /\ op.to \in Side
      /\ op.landed = None /\ op.uri = NoUri
  BY DEF IInv, Types, Busy, OpTells, OwnPhotos, OpRemembers, OpPushes
<1>1. /\ card[s].ver = snap[s].ver /\ UNCHANGED row
      /\ card'[s].text = text
      /\ \A r \in Side \ {s} : card'[r] = card[r]
      /\ \/ card'[s].photo.pic = push.photo.pic
         \/ IsFresh(s, push) /\ card'[s].photo = NoPhoto
      /\ op' = [op EXCEPT !.ver[s] = clock + 1] /\ snap' = snap
      /\ pc' = IF IsFresh(s, push) THEN "readback" ELSE then
  BY <1>0, PutWrites
<1>2. card[s] = snap[s]
  BY <1>0, <1>1 DEF SnapTells, Busy
<1>3. /\ op'.kind = op.kind /\ op'.to = op.to /\ op'.push = op.push /\ op'.counter = op.counter
      /\ op'.photos = op.photos /\ op'.landed = None /\ op'.uri = NoUri
  <2>1. clock + 1 \in Nat
    BY <1>0 DEF Types
  <2> QED BY <1>0, <1>1, <2>1, VerChanges
<1>4. \A x, pic : Remembers(x, pic)' <=> Remembers(x, pic)
  BY DEF Remembers
<1>5. /\ s = "icloud" /\ ~ IsFresh(s, push) => Icloud' = push.photo.pic
      /\ s = "fastmail" => Icloud' = Icloud
  BY <1>1, Sides DEF Icloud
<1>6. Meant(op)'
  <2>1. \A r \in Side : PushTo(op, r)' = PushTo(op, r)
    BY <1>3 DEF PushTo
  <2>2. /\ op'.counter # None => op'.push.photo = snap'[op'.to].photo
        /\ PushTo(op, "fastmail")' # None /\ snap'["fastmail"].photo # NoPhoto =>
               /\ PushTo(op, "fastmail")'.photo.pic = None => removed' # {}
               /\ PushTo(op, "fastmail")'.photo.pic \in Shrunk =>
                     PushTo(op, "fastmail")'.photo.pic = snap'["fastmail"].photo.pic
    BY <1>0, <1>1, <1>3, <2>1, Sides DEF Meant
  <2> QED BY <2>2 DEF Meant
<1>7. \/ pc' = "readback" /\ s = "icloud"
      \/ pc' = "save" /\ ~ IsFresh(s, push)
      \/ pc' = "counter" /\ pc = "main" /\ s = op.to /\ op.counter # None /\ ~ IsFresh(s, push)
  BY <1>1 DEF IsFresh
<1>8. CASE pc' = "readback" /\ s = "icloud"
  <2>1. Present(card["icloud"])'
    BY <1>1, <1>8 DEF Present
  <2>2. OpRemembers'
    BY <1>8, <2>1 DEF OpRemembers
  <2> QED BY <1>8, <2>2 DEF OwnPhotos, RowRemembers, SnapRemembers
<1>9. CASE pc' = "save" /\ ~ IsFresh(s, push)
  <2>1. Final' = op.photos
    BY <1>3, CycleAssumption DEF Final, Landed, CycleAssumption
  <2>2. ASSUME op.photos.tracked
        PROVE  Remembers(op.photos.icloud, Icloud')
    <3>1. op.photos.icloud = IF PushTo(op, "icloud") # None THEN PushTo(op, "icloud").photo.pic
                             ELSE snap["icloud"].photo.pic
      BY <1>0, <2>2, Sides DEF OpPushes
    <3>2. CASE s = "icloud"
      BY <1>5, <1>9, <3>1, <3>2, RemembersItself
    <3>3. CASE s = "fastmail"
      <4>1. Icloud' = Icloud /\ Remembers(snap["icloud"].photo.pic, Icloud)
        BY <1>0, <1>5, <3>3 DEF SnapRemembers
      <4>2. op.photos.icloud = snap["icloud"].photo.pic
        <5>1. CASE pc = "main"
          <6>1. op.to = "fastmail" /\ op.counter = None
            BY <1>1, <1>9, <3>3, <5>1
          <6>2. PushTo(op, "icloud") = None
            BY <6>1 DEF PushTo
          <6> QED BY <3>1, <6>2
        <5>2. CASE pc = "counter"
          <6>1. op.to = "icloud"
            BY <1>0, <3>3, <5>2, Sides
          <6>2. op.counter # None
            BY <1>0, <5>2 DEF OpTells
          <6>3. PushTo(op, "icloud") = op.push /\ op.push.photo = snap["icloud"].photo
            BY <1>0, <6>1, <6>2 DEF PushTo, Meant
          <6> QED BY <3>1, <6>3
        <5> QED BY <5>1, <5>2
      <4> QED BY <4>1, <4>2
    <3> QED BY <3>2, <3>3, Sides
  <2>3. OpRemembers'
    BY <1>3, <1>4, <1>9, <2>1, <2>2 DEF OpRemembers
  <2> QED BY <1>9, <2>3 DEF OwnPhotos, RowRemembers, SnapRemembers
<1>10. CASE pc' = "counter" /\ pc = "main" /\ s = op.to /\ op.counter # None /\ ~ IsFresh(s, push)
  <2>1. Icloud' = Icloud
    <3>1. push = op.push /\ op.push.photo = snap[s].photo
      BY <1>0, <1>10 DEF PushTo, Meant
    <3> HIDE DEF push
    <3>2. s = "icloud" => Icloud = push.photo.pic
      BY <1>2, <3>1 DEF Icloud
    <3> QED BY <1>5, <1>10, <3>2, Sides
  <2>2. RowRemembers'
    BY <1>0, <1>1, <1>4, <1>10, <2>1 DEF RowRemembers
  <2>3. SnapRemembers'
    BY <1>0, <1>1, <1>4, <1>10, <2>1 DEF SnapRemembers
  <2>4. OpRemembers'
    BY <1>6, <1>10 DEF OpRemembers
  <2> QED BY <2>2, <2>3, <2>4 DEF OwnPhotos
<1> QED BY <1>7, <1>8, <1>9, <1>10

\* The PUTs keep OwnPhotos.
LEMMA WritesOwn ==
    ASSUME IInv, OwnPhotos, Main \/ Counter, "lost" \notin faults'
    PROVE  OwnPhotos'
<1>1. /\ pc \in {"main", "counter"} /\ Busy /\ OpPushes(op) /\ op.kind = "write" /\ op \in AnyOp
      /\ UNCHANGED removed /\ (pc = "counter" => op.counter # None)
  BY DEF Main, Counter, Busy, IInv, OpTells, Types
<1>2. CASE Fails
  BY <1>1, <1>2, EndOwn DEF Fails, EndCycle
<1>3. CASE pc = "main" /\ Put(op.to, op.text, op.push, IF op.counter = None THEN "save" ELSE "counter")
  <2> DEFINE then == IF op.counter = None THEN "save" ELSE "counter"
             s == op.to
             text == op.text
  <2>1. /\ s \in Side /\ text # None /\ PushTo(op, s) = op.push /\ op.push # None
        /\ Put(s, text, PushTo(op, s), then) /\ s = op.to
        /\ then = IF op.counter = None THEN "save" ELSE "counter"
    BY <1>1, <1>3 DEF OpPushes, PushTo
  <2> HIDE DEF then, s, text
  <2> QED BY <1>1, <1>3, <2>1, PutOwn
<1>4. CASE pc = "counter" /\ Put(Other(op.to), snap[Other(op.to)].text, op.counter, "save")
  <2> DEFINE s == Other(op.to)
             text == snap[s].text
  <2>1. s \in Side /\ s # op.to /\ s = Other(op.to)
    BY <1>1, Sides DEF OpPushes
  <2>2. PushTo(op, s) = op.counter /\ text # None
    BY <1>1, <1>4, <2>1 DEF PushTo, OpPushes, Present
  <2>3. Put(s, text, PushTo(op, s), "save") /\ PushTo(op, s) # None
    BY <1>1, <1>4, <2>2
  <2> HIDE DEF s, text
  <2> QED BY <1>1, <1>4, <2>1, <2>2, <2>3, PutOwn
<1> QED BY <1>2, <1>3, <1>4 DEF Main, Counter

\* A read-back keeps OwnPhotos, if it sees what iCloud dropped.
LEMMA ReadBackOwn ==
    ASSUME IInv, OwnPhotos, ReadBack, ~ DropUnseen'
    PROVE  OwnPhotos'
<1>0. /\ Types /\ OpTells /\ pc = "readback" /\ Busy /\ op \in AnyOp /\ OpPushes(op) /\ op.kind = "write"
      /\ PushTo(op, "icloud") # None /\ UNCHANGED removed
  BY DEF ReadBack, IInv, Busy, Types, OpTells
<1>1. \/ Icloud = PushTo(op, "icloud").photo.pic
      \/ Icloud = None /\ "drop" \in faults
  BY <1>0 DEF OpTells, Icloud
<1>2. op.photos.tracked => op.photos.icloud = PushTo(op, "icloud").photo.pic
  BY <1>0, Sides DEF OpPushes
<1>3. CASE Fails /\ ~ Present(card["icloud"])
  BY <1>0, <1>3, EndOwn DEF Fails, EndCycle
<1>4. ASSUME NEW l \in {"uri", "inline", "dropped"}, NEW u \in Nat, NEW v \in Nat, NEW d \in BOOLEAN,
             op' = Lands(op, l, u, v, d), pc' = "save", UNCHANGED <<snap, card, row>>,
             IF l = "dropped" THEN Icloud = None ELSE Icloud = PushTo(op, "icloud").photo.pic
      PROVE  OwnPhotos'
  <2> DEFINE new == Lands(op, l, u, v, d)
  <2>9. op \in AnyOp
    BY <1>0
  <2>0. new.photos = op.photos /\ new.landed = l /\ new.uri = u
    BY <2>9 DEF Lands, AnyOp
  <2> HIDE DEF new
  <2>1. op'.photos = op.photos /\ op'.landed = l /\ op'.uri = u
    BY <1>4, <2>0 DEF new
  <2>2. Final' = Landed(op.photos, l, u) /\ op.photos \in PhotoState
    BY <1>0, <2>1 DEF Final, AnyOp
  <2>3. Final'.icloud = IF l = "dropped" THEN None ELSE op.photos.icloud
    BY <1>4, <2>2 DEF Landed, PhotoState
  <2>4. op.photos.tracked => Final'.icloud = Icloud
    BY <1>2, <1>4, <2>3
  <2>5. Icloud' = Icloud /\ Remembers(Icloud, Icloud)'
    BY <1>4, RemembersItself DEF Icloud, Remembers
  <2>6. op'.photos.tracked => Remembers(Final.icloud, Icloud)'
    BY <2>1, <2>4, <2>5 DEF Remembers
  <2>7. OpRemembers'
    BY <1>4, <2>6 DEF OpRemembers
  <2> QED BY <1>4, <2>7 DEF OwnPhotos, RowRemembers, SnapRemembers
<1>5. ASSUME Present(card["icloud"]),
             op' = [op EXCEPT !.landed = IF card["icloud"].photo.uri # NoUri THEN "uri"
                                         ELSE IF card["icloud"].photo.pic # None THEN "inline" ELSE "dropped",
                              !.uri = card["icloud"].photo.uri, !.ver["icloud"] = card["icloud"].ver,
                              !.deferred = FALSE],
             pc' = "save", UNCHANGED <<snap, card, row>>
      PROVE  OwnPhotos'
  <2> DEFINE l == IF card["icloud"].photo.uri # NoUri THEN "uri"
                  ELSE IF card["icloud"].photo.pic # None THEN "inline" ELSE "dropped"
             u == card["icloud"].photo.uri
             v == card["icloud"].ver
  <2>1. card["icloud"] \in AnyCard /\ CardFits("icloud", card["icloud"])
    BY <1>0, Sides DEF Types, IInv, Fresh
  <2>2. l \in {"uri", "inline", "dropped"} /\ u \in Nat /\ v \in Nat
    BY <2>1 DEF AnyCard, AnyPhoto
  <2>3. IF l = "dropped" THEN Icloud = None ELSE Icloud = PushTo(op, "icloud").photo.pic
    BY <1>1, <2>1 DEF CardFits, Icloud
  <2>4. op' = Lands(op, l, u, v, FALSE)
    BY <1>5 DEF Lands
  <2> HIDE DEF l, u, v
  <2> QED BY <1>4, <1>5, <2>2, <2>3, <2>4
<1>6. ASSUME Fault("readback"), NEW d \in BOOLEAN,
             op' = [op EXCEPT !.landed = "inline", !.uri = NoUri,
                              !.ver["icloud"] = op.ver["icloud"], !.deferred = d],
             pc' = "save", UNCHANGED <<snap, card, row>>
      PROVE  OwnPhotos'
  <2>1. Icloud = PushTo(op, "icloud").photo.pic
    BY <1>1, <1>6 DEF Fault, DropUnseen
  <2>2. NoUri \in Nat /\ op.ver["icloud"] \in Nat
    BY <1>0, Sides DEF NoUri, AnyOp
  <2>3. op' = Lands(op, "inline", NoUri, op.ver["icloud"], d)
    BY <1>6 DEF Lands
  <2> QED BY <1>4, <1>6, <2>1, <2>2, <2>3
<1> QED BY <1>3, <1>5, <1>6 DEF ReadBack

\* Where a deletion leaves a card, nobody has a row of it.
LEMMA DeleteOwn ==
    ASSUME OwnPhotos, Delete
    PROVE  OwnPhotos'
<1>1. pc = "delete" /\ pc' = "wait" /\ UNCHANGED removed
  BY DEF Delete, Fails, EndCycle
<1>2. CASE row' = None
  BY <1>1, <1>2 DEF OwnPhotos, RowRemembers, SnapRemembers, OpRemembers
<1>3. CASE Fails
  BY <1>1, <1>3, EndOwn DEF Fails
<1> QED BY <1>2, <1>3 DEF Delete

\* What was to be saved is the row's.
LEMMA SaveOwn ==
    ASSUME IInv, OwnPhotos, Save
    PROVE  OwnPhotos'
<1>1. pc = "save" /\ pc' = "wait" /\ UNCHANGED <<card, removed>> /\ Busy /\ Types
  BY DEF Save, EndCycle, Busy, IInv
<1>2. row' # None => row'.photo = Final
  BY DEF Save, Final
<1>3. Final.tracked = op.photos.tracked
  BY <1>1, FinalFits
<1>4. op.photos.tracked => Remembers(Final.icloud, Icloud)
  BY <1>1 DEF OwnPhotos, OpRemembers
<1>5. \A x, pic : Remembers(x, pic)' <=> Remembers(x, pic)
  BY <1>1 DEF Remembers
<1>6. Icloud' = Icloud
  BY <1>1 DEF Icloud
<1>7. RowRemembers'
  BY <1>1, <1>2, <1>3, <1>4, <1>5, <1>6 DEF RowRemembers
<1> QED BY <1>1, <1>7 DEF OwnPhotos, SnapRemembers, OpRemembers

\* OwnPhotos is inductive beside IInv, as long as every write is saved.
LEMMA StepOwn ==
    ASSUME IInv, OwnPhotos, [Next]_vars, ~ EditsAtReadBack, ~ DropUnseen', Saved'
    PROVE  OwnPhotos'
<1>1. CASE UNCHANGED vars
  BY <1>1 DEF OwnPhotos, vars, cycle, RowRemembers, SnapRemembers, OpRemembers, Remembers, Icloud,
              Meant, PushTo, Final, Present
<1>2. "lost" \notin faults' /\ ~ Crash
  BY DEF Saved, Crash, Fault
<1> QED BY <1>1, <1>2, PeopleOwn, ReadOwn, PlanOwn, WritesOwn, ReadBackOwn, DeleteOwn, SaveOwn
        DEF Next, Daemon

\* A run begins with nothing remembered.
LEMMA InitOwn ==
    ASSUME Init
    PROVE  OwnPhotos
BY UntrackedFits DEF Init, OwnPhotos, RowRemembers, SnapRemembers, OpRemembers, Untracked

(***************************************************************************)
(* The theorem.                                                            *)
(***************************************************************************)
\* The property, of one step.
Keeps ==
    /\ FastmailGets({None}) => removed' # {}
    /\ ~ FastmailGets(Shrunk \ {card["fastmail"].photo.pic})

\* A Fastmail card that keeps its picture, or that is deleted.
LEMMA SamePhotoKeeps ==
    ASSUME IInv, \/ card'["fastmail"].photo.pic = card["fastmail"].photo.pic
                 \/ ~ Present(card'["fastmail"])
    PROVE  Keeps
<1>1. card["fastmail"] \in AnyCard /\ CardFits("fastmail", card["fastmail"])
  BY Sides DEF IInv, Types, Fresh
<1>2. card["fastmail"].photo # NoPhoto => card["fastmail"].photo.pic # None
  BY <1>1, NoPictureNoPhoto
<1> QED BY <1>2 DEF Keeps, FastmailGets

\* People remove a photo, or set one of theirs.
LEMMA PeopleKeepIt ==
    ASSUME IInv, People
    PROVE  Keeps
<1> DEFINE pic == card["fastmail"].photo.pic
<1>0. card \in [Side -> AnyCard]
  BY DEF IInv, Types
<1>1. CASE NewUri
  <2>1. card'["fastmail"] = card["fastmail"]
    BY <1>0, <1>1, Sides DEF NewUri
  <2> QED BY <2>1, SamePhotoKeeps
<1>2. ASSUME NEW s \in Side, EditText(s)
      PROVE  Keeps
  <2>1. card'["fastmail"].photo = card["fastmail"].photo
    BY <1>0, <1>2, Sides DEF EditText, Card
  <2> QED BY <2>1, SamePhotoKeeps
<1>3. ASSUME NEW s \in Side, SetPhoto(s)
      PROVE  Keeps
  <2>1. card'["fastmail"] = card["fastmail"] \/ card'["fastmail"].photo.pic \in UserPics
    BY <1>0, <1>3, Sides DEF SetPhoto, Card, Photo
  <2>2. CASE card'["fastmail"].photo.pic \in UserPics
    BY <2>2, RemembersItself DEF Keeps, FastmailGets
  <2> QED BY <2>1, <2>2, SamePhotoKeeps
<1>4. ASSUME NEW s \in Side, RemovePhoto(s)
      PROVE  Keeps
  <2>1. removed' # {}
    BY <1>4 DEF RemovePhoto
  <2>2. card'["fastmail"] = card["fastmail"] \/ card'["fastmail"].photo.pic = None
    BY <1>0, <1>4, Sides DEF RemovePhoto, Card, NoPhoto, Photo
  <2>3. CASE card'["fastmail"].photo.pic = None
    BY <2>1, <2>3, RemembersItself DEF Keeps, FastmailGets
  <2> QED BY <2>2, <2>3, SamePhotoKeeps
<1>5. ASSUME NEW s \in Side, DeleteCard(s)
      PROVE  Keeps
  <2>1. card'["fastmail"] = card["fastmail"] \/ ~ Present(card'["fastmail"])
    BY <1>0, <1>5, Sides DEF DeleteCard, Gone, Card, Present
  <2> QED BY <2>1, SamePhotoKeeps
<1> QED BY <1>1, <1>2, <1>3, <1>4, <1>5 DEF People

\* A PUT sends what is meant.
LEMMA PutKeepsIt ==
    ASSUME IInv, OwnPhotos, pc \in {"main", "counter"}, NEW s \in Side, NEW text, NEW then,
           PushTo(op, s) # None, UNCHANGED removed, Put(s, text, PushTo(op, s), then)
    PROVE  Keeps
<1>1. Types /\ SnapTells /\ Meant(op) /\ pc # "wait"
  BY DEF IInv, OwnPhotos, OpRemembers
<1>2. /\ card[s].ver = snap[s].ver
      /\ \A r \in Side \ {s} : card'[r] = card[r]
      /\ \/ card'[s].photo.pic = PushTo(op, s).photo.pic
         \/ IsFresh(s, PushTo(op, s)) /\ card'[s].photo = NoPhoto
  BY <1>1, PutWrites
<1>3. CASE s = "icloud"
  BY <1>2, <1>3, SamePhotoKeeps, Sides
<1>4. CASE s = "fastmail"
  <2>1. card[s] = snap[s] /\ card'[s].photo.pic = PushTo(op, s).photo.pic
    BY <1>1, <1>2, <1>4 DEF SnapTells, IsFresh
  <2> QED BY <1>1, <1>4, <2>1 DEF Keeps, FastmailGets, Meant
<1> QED BY <1>3, <1>4, Sides

\* Every step that changes a card.
LEMMA StepKeepsIt ==
    ASSUME IInv, OwnPhotos, Next, card' # card
    PROVE  Keeps
<1>1. ASSUME Main
      PROVE  Keeps
  <2>1. /\ pc = "main" /\ op.to \in Side /\ op.push # None /\ UNCHANGED removed
        /\ Put(op.to, op.text, op.push, IF op.counter = None THEN "save" ELSE "counter")
    BY <1>1 DEF Main, Fails, IInv, OpTells, OpPushes, Busy
  <2>2. PushTo(op, op.to) = op.push
    BY DEF PushTo
  <2> QED BY <2>1, <2>2, PutKeepsIt
<1>2. ASSUME Counter
      PROVE  Keeps
  <2>1. /\ pc = "counter" /\ op.to \in Side /\ op.counter # None /\ UNCHANGED removed
        /\ Put(Other(op.to), snap[Other(op.to)].text, op.counter, "save")
    BY <1>2 DEF Counter, Fails, IInv, OpTells, OpPushes, Busy
  <2>2. Other(op.to) \in Side /\ PushTo(op, Other(op.to)) = op.counter
    BY <2>1, Sides DEF PushTo
  <2> QED BY <2>1, <2>2, PutKeepsIt
<1>3. ASSUME Delete
      PROVE  Keeps
  <2>1. card \in [Side -> AnyCard] /\ op.to \in Side
    BY <1>3 DEF Delete, IInv, Types, OpTells, OpPushes, Busy
  <2>2. card' = [card EXCEPT ![op.to] = Gone(clock')]
    BY <1>3 DEF Delete, Fails
  <2>3. card'["fastmail"] = card["fastmail"] \/ ~ Present(card'["fastmail"])
    BY <2>1, <2>2, Sides DEF Gone, Card, Present
  <2> QED BY <2>3, SamePhotoKeeps
<1>4. ~ (Read \/ Plan \/ ReadBack \/ Save \/ Crash)
  BY DEF Read, Plan, ReadBack, Fails, Save, Crash
<1> QED BY <1>1, <1>2, <1>3, <1>4, PeopleKeepIt DEF Next, Daemon

\* FastmailKeepsItsPhoto, whatever the contact, the pictures, the number of
\* edits and the faults, but for a drop that nobody could see.
THEOREM FastmailKeepsIt ==
    ASSUME ~ EditsAtReadBack, SeenOrOne
    PROVE  Spec => FastmailKeepsItsPhoto
<1> DEFINE OwnInv == IInv /\ (Saved => OwnPhotos)
<1>1. Init => OwnInv
  BY InitTells, InitOwn
<1>2. Init => FaultsFit
  <2>1. IsFiniteSet({}) /\ Cardinality({}) = 0 /\ MaxFaults \in Nat
    BY FS_EmptySet, CycleAssumption DEF CycleAssumption
  <2> QED BY <2>1 DEF Init, FaultsFit
<1>3. FaultsFit /\ [Next]_vars => FaultsFit'
  BY FaultsKeep
<1>4. FaultsFit' => ~ DropUnseen'
  <2>1. FaultsFit => ~ DropUnseen
    BY DropIsSeen
  <2> QED BY <2>1, PTL
<1>5. OwnInv /\ ~ DropUnseen' /\ [Next]_vars => OwnInv'
  <2> SUFFICES ASSUME OwnInv, ~ DropUnseen', [Next]_vars
               PROVE  OwnInv'
    OBVIOUS
  <2>1. IInv'
    BY StepTells
  <2>2. ASSUME Saved' PROVE OwnPhotos'
    <3>1. Saved
      BY <2>2, FaultsGrow DEF Saved, Fault
    <3> QED BY <2>2, <3>1, StepOwn
  <2> QED BY <2>1, <2>2
<1>6. OwnInv /\ [Next]_vars =>
         [card' # card /\ Saved => /\ FastmailGets({None}) => removed' # {}
                                   /\ ~ FastmailGets(Shrunk \ {card["fastmail"].photo.pic})]_vars
  BY StepKeepsIt DEF Keeps
<1> HIDE DEF OwnInv
<1> QED BY <1>1, <1>2, <1>3, <1>4, <1>5, <1>6, PTL DEF Spec, FastmailKeepsItsPhoto
=============================================================================
