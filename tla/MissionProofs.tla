----------------------------- MODULE MissionProofs -----------------------------
(***************************************************************************)
(* Theorems about Mission, for every set of missions, length of the table, *)
(* number of attempts and capacity of the link.                            *)
(***************************************************************************)
EXTENDS Mission, SequenceTheorems, TLAPS

-------------------------------------------------------------------------------
(* The inductive invariant.                                                    *)

Incoming == \E k \in DOMAIN up : up[k].kind = "ITEM"

\* An upload is under way, or messages of one are.
Uploading == wpCurrent <= wpCount \/ down # <<>> \/ comm = "store" \/ Incoming

\* Every item of the accepted mission before n is in the table.
StoredBefore(n) == \A i \in 0 .. n - 1 : Stored(accepted, i)

\* What is under way belongs to the mission that was accepted last.
Upload ==
  /\ accepted # 0 => wpCount = Count(accepted)
  /\ Uploading => accepted # 0 /\ accepted = sending

Messages ==
  /\ \A k \in DOMAIN up : up[k].kind \in {"COUNT", "ITEM"} => up[k].of = sending
  /\ \A k \in DOMAIN up : up[k].kind = "ITEM" => up[k].seq < wpCount
  /\ \A k \in DOMAIN down : down[k] < wpCount

\* Nothing was asked for but the first item.
FirstOnly ==
  /\ wpCurrent = 0 \/ wpCurrent > wpCount
  /\ \A k \in DOMAIN down : down[k] = 0
  /\ \A k \in DOMAIN up : up[k].kind = "ITEM" => up[k].seq = 0
  /\ comm # "store"

CountPending ==
  (\E k \in DOMAIN up : up[k].kind = "COUNT") \/ (comm = "clear" /\ msg.kind = "COUNT")

\* A repeated count, which clears the table again, is followed by no item but the
\* first; and a clear by nothing at all.
Announced ==
  /\ CountPending \/ ~heard => FirstOnly
  /\ ~heard => ~Incoming
  /\ \A j, k \in DOMAIN up : up[j].kind = "ITEM" /\ up[k].kind = "COUNT" => k < j
  /\ \A k \in DOMAIN up : up[k].kind = "CLEAR" => k = 1 /\ ~Uploading /\ comm = "idle"

\* The message comm is in.
Handled ==
  /\ comm = "idle" => msg = Nothing
  /\ comm = "clear" => \/ msg.kind = "COUNT" /\ msg.of = sending /\ Count(msg.of) <= MaxLegs
                       \/ msg.kind = "CLEAR" /\ ~Uploading
  /\ comm = "load" => msg.kind = "CURRENT"
  /\ comm = "store" =>
       /\ msg.kind = "ITEM" /\ msg.of = sending /\ msg.seq < wpCount
       /\ Item(msg.of, msg.seq) # "SKIP"
       /\ Item(msg.of, msg.seq) = "SETHOME" \/ legs[msg.seq].type = Item(msg.of, msg.seq)

\* The table holds nothing but items of the accepted mission; a leg with
\* coordinates has them of some mission, unless comm is about to write them.
Table ==
  \A i \in Index :
    /\ legs[i].type # "NONE" => accepted # 0 /\ i < wpCount /\ legs[i].type = Item(accepted, i)
    /\ legs[i].type \in Positioned => legs[i].of # 0 \/ (comm = "store" /\ msg.seq = i)

\* An item is asked for, sent and stored after all those before it.
Before ==
  /\ \A k \in DOMAIN down : StoredBefore(down[k])
  /\ \A k \in DOMAIN up : up[k].kind = "ITEM" => StoredBefore(up[k].seq)
  /\ comm = "store" => StoredBefore(msg.seq)

\* A mission is flown when it was loaded completely, and is neither cleared nor
\* entered anew meanwhile.
Flying ==
  mode = "MISSION" =>
    /\ accepted # 0 /\ leg \in Index /\ comm \in {"idle", "store"}
    /\ \A k \in DOMAIN up : up[k].kind # "CURRENT"
    /\ StoredBefore(wpCount)

MissionInv ==
  /\ TypeOK /\ Upload /\ Messages /\ Announced /\ Handled
  /\ Table /\ Before /\ LoadedIsSent /\ Flying /\ FlownIsSent

-------------------------------------------------------------------------------
(* Constants, missions, messages                                               *)

LEMMA Constants ==
  /\ MaxLegs \in Nat /\ MaxLegs > 0 /\ MaxAttempts \in Nat /\ MaxSent \in Nat
  /\ 0 \notin Ids
  BY MissionAssumption DEF Ids

LEMMA MissionItems ==
  ASSUME NEW m \in Ids
  PROVE  /\ Count(m) \in Nat
         /\ \A i \in Nat : i < Count(m) => Item(m, i) \in Items
  <1>1. Missions \in Seq(Seq(Items)) /\ Missions[m] \in Seq(Items)
    BY MissionAssumption, ElementOfSeq DEF Ids
  <1>2. Count(m) \in Nat
    BY <1>1, LenProperties DEF Count
  <1>3. ASSUME NEW i \in Nat, i < Count(m) PROVE Item(m, i) \in Items
    <2>1. i + 1 \in 1 .. Len(Missions[m])
      BY <1>2, <1>3 DEF Count
    <2> QED
      BY <1>1, <2>1, ElementOfSeq DEF Item
  <1> QED
    BY <1>2, <1>3

LEMMA MessageFields ==
  ASSUME NEW e \in UpMsgs
  PROVE  /\ e.kind \in {"COUNT", "CLEAR", "ITEM", "CURRENT"}
         /\ e.kind = "COUNT" => e.of \in Ids
         /\ e.kind = "ITEM" => e.of \in Ids /\ e.seq \in Nat
         /\ e.kind = "CURRENT" => e.seq \in Index
  BY DEF UpMsgs

\* The first message is taken from the link; the others move up.
LEMMA Taken ==
  ASSUME NEW S, NEW s \in Seq(S), s # <<>>
  PROVE  /\ Tail(s) \in Seq(S) /\ 1 \in DOMAIN s /\ Head(s) = s[1] /\ s[1] \in S
         /\ \A k \in DOMAIN Tail(s) : k \in Nat \ {0} /\ k + 1 \in DOMAIN s /\ Tail(s)[k] = s[k + 1]
  <1>1. Len(s) \in Nat /\ Len(s) > 0 /\ DOMAIN s = 1 .. Len(s)
    BY EmptySeq, LenProperties
  <1>2. /\ Tail(s) \in Seq(S) /\ Len(Tail(s)) = Len(s) - 1
        /\ \A k \in 1 .. Len(Tail(s)) : Tail(s)[k] = s[k + 1]
    BY HeadTailProperties
  <1>3. DOMAIN Tail(s) = 1 .. Len(s) - 1
    BY <1>2, LenProperties
  <1>4. Head(s) = s[1] /\ s[1] \in S
    BY <1>1, ElementOfSeq
  <1>5. \A k \in 1 .. Len(s) - 1 : k \in Nat \ {0} /\ k + 1 \in 1 .. Len(s)
    BY <1>1
  <1> QED
    BY <1>1, <1>2, <1>3, <1>4, <1>5

\* A message is put into the link, behind the others.
LEMMA Put ==
  ASSUME NEW S, NEW s \in Seq(S), NEW e \in S
  PROVE  /\ Append(s, e) \in Seq(S)
         /\ \A k \in DOMAIN Append(s, e) :
              \/ k \in DOMAIN s /\ Append(s, e)[k] = s[k]
              \/ k = Len(s) + 1 /\ Append(s, e)[k] = e
         /\ \A k \in DOMAIN s : k \in Nat /\ k < Len(s) + 1
  <1>1. Len(s) \in Nat /\ DOMAIN s = 1 .. Len(s)
    BY LenProperties
  <1>2. /\ Append(s, e) \in Seq(S) /\ Len(Append(s, e)) = Len(s) + 1
        /\ \A k \in 1 .. Len(s) : Append(s, e)[k] = s[k]
        /\ Append(s, e)[Len(s) + 1] = e
    BY AppendProperties
  <1>3. DOMAIN Append(s, e) = 1 .. Len(s) + 1
    BY <1>2, LenProperties
  <1>4. \A k \in 1 .. Len(s) + 1 : k \in 1 .. Len(s) \/ k = Len(s) + 1
    BY <1>1
  <1>5. \A k \in 1 .. Len(s) : k \in Nat /\ k < Len(s) + 1
    BY <1>1
  <1> QED
    BY <1>1, <1>2, <1>3, <1>4, <1>5

\* A link with one message.
LEMMA Alone ==
  ASSUME NEW S, NEW e \in S
  PROVE  <<e>> \in Seq(S) /\ DOMAIN <<e>> = {1} /\ <<e>>[1] = e
  <1>1. <<e>> \in Seq(S) /\ Len(<<e>>) = 1 /\ <<e>>[1] = e
    OBVIOUS
  <1>2. DOMAIN <<e>> = 1 .. 1
    BY <1>1, LenProperties
  <1> QED
    BY <1>1, <1>2

LEMMA NoMessage == DOMAIN <<>> = {} /\ \A S : <<>> \in Seq(S)
  OBVIOUS

-------------------------------------------------------------------------------
(* What is stored stays stored, until the table is cleared                     *)

LEMMA PlacesSet ==
  /\ Here # Unset
  /\ \A m \in Ids, i \in Nat : At(m, i) # Unset /\ At(m, i) \in Place
  /\ Here \in Place
  BY Constants DEF Here, Unset, At, Place

\* Home, once set, is never unset.
LEMMA HomeKept ==
  ASSUME MissionInv, Next, home # Unset
  PROVE  home' # Unset
  <1>1. CASE Ground
    BY <1>1 DEF Ground, StartUpload, SendClear, SendCurrent, RepeatCount, Answer, Lose, navVars
  <1>2. CASE Run
    BY <1>2, PlacesSet
       DEF Run, Manual, Hold, SetHome, RecallHome, Engage, Skip, Arrive, NextLeg, LoadLeg, SetTarget
  <1>3. CASE Comm /\ ~Store
    BY <1>3, PlacesSet
       DEF Comm, ReceiveCount, ReceiveClear, Clear, ReceiveItem, ReceiveCurrent, Load, Request,
           Loaded, RequestTimeout, SetTarget, navVars
  <1>4. CASE Store
    <2>1. msg.of \in Ids /\ msg.seq \in Nat
      BY <1>4, MessageFields DEF MissionInv, Handled, Store, TypeOK, Nothing
    <2> QED
      BY <1>4, <2>1, PlacesSet DEF Store
  <1> QED
    BY <1>1, <1>2, <1>3, <1>4 DEF Next

LEMMA StoredFrame ==
  ASSUME NEW m, NEW i, Stored(m, i), home # Unset => home' # Unset,
         legs'[i].type = legs[i].type, legs'[i].of = legs[i].of
  PROVE  Stored(m, i)'
  <1>1. CASE Item(m, i) \in {"SKIP", "SETHOME"}
    BY <1>1 DEF Stored, Item
  <1>2. CASE Item(m, i) = "HOME"
    BY <1>2 DEF Stored, Item
  <1>3. CASE Item(m, i) \notin {"SKIP", "SETHOME", "HOME"}
    BY <1>3 DEF Stored, Item
  <1> QED
    BY <1>1, <1>2, <1>3

\* Stored, as three implications.
LEMMA StoredAs ==
  ASSUME NEW m, NEW i
  PROVE  Stored(m, i) <=>
           /\ Item(m, i) \in {"SKIP", "SETHOME"} => legs[i].type = "NONE"
           /\ Item(m, i) = "HOME" => legs[i].type = "HOME" /\ home # Unset
           /\ Item(m, i) \notin {"SKIP", "SETHOME", "HOME"} =>
                legs[i].type = Item(m, i) /\ legs[i].of = m
  <1>1. CASE Item(m, i) \in {"SKIP", "SETHOME"}
    BY <1>1 DEF Stored
  <1>2. CASE Item(m, i) = "HOME"
    BY <1>2 DEF Stored
  <1>3. CASE Item(m, i) \notin {"SKIP", "SETHOME", "HOME"}
    BY <1>3 DEF Stored
  <1> QED
    BY <1>1, <1>2, <1>3

\* What a clear alone may change.
LEMMA NotCleared ==
  ASSUME Next, ~Clear
  PROVE  accepted' = accepted /\ wpCount' = wpCount
  <1>1. CASE Ground \/ Run
    BY <1>1 DEF Ground, StartUpload, SendClear, SendCurrent, RepeatCount, Answer, Lose, wpVars,
                Run, Manual, Hold, SetHome, RecallHome, Engage, Skip, Arrive, NextLeg, runUnchanged
  <1>2. CASE Comm
    BY <1>2 DEF Comm, ReceiveCount, ReceiveClear, ReceiveItem, Store, ReceiveCurrent, Load, Request,
                Loaded, RequestTimeout, Expect, wpVars
  <1> QED
    BY <1>1, <1>2 DEF Next

\* An item that is under way is an item of the accepted mission.
LEMMA ItemOfMission ==
  ASSUME MissionInv, NEW e \in UpMsgs, e.kind = "ITEM", e.of = sending, e.seq < wpCount, Uploading
  PROVE  /\ e.of = accepted /\ accepted \in Ids /\ accepted # 0 /\ e.seq \in Nat
         /\ e.seq \in Index /\ wpCount \in Nat /\ e.seq < Count(accepted)
         /\ Item(e.of, e.seq) \in Items
  <1>1. accepted # 0 /\ e.of = accepted /\ accepted \in Ids /\ wpCount = Count(accepted)
    BY DEF MissionInv, Upload, TypeOK
  <1>2. e.seq \in Nat /\ wpCount \in 0 .. MaxLegs
    BY MessageFields DEF MissionInv, TypeOK
  <1>3. e.seq \in Index /\ wpCount \in Nat
    BY <1>2, Constants DEF Index
  <1> QED
    BY <1>1, <1>2, <1>3, MissionItems

\* The item comm is about to store.
LEMMA ItemInHand ==
  ASSUME MissionInv, comm = "store"
  PROVE  /\ msg.of = accepted /\ accepted \in Ids /\ accepted # 0 /\ msg.seq \in Nat
         /\ msg.seq \in Index /\ wpCount \in Nat /\ msg.seq < Count(accepted) /\ msg.seq < wpCount
         /\ Item(msg.of, msg.seq) \in Items
         /\ Item(msg.of, msg.seq) # "SKIP"
         /\ Item(msg.of, msg.seq) = "SETHOME" \/ legs[msg.seq].type = Item(msg.of, msg.seq)
  <1>1. /\ msg.kind = "ITEM" /\ msg.of = sending /\ msg.seq < wpCount
        /\ Item(msg.of, msg.seq) # "SKIP"
        /\ Item(msg.of, msg.seq) = "SETHOME" \/ legs[msg.seq].type = Item(msg.of, msg.seq)
    BY DEF MissionInv, Handled
  <1>2. msg \in UpMsgs
    BY <1>1 DEF MissionInv, TypeOK, Nothing
  <1>3. Uploading
    BY DEF Uploading
  <1> QED
    BY <1>1, <1>2, <1>3, ItemOfMission

\* The item comm receives.
LEMMA ItemReceived ==
  ASSUME MissionInv, Receive("ITEM")
  PROVE  /\ Head(up) \in UpMsgs /\ Head(up) = up[1] /\ 1 \in DOMAIN up
         /\ Head(up).of = accepted /\ accepted \in Ids /\ accepted # 0 /\ Head(up).seq \in Nat
         /\ Head(up).seq \in Index /\ wpCount \in Nat /\ Head(up).seq < Count(accepted)
         /\ Head(up).seq < wpCount /\ ~(Head(up).seq >= MaxLegs)
         /\ Item(Head(up).of, Head(up).seq) \in Items
         /\ Head(up).of = sending /\ Uploading /\ Head(up).kind = "ITEM"
  <1>1. up \in Seq(UpMsgs) /\ up # <<>> /\ Head(up).kind = "ITEM"
    BY DEF Receive, MissionInv, TypeOK
  <1>2. Head(up) \in UpMsgs /\ Head(up) = up[1] /\ 1 \in DOMAIN up
    BY <1>1, Taken
  <1>3. Head(up).of = sending /\ Head(up).seq < wpCount
    BY <1>1, <1>2 DEF MissionInv, Messages
  <1>4. Uploading
    BY <1>1, <1>2 DEF Uploading, Incoming
  <1>5. Head(up).seq \in Index
    BY <1>1, <1>2, <1>3, <1>4, ItemOfMission
  <1>6. ~(Head(up).seq >= MaxLegs)
    BY <1>5, Constants DEF Index
  <1> QED
    BY <1>1, <1>2, <1>3, <1>4, <1>6, ItemOfMission

LEMMA LegsType ==
  ASSUME MissionInv, NEW i \in Index
  PROVE  /\ legs[i] \in [type : LegTypes \cup {"NONE"}, of : Ids \cup {0}]
         /\ legs \in [Index -> [type : LegTypes \cup {"NONE"}, of : Ids \cup {0}]]
  BY DEF MissionInv, TypeOK

\* No step but a clear takes a stored item away.
LEMMA StoredKept ==
  ASSUME MissionInv, Next, ~Clear, NEW i \in Index, Stored(accepted, i)
  PROVE  Stored(accepted, i)'
  <1>1. PICK m : m = accepted
    OBVIOUS
  <1>2. accepted' = m /\ Stored(m, i)
    BY <1>1, NotCleared
  <1>3. home # Unset => home' # Unset
    BY HomeKept
  <1>4. Stored(m, i)'
    <2>1. CASE ReceiveItem
      <3> DEFINE seq  == Head(up).seq
                 type == Item(Head(up).of, seq)
      <3>1. /\ Head(up).of = m /\ seq \in Index /\ ~(seq >= MaxLegs) /\ type \in Items
        BY <1>1, <2>1, ItemReceived DEF ReceiveItem
      <3>2. legs' = legs \/ legs' = [legs EXCEPT ![seq].type = type]
        BY <2>1 DEF ReceiveItem
      <3>3. CASE legs' = legs \/ i # seq
        <4>1. legs'[i] = legs[i]
          BY <3>1, <3>2, <3>3, LegsType
        <4> QED
          BY <1>2, <1>3, <4>1, StoredFrame
      <3>4. CASE legs' = [legs EXCEPT ![seq].type = type] /\ i = seq /\ legs' # legs
        <4>1. legs'[i].type = Item(m, i) /\ legs'[i].of = legs[i].of
          BY <3>1, <3>4, LegsType
        <4>2. Item(m, i) \notin {"SKIP", "SETHOME"}
          BY <2>1, <3>1, <3>4 DEF ReceiveItem
        <4>3. legs[i].type = Item(m, i)
          BY <1>2, <4>2, StoredAs
        <4> QED
          BY <1>2, <1>3, <4>1, <4>3, StoredFrame
      <3> QED
        BY <3>2, <3>3, <3>4
    <2>2. CASE Store
      <3>1. /\ msg.of = m /\ msg.seq \in Index
            /\ legs' = legs \/ legs' = [legs EXCEPT ![msg.seq].of = msg.of]
        BY <1>1, <2>2, ItemInHand DEF Store
      <3>2. CASE legs' = legs \/ i # msg.seq
        <4>1. legs'[i] = legs[i]
          BY <3>1, <3>2, LegsType
        <4> QED
          BY <1>2, <1>3, <4>1, StoredFrame
      <3>3. CASE legs' = [legs EXCEPT ![msg.seq].of = msg.of] /\ i = msg.seq
        <4>1. legs'[i].type = legs[i].type /\ legs'[i].of = m
          BY <3>1, <3>3, LegsType
        <4>2. CASE Item(m, i) \in {"SKIP", "SETHOME", "HOME"}
          <5>1. legs[i].type = legs'[i].type
            BY <4>1
          <5> QED
            BY <1>2, <1>3, <4>1, <4>2, StoredAs DEF Stored, Item
        <4>3. CASE Item(m, i) \notin {"SKIP", "SETHOME", "HOME"}
          <5>1. legs[i].of = m
            BY <1>2, <4>3, StoredAs
          <5> QED
            BY <1>2, <1>3, <4>1, <5>1, StoredFrame
        <4> QED
          BY <4>2, <4>3
      <3> QED
        BY <3>1, <3>2, <3>3
    <2>3. CASE ~ReceiveItem /\ ~Store
      <3>1. legs' = legs
        BY <2>3 DEF Next, Ground, StartUpload, SendClear, SendCurrent, RepeatCount, Answer, Lose,
                    navVars, Run, Manual, Hold, SetHome, RecallHome, Engage, Skip, Arrive, NextLeg,
                    runUnchanged, Comm, ReceiveCount, ReceiveClear, ReceiveCurrent, Load, Request,
                    Loaded, RequestTimeout
      <3> QED
        BY <1>2, <1>3, <3>1, StoredFrame
    <2> QED
      BY <2>1, <2>2, <2>3
  <1> QED
    BY <1>2, <1>4

LEMMA BeforeKept ==
  ASSUME MissionInv, Next, ~Clear, NEW n \in Nat, n <= wpCount, StoredBefore(n)
  PROVE  StoredBefore(n)'
  <1>1. n <= MaxLegs
    BY Constants DEF MissionInv, TypeOK
  <1>2. \A i \in 0 .. n - 1 : i \in Index
    BY <1>1, Constants DEF Index
  <1> QED
    BY <1>2, StoredKept DEF StoredBefore

-------------------------------------------------------------------------------
(* The link.  What is in it after a step was there before, or was put there by *)
(* the step.                                                                   *)

LEMMA LinkTypes ==
  ASSUME MissionInv
  PROVE  up \in Seq(UpMsgs) /\ down \in Seq(Nat)
  BY DEF MissionInv, TypeOK

\* The actions that put nothing new into up.
LEMMA UpOld ==
  ASSUME MissionInv, Next, ~StartUpload, ~SendClear, ~SendCurrent, ~RepeatCount, ~Answer
  PROVE  \/ up' = up
         \/ up # <<>> /\ up' = Tail(up)
  BY DEF Next, Ground, Lose, Run, Manual, Hold, SetHome, RecallHome, Engage, Skip, Arrive, NextLeg,
         runUnchanged, Comm, ReceiveCount, ReceiveClear, Clear, ReceiveItem, Store, ReceiveCurrent,
         Load, Request, Loaded, RequestTimeout, Receive

\* A message that was under way before the step, at its place or the next one.
Old(k) == /\ k \in Nat \ {0}
          /\ \/ k \in DOMAIN up /\ up'[k] = up[k]
             \/ k + 1 \in DOMAIN up /\ up'[k] = up[k + 1]

LEMMA UpFrom ==
  ASSUME MissionInv, Next, NEW k \in DOMAIN up'
  PROVE  /\ up'[k] \in UpMsgs
         /\ \/ Old(k)
            \/ StartUpload /\ up'[k].kind = "COUNT" /\ up'[k].of = sending'
            \/ SendClear /\ up'[k].kind = "CLEAR" /\ k = 1
            \/ SendCurrent /\ up'[k].kind = "CURRENT"
            \/ RepeatCount /\ up'[k].kind = "COUNT" /\ up'[k].of = sending
            \/ Answer /\ up'[k].kind = "ITEM" /\ up'[k].of = sending /\ up'[k].seq = Head(down)
  <1>1. up \in Seq(UpMsgs) /\ down \in Seq(Nat) /\ sending \in Ids \cup {0}
    BY DEF MissionInv, TypeOK
  <1>2. ASSUME k \in DOMAIN up, up'[k] = up[k] PROVE Old(k) /\ up'[k] \in UpMsgs
    <2>1. k \in Nat \ {0} /\ up[k] \in UpMsgs
      BY <1>1, <1>2, LenProperties, ElementOfSeq
    <2> QED
      BY <1>2, <2>1 DEF Old
  <1>3. CASE StartUpload
    <2>1. PICK m \in Ids : sending' = m /\ up' = <<[kind |-> "COUNT", of |-> m]>>
      BY <1>3 DEF StartUpload
    <2>2. [kind |-> "COUNT", of |-> m] \in UpMsgs
      BY DEF UpMsgs
    <2>3. up'[k] = [kind |-> "COUNT", of |-> m]
      BY <2>1, <2>2, Alone
    <2> QED
      BY <1>3, <2>1, <2>2, <2>3
  <1>4. CASE SendClear
    <2>1. up' = <<[kind |-> "CLEAR"]>>
      BY <1>4 DEF SendClear
    <2>2. [kind |-> "CLEAR"] \in UpMsgs
      BY DEF UpMsgs
    <2>3. up'[k] = [kind |-> "CLEAR"] /\ k = 1
      BY <2>1, <2>2, Alone
    <2> QED
      BY <1>4, <2>2, <2>3
  <1>5. CASE SendCurrent
    <2>1. PICK i \in Index : up' = <<[kind |-> "CURRENT", seq |-> i]>>
      BY <1>5 DEF SendCurrent
    <2>2. [kind |-> "CURRENT", seq |-> i] \in UpMsgs
      BY DEF UpMsgs
    <2>3. up'[k] = [kind |-> "CURRENT", seq |-> i]
      BY <2>1, <2>2, Alone
    <2> QED
      BY <1>5, <2>2, <2>3
  <1>6. CASE RepeatCount
    <2> DEFINE e == [kind |-> "COUNT", of |-> sending]
    <2>1. up' = Append(up, e) /\ e \in UpMsgs
      BY <1>1, <1>6 DEF RepeatCount, UpMsgs
    <2> HIDE DEF e
    <2>2. (k \in DOMAIN up /\ up'[k] = up[k]) \/ up'[k] = e
      BY <1>1, <2>1, Put
    <2>3. e.kind = "COUNT" /\ e.of = sending
      BY DEF e
    <2> QED
      BY <1>2, <1>6, <2>1, <2>2, <2>3
  <1>7. CASE Answer
    <2> DEFINE e == [kind |-> "ITEM", of |-> sending, seq |-> Head(down)]
    <2>1. down # <<>> /\ Head(down) \in Nat
      BY <1>1, <1>7, Taken DEF Answer
    <2>2. sending \in Ids
      BY <1>1, <2>1 DEF MissionInv, Upload, Uploading
    <2>3. e \in UpMsgs
      BY <2>1, <2>2 DEF UpMsgs
    <2>4. up' = up \/ up' = Append(up, e)
      BY <1>7 DEF Answer
    <2>5. e.kind = "ITEM" /\ e.of = sending /\ e.seq = Head(down)
      OBVIOUS
    <2> HIDE DEF e
    <2>6. (k \in DOMAIN up /\ up'[k] = up[k]) \/ up'[k] = e
      BY <1>1, <2>3, <2>4, Put
    <2> QED
      BY <1>2, <1>7, <2>3, <2>5, <2>6
  <1>8. CASE ~StartUpload /\ ~SendClear /\ ~SendCurrent /\ ~RepeatCount /\ ~Answer
    <2>1. CASE up' = up
      BY <1>2, <2>1
    <2>2. CASE up # <<>> /\ up' = Tail(up)
      <3>1. k \in Nat \ {0} /\ k + 1 \in DOMAIN up /\ up'[k] = up[k + 1]
        BY <1>1, <2>2, Taken
      <3>2. up[k + 1] \in UpMsgs
        BY <1>1, <3>1, ElementOfSeq, LenProperties
      <3> QED
        BY <3>1, <3>2 DEF Old
    <2> QED
      BY <1>8, <2>1, <2>2, UpOld
  <1> QED
    BY <1>3, <1>4, <1>5, <1>6, <1>7, <1>8

LEMMA DownFrom ==
  ASSUME MissionInv, Next, NEW k \in DOMAIN down'
  PROVE  \/ \E j \in DOMAIN down : down'[k] = down[j]
         \/ Request /\ down'[k] = wpCurrent
  <1>1. down \in Seq(Nat) /\ wpCurrent \in Nat
    BY Constants DEF MissionInv, TypeOK
  <1>2. CASE Request
    <2>1. down' = down \/ down' = Append(down, wpCurrent)
      BY <1>2 DEF Request
    <2> QED
      BY <1>1, <1>2, <2>1, Put
  <1>3. CASE ~Request
    <2>1. down' = down \/ (down # <<>> /\ down' = Tail(down))
      BY <1>3
         DEF Next, Ground, StartUpload, SendClear, SendCurrent, RepeatCount, Answer, Lose, Run,
             Manual, Hold, SetHome, RecallHome, Engage, Skip, Arrive, NextLeg, runUnchanged, Comm,
             ReceiveCount, ReceiveClear, Clear, ReceiveItem, Store, ReceiveCurrent, Load, Loaded,
             RequestTimeout
    <2>2. CASE down # <<>> /\ down' = Tail(down)
      <3>1. k + 1 \in DOMAIN down /\ down'[k] = down[k + 1]
        BY <1>1, <2>2, Taken
      <3> QED
        BY <3>1
    <2> QED
      BY <2>1, <2>2
  <1> QED
    BY <1>2, <1>3

LEMMA LinkTypesKept ==
  ASSUME MissionInv, Next
  PROVE  up' \in Seq(UpMsgs) /\ down' \in Seq(Nat)
  <1>1. up \in Seq(UpMsgs) /\ down \in Seq(Nat) /\ wpCurrent \in Nat /\ sending \in Ids \cup {0}
    BY Constants DEF MissionInv, TypeOK
  <1>2. up' \in Seq(UpMsgs)
    <2>1. CASE StartUpload \/ SendClear \/ SendCurrent
      <3>1. PICK e \in UpMsgs : up' = <<e>>
        <4>1. \A m \in Ids : [kind |-> "COUNT", of |-> m] \in UpMsgs
          BY DEF UpMsgs
        <4>2. [kind |-> "CLEAR"] \in UpMsgs
          BY DEF UpMsgs
        <4>3. \A i \in Index : [kind |-> "CURRENT", seq |-> i] \in UpMsgs
          BY DEF UpMsgs
        <4> QED
          BY <2>1, <4>1, <4>2, <4>3 DEF StartUpload, SendClear, SendCurrent
      <3> QED
        BY <3>1, Alone
    <2>2. CASE RepeatCount
      <3>1. [kind |-> "COUNT", of |-> sending] \in UpMsgs
        BY <1>1, <2>2 DEF RepeatCount, UpMsgs
      <3> QED
        BY <1>1, <2>2, <3>1, Put DEF RepeatCount
    <2>3. CASE Answer
      <3>1. down # <<>> /\ Head(down) \in Nat
        BY <1>1, <2>3, Taken DEF Answer
      <3>2. sending \in Ids
        BY <1>1, <3>1 DEF MissionInv, Upload, Uploading
      <3>3. [kind |-> "ITEM", of |-> sending, seq |-> Head(down)] \in UpMsgs
        BY <3>1, <3>2 DEF UpMsgs
      <3> QED
        BY <1>1, <2>3, <3>3, Put, ZenonT(30) DEF Answer
    <2>4. CASE ~StartUpload /\ ~SendClear /\ ~SendCurrent /\ ~RepeatCount /\ ~Answer
      BY <1>1, <2>4, UpOld, Taken
    <2> QED
      BY <2>1, <2>2, <2>3, <2>4
  <1>3. down' \in Seq(Nat)
    <2>1. \/ down' = down \/ down' = Append(down, wpCurrent)
          \/ down # <<>> /\ down' = Tail(down)
      BY DEF Next, Ground, StartUpload, SendClear, SendCurrent, RepeatCount, Answer, Lose, Run,
             Manual, Hold, SetHome, RecallHome, Engage, Skip, Arrive, NextLeg, runUnchanged, Comm,
             ReceiveCount, ReceiveClear, Clear, ReceiveItem, Store, ReceiveCurrent, Load, Request,
             Loaded, RequestTimeout
    <2>2. CASE down' = Append(down, wpCurrent)
      BY <1>1, <2>2, Put
    <2>3. CASE down # <<>> /\ down' = Tail(down)
      BY <1>1, <2>3, Taken
    <2> QED
      BY <1>1, <2>1, <2>2, <2>3
  <1> QED
    BY <1>2, <1>3

\* Nothing but a clear, and the count it comes with, begins an upload.
LEMMA UploadingLess ==
  ASSUME MissionInv, Next, ~Clear, Uploading'
  PROVE  Uploading
  <1>1. SUFFICES ASSUME ~Uploading PROVE FALSE
    OBVIOUS
  <1>2. wpCurrent > wpCount /\ down = <<>> /\ comm # "store" /\ ~Incoming
    BY <1>1 DEF Uploading, MissionInv, TypeOK
  <1>3. ~Answer /\ ~Store /\ ~ReceiveItem /\ ~Request /\ ~Loaded
    <2>1. ~Answer /\ ~Store
      BY <1>2 DEF Answer, Store
    <2>2. ~ReceiveItem
      BY <1>1, ItemReceived DEF ReceiveItem
    <2>3. ~Request /\ ~Loaded
      BY <1>2 DEF Request, Asking, Loaded, MissionInv, TypeOK
    <2> QED
      BY <2>1, <2>2, <2>3
  <1>4. ~Incoming'
    <2>1. SUFFICES ASSUME NEW k \in DOMAIN up', up'[k].kind = "ITEM" PROVE FALSE
      BY DEF Incoming
    <2>2. Old(k)
      BY <1>3, <2>1, UpFrom
    <2> QED
      BY <1>2, <2>1, <2>2 DEF Old, Incoming
  <1>5. wpCount' = wpCount
    BY NotCleared
  <1>6. wpCurrent' = wpCurrent \/ wpCurrent' = wpCount + 1
    BY <1>3 DEF Next, Ground, StartUpload, SendClear, SendCurrent, RepeatCount, Lose, Run,
           Manual, Hold, SetHome, RecallHome, Engage, Skip, Arrive, NextLeg, runUnchanged, Comm,
           ReceiveCount, ReceiveClear, ReceiveCurrent, Load, RequestTimeout, wpVars
  <1>7. ~(wpCurrent' <= wpCount')
    BY <1>2, <1>5, <1>6 DEF MissionInv, TypeOK
  <1>8. comm' # "store"
    BY <1>2, <1>3 DEF Next, Ground, StartUpload, SendClear, SendCurrent, RepeatCount, Lose, Run,
           Manual, Hold, SetHome, RecallHome, Engage, Skip, Arrive, NextLeg, runUnchanged, Comm,
           ReceiveCount, ReceiveClear, ReceiveCurrent, Load, RequestTimeout
  <1>9. down' = <<>>
    BY <1>2, <1>3 DEF Next, Ground, StartUpload, SendClear, SendCurrent, RepeatCount, Lose, Run,
           Manual, Hold, SetHome, RecallHome, Engage, Skip, Arrive, NextLeg, runUnchanged, Comm,
           ReceiveCount, ReceiveClear, ReceiveCurrent, Load, RequestTimeout
  <1> QED
    BY <1>4, <1>7, <1>8, <1>9 DEF Uploading

\* While an upload is under way, the mission it is of does not change.
LEMMA CountStays ==
  ASSUME MissionInv, Next, Uploading
  PROVE  wpCount' = wpCount /\ accepted' = accepted /\ sending' = sending
  <1>1. accepted # 0 /\ accepted = sending /\ wpCount = Count(accepted)
    BY DEF MissionInv, Upload
  <1>2. ~StartUpload
    <2>1. SUFFICES ASSUME Quiet PROVE FALSE
      BY DEF StartUpload
    <2>2. wpCurrent > wpCount /\ wpCurrent \in Nat /\ wpCount \in Nat
      BY <2>1, Constants DEF Quiet, MissionInv, TypeOK
    <2>3. ~Incoming
      BY <2>1, NoMessage DEF Quiet, Incoming
    <2> QED
      BY <2>1, <2>2, <2>3 DEF Quiet, Uploading
  <1>3. sending' = sending
    BY <1>2 DEF Next, Ground, SendClear, SendCurrent, RepeatCount, Answer, Lose, ground, Run,
           Manual, Hold, SetHome, RecallHome, Engage, Skip, Arrive, NextLeg, runUnchanged, Comm,
           ReceiveCount, ReceiveClear, Clear, ReceiveItem, Store, ReceiveCurrent, Load, Request,
           Loaded, RequestTimeout
  <1>4. CASE Clear
    <2>1. msg.kind = "COUNT" /\ msg.of = sending
      BY <1>4 DEF Clear, MissionInv, Handled
    <2> QED
      BY <1>1, <1>3, <1>4, <2>1 DEF Clear
  <1> QED
    BY <1>3, <1>4, NotCleared

\* Where an item under way was before the step.
LEMMA ItemFrom ==
  ASSUME MissionInv, Next, NEW k \in DOMAIN up', up'[k].kind = "ITEM"
  PROVE  /\ Uploading /\ up'[k].of = sending /\ up'[k].seq \in Nat
         /\ \/ \E j \in DOMAIN up : up[j].kind = "ITEM" /\ up'[k].seq = up[j].seq
            \/ Answer /\ 1 \in DOMAIN down /\ up'[k].seq = down[1]
  <1>1. up'[k].seq \in Nat
    BY UpFrom, MessageFields
  <1>2. CASE Old(k)
    <2>1. PICK j \in DOMAIN up : up'[k] = up[j]
      BY <1>2 DEF Old
    <2> QED
      BY <1>1, <2>1 DEF Uploading, Incoming, MissionInv, Messages
  <1>3. CASE Answer /\ up'[k].of = sending /\ up'[k].seq = Head(down)
    <2>1. down # <<>> /\ down \in Seq(Nat)
      BY <1>3 DEF Answer, MissionInv, TypeOK
    <2> QED
      BY <1>1, <1>3, <2>1, Taken DEF Uploading
  <1> QED
    BY <1>2, <1>3, UpFrom

-------------------------------------------------------------------------------
(* The parts of the invariant, one lemma each                                  *)

LEMMA UploadStep ==
  ASSUME MissionInv, Next
  PROVE  Upload'
  <1>1. CASE ~Clear
    <2>1. accepted' # 0 => wpCount' = Count(accepted')
      BY <1>1, NotCleared DEF MissionInv, Upload, Count
    <2>2. Uploading' => accepted' # 0 /\ accepted' = sending'
      BY <1>1, UploadingLess, CountStays DEF MissionInv, Upload
    <2> QED
      BY <2>1, <2>2 DEF Upload, Count
  <1>2. CASE Clear /\ msg.kind = "COUNT"
    <2>1. msg.of = sending /\ msg.of \in Ids
      BY <1>2, MessageFields DEF Clear, MissionInv, Handled, TypeOK, Nothing
    <2>2. accepted' = msg.of /\ wpCount' = Count(msg.of) /\ sending' = sending
      BY <1>2 DEF Clear, ground
    <2> QED
      BY <2>1, <2>2, Constants DEF Upload, Count
  <1>3. CASE Clear /\ msg.kind # "COUNT"
    <2>1. ~Uploading
      BY <1>3 DEF Clear, MissionInv, Handled
    <2>2. accepted' = 0 /\ wpCurrent' = wpCurrent /\ wpCount' = wpCount /\ up' = up /\ down' = down
          /\ comm' = "idle"
      BY <1>3 DEF Clear, wpVars
    <2>3. ~Uploading'
      BY <2>1, <2>2 DEF Uploading, Incoming
    <2> QED
      BY <2>2, <2>3 DEF Upload
  <1> QED
    BY <1>1, <1>2, <1>3

LEMMA MessagesStep ==
  ASSUME MissionInv, Next
  PROVE  Messages'
  <1>1. ASSUME NEW k \in DOMAIN up', up'[k].kind \in {"COUNT", "ITEM"}
        PROVE  up'[k].of = sending'
    <2>1. CASE up'[k].kind = "ITEM"
      BY <2>1, ItemFrom, CountStays
    <2>2. CASE up'[k].kind = "COUNT" /\ ~StartUpload
      <3>1. sending' = sending
        BY <2>2 DEF Next, Ground, SendClear, SendCurrent, RepeatCount, Answer, Lose, ground, Run,
               Manual, Hold, SetHome, RecallHome, Engage, Skip, Arrive, NextLeg, runUnchanged, Comm,
               ReceiveCount, ReceiveClear, Clear, ReceiveItem, Store, ReceiveCurrent, Load, Request,
               Loaded, RequestTimeout
      <3>2. CASE Old(k)
        BY <2>2, <3>1, <3>2 DEF Old, MissionInv, Messages
      <3> QED
        BY <2>2, <3>1, <3>2, UpFrom
    <2>3. CASE StartUpload
      <3>1. ~Old(k)
        BY <2>3, NoMessage DEF StartUpload, Quiet, Old
      <3> QED
        BY <1>1, <2>3, <3>1, UpFrom DEF StartUpload, SendClear, SendCurrent, RepeatCount, Answer,
           Quiet
    <2> QED
      BY <1>1, <2>1, <2>2, <2>3
  <1>2. ASSUME NEW k \in DOMAIN up', up'[k].kind = "ITEM" PROVE up'[k].seq < wpCount'
    <2>1. up'[k].seq < wpCount
      BY <1>2, ItemFrom DEF MissionInv, Messages
    <2> QED
      BY <1>2, <2>1, ItemFrom, CountStays
  <1>3. ASSUME NEW k \in DOMAIN down' PROVE down'[k] < wpCount'
    <2>1. CASE Request /\ down'[k] = wpCurrent
      <3>1. wpCurrent < wpCount /\ wpCurrent \in Nat /\ wpCount \in Nat
        BY <2>1, Constants DEF Request, Asking, MissionInv, TypeOK
      <3>2. Uploading
        BY <3>1 DEF Uploading
      <3> QED
        BY <2>1, <3>1, <3>2, CountStays
    <2>2. CASE \E j \in DOMAIN down : down'[k] = down[j]
      <3>1. PICK j \in DOMAIN down : down'[k] = down[j]
        BY <2>2
      <3>2. Uploading
        BY NoMessage DEF Uploading
      <3> QED
        BY <3>1, <3>2, CountStays DEF MissionInv, Messages
    <2> QED
      BY <2>1, <2>2, DownFrom
  <1> QED
    BY <1>1, <1>2, <1>3 DEF Messages

\* Nothing but the start of an upload brings about what FirstOnly is needed for.
LEMMA PendingLess ==
  ASSUME MissionInv, Next, ~StartUpload, CountPending' \/ ~heard'
  PROVE  CountPending \/ ~heard
  <1>1. CASE ~heard'
    BY <1>1 DEF Next, Ground, SendClear, SendCurrent, RepeatCount, Answer, Lose, ground, Run,
           Manual, Hold, SetHome, RecallHome, Engage, Skip, Arrive, NextLeg, runUnchanged, Comm,
           ReceiveCount, ReceiveClear, Clear, ReceiveItem, Store, ReceiveCurrent, Load, Request,
           Loaded, RequestTimeout
  <1>2. ASSUME NEW k \in DOMAIN up', up'[k].kind = "COUNT" PROVE CountPending \/ ~heard
    <2>1. CASE Old(k)
      BY <1>2, <2>1 DEF Old, CountPending
    <2>2. CASE RepeatCount
      BY <2>2 DEF RepeatCount
    <2> QED
      BY <1>2, <2>1, <2>2, UpFrom
  <1>3. CASE comm' = "clear" /\ msg'.kind = "COUNT"
    <2>1. CASE ReceiveCount
      <3>1. up # <<>> /\ Head(up).kind = "COUNT" /\ up \in Seq(UpMsgs)
        BY <2>1 DEF ReceiveCount, Receive, MissionInv, TypeOK
      <3> QED
        BY <3>1, Taken DEF CountPending
    <2>2. CASE ReceiveClear
      BY <1>3, <2>2 DEF ReceiveClear, Receive
    <2>3. CASE ~ReceiveCount /\ ~ReceiveClear
      <3>1. comm' = comm /\ msg' = msg
        BY <1>3, <2>3
           DEF Next, Ground, StartUpload, SendClear, SendCurrent, RepeatCount, Answer, Lose, Run,
               Manual, Hold, SetHome, RecallHome, Engage, Skip, Arrive, NextLeg, runUnchanged, Comm,
               Clear, ReceiveItem, Store, ReceiveCurrent, Load, Request, Loaded, RequestTimeout
      <3> QED
        BY <1>3, <3>1 DEF CountPending
    <2> QED
      BY <2>1, <2>2, <2>3
  <1> QED
    BY <1>1, <1>2, <1>3 DEF CountPending

\* An item is not received before a count that is under way with it.
LEMMA NoItemYet ==
  ASSUME MissionInv, Next, CountPending' \/ ~heard'
  PROVE  ~ReceiveItem
  <1>1. SUFFICES ASSUME ReceiveItem PROVE FALSE
    OBVIOUS
  <1>2. /\ up \in Seq(UpMsgs) /\ up # <<>> /\ up' = Tail(up)
        /\ 1 \in DOMAIN up /\ up[1].kind = "ITEM"
    BY <1>1, ItemReceived DEF ReceiveItem, Receive, MissionInv, TypeOK
  <1>3. heard' = heard /\ heard
    BY <1>1, <1>2 DEF ReceiveItem, ground, MissionInv, Announced, Incoming
  <1>4. comm' # "clear"
    BY <1>1 DEF ReceiveItem, Receive
  <1>5. PICK k \in DOMAIN up' : up'[k].kind = "COUNT"
    BY <1>3, <1>4 DEF CountPending
  <1>6. k \in Nat \ {0} /\ k + 1 \in DOMAIN up /\ up[k + 1].kind = "COUNT"
    BY <1>2, <1>5, Taken
  <1>7. k + 1 < 1
    BY <1>2, <1>6 DEF MissionInv, Announced
  <1> QED
    BY <1>6, <1>7

LEMMA FirstOnlyStep ==
  ASSUME MissionInv, Next, CountPending' \/ ~heard'
  PROVE  FirstOnly'
  <1> wpCurrent \in Nat /\ wpCount \in Nat
    BY Constants DEF MissionInv, TypeOK
  <1>1. CASE StartUpload
    <2>1. /\ wpCurrent > wpCount /\ wpCurrent' = wpCurrent /\ wpCount' = wpCount
          /\ down' = <<>> /\ comm' = "idle"
      BY <1>1 DEF StartUpload, Quiet, wpVars
    <2>2. PICK m \in Ids : up' = <<[kind |-> "COUNT", of |-> m]>>
      BY <1>1 DEF StartUpload
    <2>3. [kind |-> "COUNT", of |-> m] \in UpMsgs
      BY DEF UpMsgs
    <2>4. \A k \in DOMAIN up' : up'[k].kind # "ITEM"
      BY <2>2, <2>3, Alone
    <2> QED
      BY <2>1, <2>4, NoMessage DEF FirstOnly
  <1>2. CASE ~StartUpload
    <2>1. FirstOnly
      BY <1>2, PendingLess DEF MissionInv, Announced
    <2>2. ~ReceiveItem /\ ~Store
      BY <2>1, NoItemYet DEF FirstOnly, Store
    <2>3. wpCurrent' = 0 \/ wpCurrent' > wpCount'
      <3>1. CASE Clear
        BY <2>1, <3>1 DEF Clear, FirstOnly, wpVars
      <3>2. CASE ~Clear
        <4>1. wpCount' = wpCount
          BY <3>2, NotCleared
        <4>2. wpCurrent' = wpCurrent \/ wpCurrent' = wpCount + 1
          BY <1>2, <2>2, <3>2
             DEF Next, Ground, SendClear, SendCurrent, RepeatCount, Answer, Lose, Run,
                 Manual, Hold, SetHome, RecallHome, Engage, Skip, Arrive, NextLeg, runUnchanged,
                 Comm, ReceiveCount, ReceiveClear, ReceiveCurrent, Load, Request,
                 Loaded, RequestTimeout, wpVars
        <4> QED
          BY <2>1, <4>1, <4>2 DEF FirstOnly
      <3> QED
        BY <3>1, <3>2
    <2>4. ASSUME NEW k \in DOMAIN down' PROVE down'[k] = 0
      BY <2>1, DownFrom DEF FirstOnly, Request, Asking
    <2>5. ASSUME NEW k \in DOMAIN up', up'[k].kind = "ITEM" PROVE up'[k].seq = 0
      BY <2>1, <2>5, ItemFrom DEF FirstOnly
    <2>6. comm' # "store"
      BY <1>2, <2>1, <2>2
         DEF FirstOnly, Next, Ground, SendClear, SendCurrent, RepeatCount, Answer, Lose, Run,
             Manual, Hold, SetHome, RecallHome, Engage, Skip, Arrive, NextLeg, runUnchanged,
             Comm, ReceiveCount, ReceiveClear, Clear, ReceiveCurrent, Load, Request,
             Loaded, RequestTimeout
    <2> QED
      BY <2>3, <2>4, <2>5, <2>6 DEF FirstOnly
  <1> QED
    BY <1>1, <1>2

\* Counts stay before items.
LEMMA OrderStep ==
  ASSUME MissionInv, Next, NEW j \in DOMAIN up', NEW k \in DOMAIN up',
         up'[j].kind = "ITEM", up'[k].kind = "COUNT"
  PROVE  k < j
  <1>1. up \in Seq(UpMsgs) /\ down \in Seq(Nat) /\ sending \in Ids \cup {0}
    BY DEF MissionInv, TypeOK
  <1>2. \A a, b \in DOMAIN up : up[a].kind = "ITEM" /\ up[b].kind = "COUNT" => b < a
    BY DEF MissionInv, Announced
  <1>3. CASE StartUpload \/ SendClear \/ SendCurrent
    <2>1. up = <<>> /\ ~Answer
      BY <1>3, NoMessage DEF StartUpload, SendClear, SendCurrent, Quiet, Answer
    <2>2. ~Old(j)
      BY <2>1, NoMessage DEF Old
    <2>3. ~RepeatCount
      BY <1>3 DEF StartUpload, SendClear, SendCurrent, RepeatCount, ground, Quiet
    <2> QED
      BY <2>1, <2>2, <2>3, UpFrom
  <1>4. CASE RepeatCount
    <2>1. ~Incoming /\ ~Answer
      BY <1>4 DEF RepeatCount, MissionInv, Announced, Answer
    <2> QED
      BY <2>1, ItemFrom DEF Incoming
  <1>5. CASE Answer
    <2> DEFINE e == [kind |-> "ITEM", of |-> sending, seq |-> Head(down)]
    <2>1. down # <<>> /\ Head(down) \in Nat
      BY <1>1, <1>5, Taken DEF Answer
    <2>2. sending \in Ids
      BY <1>1, <2>1 DEF MissionInv, Upload, Uploading
    <2>3. e \in UpMsgs /\ e.kind # "COUNT"
      BY <2>1, <2>2 DEF UpMsgs
    <2>4. up' = up \/ up' = Append(up, e)
      BY <1>5 DEF Answer
    <2> HIDE DEF e
    <2>5. k \in DOMAIN up /\ up'[k] = up[k]
      <3>1. (k \in DOMAIN up /\ up'[k] = up[k]) \/ up'[k] = e
        BY <1>1, <2>3, <2>4, Put
      <3>2. up'[k] # e
        BY <2>3
      <3> QED
        BY <3>1, <3>2
    <2>6. (j \in DOMAIN up /\ up'[j] = up[j]) \/ j = Len(up) + 1
      BY <1>1, <2>3, <2>4, Put
    <2>7. CASE j \in DOMAIN up /\ up'[j] = up[j]
      BY <1>2, <2>5, <2>7
    <2>8. CASE j = Len(up) + 1
      BY <1>1, <2>3, <2>5, <2>8, Put
    <2> QED
      BY <2>6, <2>7, <2>8
  <1>6. CASE ~StartUpload /\ ~SendClear /\ ~SendCurrent /\ ~RepeatCount /\ ~Answer
    <2>1. CASE up' = up
      BY <1>2, <2>1
    <2>2. CASE up # <<>> /\ up' = Tail(up)
      <3>1. /\ j \in Nat /\ j + 1 \in DOMAIN up /\ up'[j] = up[j + 1]
            /\ k \in Nat /\ k + 1 \in DOMAIN up /\ up'[k] = up[k + 1]
        BY <1>1, <2>2, Taken
      <3>2. k + 1 < j + 1
        BY <1>2, <3>1
      <3> QED
        BY <3>1, <3>2
    <2> QED
      BY <1>6, <2>1, <2>2, UpOld
  <1> QED
    BY <1>3, <1>4, <1>5, <1>6

\* A clear stays the first message.
LEMMA ClearFirst ==
  ASSUME MissionInv, Next, NEW k \in DOMAIN up', up'[k].kind = "CLEAR"
  PROVE  k = 1 /\ ~Uploading' /\ comm' = "idle"
  <1>1. up \in Seq(UpMsgs)
    BY DEF MissionInv, TypeOK
  <1>2. \A a \in DOMAIN up : up[a].kind = "CLEAR" => a = 1 /\ ~Uploading /\ comm = "idle"
    BY DEF MissionInv, Announced
  <1>3. CASE SendClear
    <2>1. k = 1
      <3>1. up' = <<[kind |-> "CLEAR"]>>
        BY <1>3 DEF SendClear
      <3>2. [kind |-> "CLEAR"] \in UpMsgs
        BY DEF UpMsgs
      <3> QED
        BY <3>1, <3>2, Alone
    <2>2. comm = "idle" /\ ~Uploading
      <3>1. wpCurrent > wpCount /\ wpCurrent \in Nat /\ wpCount \in Nat
        BY <1>3, Constants DEF SendClear, Quiet, MissionInv, TypeOK
      <3>2. up = <<>> /\ down = <<>> /\ comm = "idle"
        BY <1>3 DEF SendClear, Quiet
      <3> QED
        BY <3>1, <3>2, NoMessage DEF Uploading, Incoming
    <2>3. ~Clear /\ comm' = comm
      BY <1>3, <2>2 DEF Clear, SendClear
    <2> QED
      BY <2>1, <2>2, <2>3, UploadingLess
  <1>4. CASE ~SendClear
    <2>1. Old(k)
      BY <1>4, UpFrom
    <2>2. k = 1 /\ up'[k] = up[k] /\ comm = "idle" /\ ~Uploading /\ 1 \in DOMAIN up
          /\ up[1].kind = "CLEAR"
      BY <1>2, <2>1 DEF Old
    <2>3. ~Clear /\ ~Store /\ ~Load
      BY <2>2 DEF Clear, Store, Load
    <2>4. up' # Tail(up) \/ up = <<>>
      <3>1. SUFFICES ASSUME up # <<>>, up' = Tail(up) PROVE FALSE
        OBVIOUS
      <3>2. k + 1 \in DOMAIN up /\ up'[k] = up[k + 1]
        BY <1>1, <3>1, Taken
      <3> QED
        BY <1>2, <2>2, <3>2
    <2>5. comm' = comm
      BY <2>3, <2>4
         DEF Next, Ground, StartUpload, SendClear, SendCurrent, RepeatCount, Answer, Lose, Run,
             Manual, Hold, SetHome, RecallHome, Engage, Skip, Arrive, NextLeg, runUnchanged,
             Comm, ReceiveCount, ReceiveClear, ReceiveItem, ReceiveCurrent, Request,
             Loaded, RequestTimeout, Receive
    <2> QED
      BY <2>2, <2>3, <2>5, UploadingLess
  <1> QED
    BY <1>3, <1>4

LEMMA AnnouncedStep ==
  ASSUME MissionInv, Next
  PROVE  Announced'
  <1>1. ~heard' => ~Incoming'
    <2>1. SUFFICES ASSUME ~heard', NEW k \in DOMAIN up', up'[k].kind = "ITEM" PROVE FALSE
      BY DEF Incoming
    <2>2. ~Answer
      BY <2>1 DEF Answer
    <2>3. Incoming
      BY <2>1, <2>2, ItemFrom DEF Incoming
    <2>4. heard /\ ~StartUpload
      BY <2>3, NoMessage DEF MissionInv, Announced, StartUpload, Quiet, Incoming
    <2>5. heard' = heard
      BY <2>2, <2>4
         DEF Next, Ground, SendClear, SendCurrent, RepeatCount, Lose, ground, Run,
             Manual, Hold, SetHome, RecallHome, Engage, Skip, Arrive, NextLeg, runUnchanged, Comm,
             ReceiveCount, ReceiveClear, Clear, ReceiveItem, Store, ReceiveCurrent, Load, Request,
             Loaded, RequestTimeout
    <2> QED
      BY <2>1, <2>4, <2>5
  <1> QED
    BY <1>1, FirstOnlyStep, OrderStep, ClearFirst DEF Announced

\* What comm is in the middle of stays as it is while other tasks take steps.
LEMMA InHand ==
  ASSUME Next, comm # "idle", ~Clear, ~Store, ~Load
  PROVE  comm' = comm /\ msg' = msg /\ legs' = legs /\ wpCurrent' = wpCurrent
  BY DEF Next, Ground, StartUpload, SendClear, SendCurrent, RepeatCount, Answer, Lose, Quiet, wpVars,
         navVars, runUnchanged, Run, Manual, Hold, SetHome, RecallHome, Engage, Skip, Arrive, NextLeg,
         Comm, ReceiveCount, ReceiveClear, ReceiveItem, ReceiveCurrent, Request, Loaded,
         RequestTimeout, Receive

LEMMA SendingKept ==
  ASSUME Next, ~StartUpload
  PROVE  sending' = sending
  BY DEF Next, Ground, SendClear, SendCurrent, RepeatCount, Answer, Lose, ground, Run,
         Manual, Hold, SetHome, RecallHome, Engage, Skip, Arrive, NextLeg, runUnchanged, Comm,
         ReceiveCount, ReceiveClear, Clear, ReceiveItem, Store, ReceiveCurrent, Load, Request,
         Loaded, RequestTimeout

LEMMA HandledStep ==
  ASSUME MissionInv, Next
  PROVE  Handled'
  <1>1. up \in Seq(UpMsgs)
    BY DEF MissionInv, TypeOK
  <1>2. comm \in {"idle", "clear", "store", "load"}
    BY DEF MissionInv, TypeOK
  <1>3. CASE Clear \/ Store \/ Load
    BY <1>3 DEF Clear, Store, Load, Handled
  <1>4. CASE comm # "idle" /\ ~Clear /\ ~Store /\ ~Load
    <2>1. /\ comm' = comm /\ msg' = msg /\ legs' = legs /\ sending' = sending
      BY <1>4, InHand, SendingKept DEF StartUpload, Quiet
    <2>2. CASE comm = "clear"
      <3>1. msg.kind = "CLEAR" /\ ~Uploading => ~Uploading'
        BY <1>4, UploadingLess
      <3>2. \/ msg'.kind = "COUNT" /\ msg'.of = sending' /\ Count(msg'.of) <= MaxLegs
            \/ msg'.kind = "CLEAR" /\ ~Uploading'
        BY <2>1, <2>2, <3>1 DEF MissionInv, Handled
      <3> QED
        BY <2>1, <2>2, <3>2 DEF Handled, Count
    <2>3. CASE comm = "store"
      <3>1. wpCount' = wpCount
        BY <2>3, CountStays DEF Uploading
      <3>2. /\ msg'.kind = "ITEM" /\ msg'.of = sending' /\ msg'.seq < wpCount'
            /\ Item(msg'.of, msg'.seq) # "SKIP"
            /\ Item(msg'.of, msg'.seq) = "SETHOME"
               \/ legs'[msg'.seq].type = Item(msg'.of, msg'.seq)
        BY <2>1, <2>3, <3>1 DEF MissionInv, Handled
      <3> QED
        BY <2>1, <2>3, <3>2 DEF Handled, Item
    <2>4. CASE comm = "load"
      BY <2>1, <2>4 DEF MissionInv, Handled
    <2> QED
      BY <1>2, <1>4, <2>2, <2>3, <2>4
  <1>5. CASE comm = "idle" /\ ReceiveCount
    <2>1. (comm' = "clear" /\ msg' = Head(up)) \/ (comm' = comm /\ msg' = msg)
      BY <1>5 DEF ReceiveCount
    <2>2. up # <<>> /\ Head(up).kind = "COUNT" /\ 1 \in DOMAIN up /\ Head(up) = up[1]
      BY <1>1, <1>5, Taken DEF ReceiveCount, Receive
    <2>3. Head(up).of = sending
      BY <2>2 DEF MissionInv, Messages
    <2>4. comm' = "clear" => Count(Head(up).of) <= MaxLegs
      BY <1>5 DEF ReceiveCount, Fits
    <2>5. sending' = sending
      BY <1>5 DEF ReceiveCount, ground
    <2>6. CASE comm' = "clear" /\ msg' = Head(up)
      BY <2>2, <2>3, <2>4, <2>5, <2>6 DEF Handled, Count
    <2>7. CASE comm' = comm /\ msg' = msg
      BY <1>5, <2>7 DEF MissionInv, Handled
    <2> QED
      BY <2>1, <2>6, <2>7
  <1>6. CASE comm = "idle" /\ ReceiveClear
    <2>1. (comm' = "clear" /\ msg' = Head(up)) \/ (comm' = comm /\ msg' = msg)
      BY <1>6 DEF ReceiveClear
    <2>2. up # <<>> /\ Head(up).kind = "CLEAR" /\ 1 \in DOMAIN up /\ Head(up) = up[1]
      BY <1>1, <1>6, Taken DEF ReceiveClear, Receive
    <2>3. ~Uploading
      BY <2>2 DEF MissionInv, Announced
    <2>4. ~Uploading'
      BY <1>6, <2>3, UploadingLess DEF Clear
    <2>5. CASE comm' = "clear" /\ msg' = Head(up)
      BY <2>2, <2>4, <2>5 DEF Handled
    <2>6. CASE comm' = comm /\ msg' = msg
      BY <1>6, <2>6 DEF MissionInv, Handled
    <2> QED
      BY <2>1, <2>5, <2>6
  <1>7. CASE comm = "idle" /\ ReceiveItem
    <2> DEFINE seq  == Head(up).seq
               type == Item(Head(up).of, seq)
    <2>1. /\ Head(up).kind = "ITEM" /\ Head(up).of = sending /\ seq < wpCount /\ seq \in Index
          /\ ~(seq >= MaxLegs)
      BY <1>7, ItemReceived DEF ReceiveItem
    <2>2. CASE type = "SKIP"
      <3>1. comm' = comm /\ msg' = msg
        BY <1>7, <2>2 DEF ReceiveItem
      <3> QED
        BY <1>7, <3>1 DEF MissionInv, Handled
    <2>3. CASE type # "SKIP"
      <3>1. /\ comm' = "store" /\ msg' = Head(up) /\ wpCount' = wpCount /\ sending' = sending
            /\ legs' = IF type = "SETHOME" THEN legs ELSE [legs EXCEPT ![seq].type = type]
        BY <1>7, <2>1, <2>3 DEF ReceiveItem, wpVars, ground
      <3>2. type = "SETHOME" \/ legs'[seq].type = type
        BY <2>1, <3>1, LegsType
      <3>3. /\ msg'.kind = "ITEM" /\ msg'.of = sending' /\ msg'.seq < wpCount'
            /\ Item(msg'.of, msg'.seq) # "SKIP"
            /\ Item(msg'.of, msg'.seq) = "SETHOME"
               \/ legs'[msg'.seq].type = Item(msg'.of, msg'.seq)
        BY <2>1, <2>3, <3>1, <3>2
      <3> QED
        BY <3>1, <3>3 DEF Handled, Item
    <2> QED
      BY <2>2, <2>3
  <1>8. CASE comm = "idle" /\ ReceiveCurrent
    <2>1. Head(up).kind = "CURRENT"
      BY <1>8 DEF ReceiveCurrent, Receive
    <2>2. (comm' = "load" /\ msg' = Head(up)) \/ (comm' = comm /\ msg' = msg)
      BY <1>8 DEF ReceiveCurrent
    <2> QED
      BY <1>8, <2>1, <2>2 DEF MissionInv, Handled
  <1>9. CASE /\ comm = "idle" /\ ~Clear /\ ~Store /\ ~Load
             /\ ~ReceiveCount /\ ~ReceiveClear /\ ~ReceiveItem /\ ~ReceiveCurrent
    <2>1. comm' = comm /\ msg' = msg
      BY <1>9
         DEF Next, Ground, StartUpload, SendClear, SendCurrent, RepeatCount, Answer, Lose,
             runUnchanged, Run, Manual, Hold, SetHome, RecallHome, Engage, Skip, Arrive, NextLeg,
             Comm, Request, Loaded, RequestTimeout
    <2> QED
      BY <1>9, <2>1 DEF MissionInv, Handled
  <1> QED
    BY <1>3, <1>4, <1>5, <1>6, <1>7, <1>8, <1>9

\* An item that stores no leg leaves its place in the table empty.
LEMMA NoLegStored ==
  ASSUME MissionInv, NEW i \in Index, Item(accepted, i) \in {"SKIP", "SETHOME"}
  PROVE  legs[i].type = "NONE"
  <1>1. legs[i].type \in LegTypes \cup {"NONE"}
    BY LegsType
  <1>2. legs[i].type # "NONE" => legs[i].type = Item(accepted, i)
    BY DEF MissionInv, Table
  <1> QED
    BY <1>1, <1>2 DEF LegTypes, Positioned

LEMMA TableStep ==
  ASSUME MissionInv, Next
  PROVE  Table'
  <1>1. SUFFICES ASSUME NEW i \in Index
        PROVE  /\ legs'[i].type # "NONE" =>
                    accepted' # 0 /\ i < wpCount' /\ legs'[i].type = Item(accepted', i)
               /\ legs'[i].type \in Positioned =>
                    legs'[i].of # 0 \/ (comm' = "store" /\ msg'.seq = i)
    BY DEF Table, Item
  <1>2. /\ legs[i].type # "NONE" => accepted # 0 /\ i < wpCount /\ legs[i].type = Item(accepted, i)
        /\ legs[i].type \in Positioned => legs[i].of # 0 \/ (comm = "store" /\ msg.seq = i)
    BY DEF MissionInv, Table
  <1>3. CASE Clear
    <2>1. legs'[i].type = "NONE"
      BY <1>3, LegsType DEF Clear, Cleared
    <2> QED
      BY <2>1 DEF Positioned
  <1>4. CASE ReceiveItem
    <2> DEFINE seq  == Head(up).seq
               type == Item(Head(up).of, seq)
    <2>1. /\ Head(up).of = accepted /\ accepted # 0 /\ seq < wpCount /\ seq \in Index
          /\ ~(seq >= MaxLegs) /\ comm = "idle"
      BY <1>4, ItemReceived DEF ReceiveItem, Receive
    <2>2. accepted' = accepted /\ wpCount' = wpCount
      BY <1>4, <2>1, NotCleared DEF Clear
    <2>3. CASE legs'[i] = legs[i]
      BY <1>2, <2>1, <2>2, <2>3
    <2>4. CASE legs'[i] # legs[i]
      <3>1. /\ legs' = [legs EXCEPT ![seq].type = type] /\ comm' = "store" /\ msg' = Head(up)
        BY <1>4, <2>4 DEF ReceiveItem
      <3>2. i = seq /\ legs'[i].type = type
        BY <2>1, <2>4, <3>1, LegsType
      <3> QED
        BY <2>1, <2>2, <3>1, <3>2
    <2> QED
      BY <2>3, <2>4
  <1>5. CASE Store
    <2>1. /\ msg.of = accepted /\ accepted # 0 /\ msg.seq \in Index
          /\ Item(msg.of, msg.seq) = "SETHOME" \/ legs[msg.seq].type = Item(msg.of, msg.seq)
      BY <1>5, ItemInHand DEF Store
    <2>2. accepted' = accepted /\ wpCount' = wpCount
      BY <1>5, NotCleared DEF Clear, Store
    <2>3. CASE Item(msg.of, msg.seq) \in {"HOME", "SETHOME"}
      <3>1. legs' = legs
        BY <1>5, <2>3 DEF Store
      <3>2. i = msg.seq => legs[i].type \notin Positioned
        BY <2>1, <2>3, NoLegStored DEF Positioned
      <3> QED
        BY <1>2, <2>2, <3>1, <3>2
    <2>4. CASE Item(msg.of, msg.seq) \notin {"HOME", "SETHOME"}
      <3>1. legs' = [legs EXCEPT ![msg.seq].of = msg.of]
        BY <1>5, <2>4 DEF Store
      <3>2. legs'[i].type = legs[i].type /\ legs'[i].of = IF i = msg.seq THEN msg.of ELSE legs[i].of
        BY <2>1, <3>1, LegsType
      <3> QED
        BY <1>2, <2>1, <2>2, <3>2
    <2> QED
      BY <2>3, <2>4
  <1>6. CASE ~Clear /\ ~ReceiveItem /\ ~Store
    <2>1. legs' = legs
      BY <1>6 DEF Next, Ground, StartUpload, SendClear, SendCurrent, RepeatCount, Answer, Lose,
                  navVars, Run, Manual, Hold, SetHome, RecallHome, Engage, Skip, Arrive, NextLeg,
                  runUnchanged, Comm, ReceiveCount, ReceiveClear, ReceiveCurrent, Load, Request,
                  Loaded, RequestTimeout
    <2>2. comm = "store" => comm' = comm /\ msg' = msg
      BY <1>6, InHand DEF Load
    <2> QED
      BY <1>2, <1>6, <2>1, <2>2, NotCleared
  <1> QED
    BY <1>3, <1>4, <1>5, <1>6

LEMMA BeforeStep ==
  ASSUME MissionInv, Next
  PROVE  Before'
  <1> wpCurrent \in Nat /\ wpCount \in Nat
    BY Constants DEF MissionInv, TypeOK
  <1>1. CASE Clear /\ msg.kind = "COUNT"
    <2>1. CountPending
      BY <1>1 DEF Clear, CountPending
    <2>2. FirstOnly /\ up' = up /\ down' = down /\ comm' = "idle"
      BY <1>1, <2>1 DEF Clear, MissionInv, Announced
    <2>3. StoredBefore(0)'
      BY DEF StoredBefore
    <2> QED
      BY <2>2, <2>3 DEF Before, FirstOnly
  <1>2. CASE Clear /\ msg.kind # "COUNT"
    <2>1. ~Uploading /\ up' = up /\ down' = down /\ comm' = "idle"
      BY <1>2 DEF Clear, MissionInv, Handled
    <2> QED
      BY <2>1, NoMessage DEF Before, Uploading, Incoming
  <1>3. CASE ~Clear
    <2>1. ASSUME NEW k \in DOMAIN down' PROVE StoredBefore(down[k])'
      <3>1. PICK n : n = down'[k]
        OBVIOUS
      <3>2. CASE \E j \in DOMAIN down : down'[k] = down[j]
        <4>1. n \in Nat /\ StoredBefore(n) /\ n < wpCount
          BY <3>1, <3>2, LinkTypes, ElementOfSeq, LenProperties DEF MissionInv, Before, Messages
        <4>2. StoredBefore(n)'
          BY <1>3, <4>1, BeforeKept
        <4> QED
          BY <3>1, <4>2
      <3>3. CASE Request /\ down'[k] = wpCurrent
        <4>1. n < wpCount /\ n = wpCurrent
          BY <3>1, <3>3 DEF Request, Asking
        <4>2. accepted # 0
          BY <4>1 DEF MissionInv, Upload, Uploading
        <4>3. StoredBefore(n)
          BY <4>1, <4>2 DEF MissionInv, LoadedIsSent, StoredBefore
        <4>4. StoredBefore(n)'
          BY <1>3, <4>1, <4>3, BeforeKept
        <4> QED
          BY <3>1, <4>4
      <3> QED
        BY <3>2, <3>3, DownFrom
    <2>2. ASSUME NEW k \in DOMAIN up', up'[k].kind = "ITEM" PROVE StoredBefore(up[k].seq)'
      <3>1. PICK n : n = up'[k].seq
        OBVIOUS
      <3>2. n \in Nat /\ n < wpCount /\ StoredBefore(n)
        <4>1. n \in Nat
          BY <2>2, <3>1, ItemFrom
        <4> QED
          BY <2>2, <3>1, <4>1, ItemFrom DEF MissionInv, Before, Messages
      <3>3. StoredBefore(n)'
        BY <1>3, <3>2, BeforeKept
      <3> QED
        BY <3>1, <3>3
    <2>3. ASSUME comm' = "store" PROVE StoredBefore(msg.seq)'
      <3>1. PICK n : n = msg'.seq
        OBVIOUS
      <3>2. n \in Nat /\ n < wpCount /\ StoredBefore(n)
        <4>1. CASE ReceiveItem
          <5>1. comm = "idle"
            BY <4>1 DEF ReceiveItem, Receive
          <5>2. msg' = Head(up)
            BY <2>3, <4>1, <5>1 DEF ReceiveItem
          <5> QED
            BY <3>1, <4>1, <5>2, ItemReceived DEF ReceiveItem, MissionInv, Before
        <4>2. CASE ~ReceiveItem
          <5>1. comm = "store"
            BY <2>3, <4>2
               DEF Next, Ground, StartUpload, SendClear, SendCurrent, RepeatCount, Answer, Lose,
                   runUnchanged, Run, Manual, Hold, SetHome, RecallHome, Engage, Skip, Arrive,
                   NextLeg, Comm, ReceiveCount, ReceiveClear, Clear, Store, ReceiveCurrent, Load,
                   Request, Loaded, RequestTimeout
          <5>2. ~Store /\ ~Load
            BY <2>3, <5>1 DEF Store, Load
          <5>3. msg' = msg
            BY <1>3, <5>1, <5>2, InHand
          <5> QED
            BY <3>1, <5>1, <5>3, ItemInHand DEF MissionInv, Before
        <4> QED
          BY <4>1, <4>2
      <3>3. StoredBefore(n)'
        BY <1>3, <3>2, BeforeKept
      <3> QED
        BY <3>1, <3>3
    <2> QED
      BY <2>1, <2>2, <2>3 DEF Before
  <1> QED
    BY <1>1, <1>2, <1>3

\* An item and all before it are in the table when the item is dealt with.
LEMMA ItemStored ==
  ASSUME MissionInv, ReceiveItem, Item(Head(up).of, Head(up).seq) = "SKIP"
  PROVE  \A i \in 0 .. Head(up).seq : Stored(accepted, i)
  <1> DEFINE seq == Head(up).seq
  <1>1. /\ Head(up).of = accepted /\ seq \in Nat /\ seq \in Index
        /\ Head(up) = up[1] /\ 1 \in DOMAIN up /\ Head(up).kind = "ITEM"
    BY ItemReceived DEF ReceiveItem
  <1>2. StoredBefore(seq)
    BY <1>1 DEF MissionInv, Before
  <1>3. Item(accepted, seq) = "SKIP"
    BY <1>1
  <1>4. Stored(accepted, seq)
    BY <1>1, <1>3, NoLegStored DEF Stored
  <1>5. \A i \in 0 .. seq : i \in 0 .. seq - 1 \/ i = seq
    BY <1>1
  <1> QED
    BY <1>2, <1>4, <1>5 DEF StoredBefore

LEMMA StoreStored ==
  ASSUME MissionInv, Next, Store
  PROVE  \A i \in 0 .. msg.seq : Stored(accepted, i)'
  <1>1. PICK n, m : n = msg.seq /\ m = accepted
    OBVIOUS
  <1>2. /\ msg.of = m /\ m \in Ids /\ m # 0 /\ n \in Nat /\ n \in Index /\ n < wpCount
        /\ Item(m, n) # "SKIP"
        /\ Item(m, n) = "SETHOME" \/ legs[n].type = Item(m, n)
    BY <1>1, ItemInHand DEF Store
  <1>3. accepted' = m /\ wpCount' = wpCount /\ ~Clear
    BY <1>1, NotCleared DEF Store, Clear
  <1>4. StoredBefore(n)'
    <2>1. StoredBefore(n) /\ wpCount \in Nat
      BY <1>1, Constants DEF Store, MissionInv, Before, TypeOK
    <2> QED
      BY <1>2, <1>3, <2>1, BeforeKept
  <1>5. Stored(m, n)'
    <2>1. CASE Item(m, n) \in {"SKIP", "SETHOME"}
      <3>1. legs' = legs
        BY <1>1, <1>2, <2>1 DEF Store
      <3>2. legs'[n].type = "NONE"
        BY <1>1, <1>2, <2>1, <3>1, NoLegStored
      <3> QED
        BY <2>1, <3>2 DEF Stored, Item
    <2>2. CASE Item(m, n) = "HOME"
      <3>1. legs' = legs /\ home' = At(m, n)
        BY <1>1, <1>2, <2>2 DEF Store
      <3>2. legs'[n].type = "HOME" /\ home' # Unset
        BY <1>2, <2>2, <3>1, PlacesSet
      <3> QED
        BY <2>2, <3>2 DEF Stored, Item
    <2>3. CASE Item(m, n) \notin {"SKIP", "SETHOME", "HOME"}
      <3>1. legs' = [legs EXCEPT ![n].of = m]
        BY <1>1, <1>2, <2>3 DEF Store
      <3>2. legs'[n].type = Item(m, n) /\ legs'[n].of = m
        BY <1>2, <2>3, <3>1, LegsType
      <3> QED
        BY <2>3, <3>2 DEF Stored, Item
    <2> QED
      BY <2>1, <2>2, <2>3
  <1>6. \A i \in 0 .. n : i \in 0 .. n - 1 \/ i = n
    BY <1>2
  <1>7. \A i \in 0 .. n : Stored(accepted, i)'
    BY <1>3, <1>4, <1>5, <1>6 DEF StoredBefore
  <1> QED
    BY <1>1, <1>7

LEMMA LoadedStep ==
  ASSUME MissionInv, Next
  PROVE  LoadedIsSent'
  <1> /\ wpCurrent \in Nat /\ wpCount \in Nat /\ wpCount <= MaxLegs
      /\ wpAttempt \in Nat /\ MaxAttempts \in Nat /\ MaxLegs \in Nat
    BY Constants DEF MissionInv, TypeOK
  <1>1. SUFFICES ASSUME accepted' # 0,
                        wpCurrent' <= wpCount' \/ wpAttempt' <= MaxAttempts,
                        NEW i \in 0 .. wpCount' - 1, i < wpCurrent'
        PROVE  Stored(accepted, i)'
    BY DEF LoadedIsSent
  <1>2. ~Clear
    <2>1. SUFFICES ASSUME Clear PROVE FALSE
      OBVIOUS
    <2>2. wpCurrent' = 0
      BY <1>1, <2>1 DEF Clear
    <2> QED
      BY <1>1, <2>2
  <1>3. accepted' = accepted /\ wpCount' = wpCount
    BY <1>2, NotCleared
  <1>4. i \in Index /\ i \in Nat
    BY <1>1, <1>3 DEF Index
  <1>5. SUFFICES ASSUME ~Store PROVE Stored(accepted, i) \/ Stored(accepted, i)'
    <2>1. CASE Store
      <3>1. wpCurrent' = msg.seq + 1 /\ msg.seq \in Nat
        BY <2>1, ItemInHand DEF Store, Expect
      <3>2. i \in 0 .. msg.seq
        BY <1>1, <1>4, <3>1
      <3> QED
        BY <2>1, <3>2, StoreStored
    <2>2. CASE ~Store
      BY <1>2, <1>4, <1>5, <2>2, StoredKept
    <2> QED
      BY <2>1, <2>2
  <1>6. ASSUME wpCurrent <= wpCount \/ wpAttempt <= MaxAttempts, i < wpCurrent
        PROVE  Stored(accepted, i)
    BY <1>1, <1>3, <1>6 DEF MissionInv, LoadedIsSent
  <1>7. CASE ReceiveItem
    <2>1. CASE Item(Head(up).of, Head(up).seq) = "SKIP"
      <3>1. wpCurrent' = Head(up).seq + 1 /\ Head(up).seq \in Nat
        BY <1>7, <2>1, ItemReceived DEF ReceiveItem, Expect
      <3>2. i \in 0 .. Head(up).seq
        BY <1>1, <1>4, <3>1
      <3> QED
        BY <1>7, <2>1, <3>2, ItemStored
    <2>2. CASE Item(Head(up).of, Head(up).seq) # "SKIP"
      <3>1. wpCurrent' = wpCurrent /\ wpAttempt' = wpAttempt
        BY <1>7, <2>2, ItemReceived DEF ReceiveItem, wpVars
      <3> QED
        BY <1>1, <1>3, <1>6, <3>1
    <2> QED
      BY <2>1, <2>2
  <1>8. CASE Request
    <2>1. wpCurrent < wpCount /\ wpCurrent' = wpCurrent
      BY <1>8 DEF Request, Asking
    <2> QED
      BY <1>1, <1>6, <2>1
  <1>9. CASE Loaded
    <2>1. wpCurrent = wpCount
      BY <1>9 DEF Loaded
    <2> QED
      BY <1>1, <1>3, <1>6, <2>1
  <1>10. ~RequestTimeout
    <2>1. SUFFICES ASSUME RequestTimeout PROVE FALSE
      OBVIOUS
    <2>2. wpCurrent' = wpCount + 1 /\ wpAttempt' = wpAttempt /\ wpAttempt > MaxAttempts
      BY <2>1 DEF RequestTimeout
    <2> QED
      BY <1>1, <1>3, <2>2
  <1>11. CASE ~ReceiveItem /\ ~Request /\ ~Loaded
    <2>1. wpCurrent' = wpCurrent /\ wpAttempt' = wpAttempt
      BY <1>2, <1>5, <1>10, <1>11
         DEF Next, Ground, StartUpload, SendClear, SendCurrent, RepeatCount, Answer, Lose,
             runUnchanged, Run, Manual, Hold, SetHome, RecallHome, Engage, Skip, Arrive, NextLeg,
             Comm, ReceiveCount, ReceiveClear, ReceiveCurrent, Load, wpVars
    <2> QED
      BY <1>1, <1>3, <1>6, <2>1
  <1> QED
    BY <1>7, <1>8, <1>9, <1>11

-------------------------------------------------------------------------------
(* The mission that is flown                                                   *)

LegLoads == Engage \/ Skip \/ NextLeg

\* The craft enters and flies a mission only when all of it is in the table.
LEMMA Complete ==
  ASSUME MissionInv, mode = "MISSION" \/ Engage
  PROVE  /\ StoredBefore(wpCount) /\ accepted # 0 /\ leg \in Index
         /\ comm \in {"idle", "store"} /\ \A k \in DOMAIN up : up[k].kind # "CURRENT"
  <1>1. CASE mode = "MISSION"
    BY <1>1 DEF MissionInv, Flying
  <1>2. CASE Engage
    <2>1. leg \in Index /\ legs[leg].type # "NONE"
      BY <1>2 DEF Engage, LegType
    <2>2. accepted # 0
      BY <2>1 DEF MissionInv, Table
    <2>3. /\ wpCurrent > wpCount /\ wpAttempt <= MaxAttempts /\ comm \in {"idle", "store"}
          /\ \A k \in DOMAIN up : up[k].kind = "ITEM"
      BY <1>2 DEF Engage, PilotMayEngage
    <2>4. wpCurrent \in Nat /\ wpCount \in Nat
      BY Constants DEF MissionInv, TypeOK
    <2>5. \A i \in 0 .. wpCount - 1 : i < wpCurrent
      BY <2>3, <2>4
    <2>6. StoredBefore(wpCount)
      BY <2>2, <2>3, <2>5 DEF MissionInv, LoadedIsSent, StoredBefore
    <2> QED
      BY <2>1, <2>2, <2>3, <2>6
  <1> QED
    BY <1>1, <1>2

\* The leg the run task loads is an item of the mission, stored as it was sent.
LEMMA LegOfMission ==
  ASSUME MissionInv, StoredBefore(wpCount), NEW i \in Index, legs[i].type # "NONE"
  PROVE  /\ accepted \in Ids /\ accepted # 0 /\ i < wpCount /\ i < Count(accepted)
         /\ legs[i].type = Item(accepted, i) /\ Stored(accepted, i)
         /\ legs[i].type \in Positioned => legs[i].of = accepted
         /\ legs[i].type = "HOME" => home # Unset
  <1>1. accepted # 0 /\ i < wpCount /\ legs[i].type = Item(accepted, i)
    BY DEF MissionInv, Table
  <1>2. accepted \in Ids /\ wpCount = Count(accepted) /\ wpCount \in Nat /\ i \in Nat
    BY <1>1, Constants DEF MissionInv, Upload, TypeOK, Index
  <1>3. Stored(accepted, i)
    BY <1>1, <1>2 DEF StoredBefore
  <1>4. legs[i].type \in Positioned => legs[i].of = accepted
    BY <1>1, <1>3, StoredAs DEF Positioned
  <1>5. legs[i].type = "HOME" => home # Unset
    BY <1>1, <1>3, StoredAs
  <1> QED
    BY <1>1, <1>2, <1>3, <1>4, <1>5

\* The position held is that of item i of mission m.
OwnPlace(m, i) ==
  /\ Item(m, i) \in Positioned => target = At(m, i)
  /\ Item(m, i) = "HOME" => target # Unset
  /\ Item(m, i) \notin Positioned \cup {"HOME"} => target = Here

LEMMA OwnPlaceAs ==
  ASSUME NEW m, NEW i
  PROVE  OwnPlace(m, i) <=> CASE Item(m, i) \in Positioned -> target = At(m, i)
                              [] Item(m, i) = "HOME"       -> target # Unset
                              [] OTHER                     -> target = Here
  <1>1. CASE Item(m, i) \in Positioned
    BY <1>1 DEF OwnPlace, Positioned
  <1>2. CASE Item(m, i) = "HOME"
    BY <1>2 DEF OwnPlace, Positioned
  <1>3. CASE Item(m, i) \notin Positioned \cup {"HOME"}
    BY <1>3 DEF OwnPlace
  <1> QED
    BY <1>1, <1>2, <1>3

\* What SetTarget() holds of a leg of the mission.
LEMMA TargetIsOwn ==
  ASSUME MissionInv, StoredBefore(wpCount), NEW i \in Index, legs[i].type # "NONE", SetTarget(i)
  PROVE  OwnPlace(accepted, i)' \/ accepted' # accepted
  <1>1. PICK m : m = accepted
    OBVIOUS
  <1>2. /\ legs[i].type = Item(m, i)
        /\ legs[i].type \in Positioned => legs[i].of = m
        /\ legs[i].type = "HOME" => home # Unset
        /\ LegType(i) = legs[i].type
    BY <1>1, LegOfMission DEF LegType
  <1>3. CASE Item(m, i) \in Positioned
    <2>1. target' = At(m, i)
      BY <1>2, <1>3 DEF SetTarget, Positioned
    <2>2. OwnPlace(m, i)'
      BY <1>3, <2>1 DEF OwnPlace, Item, At, Positioned
    <2> QED
      BY <1>1, <2>2
  <1>4. CASE Item(m, i) = "HOME"
    <2>1. target' = home /\ home # Unset
      BY <1>2, <1>4 DEF SetTarget, Positioned
    <2>2. OwnPlace(m, i)'
      BY <1>4, <2>1 DEF OwnPlace, Item, Unset, At, Positioned
    <2> QED
      BY <1>1, <2>2
  <1>5. CASE Item(m, i) \notin Positioned \cup {"HOME"}
    <2>1. target' = Here
      BY <1>2, <1>5 DEF SetTarget
    <2>2. OwnPlace(m, i)'
      BY <1>5, <2>1 DEF OwnPlace, Item, Here, At
    <2> QED
      BY <1>1, <2>2
  <1> QED
    BY <1>3, <1>4, <1>5

\* The three actions that load a leg.
LEMMA LoadsLeg ==
  ASSUME MissionInv, LegLoads
  PROVE  \E i \in Nat :
           /\ LoadLeg(i) /\ (LegType(i) # "NONE" => leg' = i)
           /\ mode' = "MISSION" /\ LegType(i) = "NONE" => leg' = leg
           /\ leg' \in 0 .. MaxLegs
           /\ mode' = "MISSION" => mode = "MISSION" \/ Engage
  <1>1. /\ leg \in Index /\ MaxLegs \in Nat /\ MaxLegs > 0
    BY Complete, Constants DEF LegLoads, Skip, NextLeg
  <1>2. /\ leg \in Nat /\ leg + 1 \in Nat /\ leg + 1 \in 0 .. MaxLegs /\ leg \in 0 .. MaxLegs
        /\ 0 \in 0 .. MaxLegs
    BY <1>1 DEF Index
  <1>3. CASE Engage
    BY <1>2, <1>3 DEF Engage
  <1>4. CASE Skip
    <2>1. PICK i \in {0, leg + 1} :
            /\ LoadLeg(i) /\ leg' = (IF LegType(i) = "NONE" THEN leg ELSE i) /\ mode' = mode
      BY <1>4 DEF Skip
    <2>2. i \in Nat /\ i \in 0 .. MaxLegs
      BY <1>2, <2>1
    <2> QED
      BY <1>2, <2>1, <2>2
  <1>5. CASE NextLeg
    <2>1. /\ leg' = leg + 1 /\ LoadLeg(leg + 1) /\ mode = "MISSION"
          /\ mode' = IF LegType(leg + 1) = "NONE" THEN "POSHOLD" ELSE mode
      BY <1>5 DEF NextLeg
    <2> QED
      BY <1>2, <2>1
  <1> QED
    BY <1>3, <1>4, <1>5 DEF LegLoads

\* All other actions leave the leg flown alone.
LEMMA FlightKept ==
  ASSUME MissionInv, Next, ~LegLoads, mode' = "MISSION"
  PROVE  /\ mode = "MISSION" /\ leg' = leg /\ hasLeg' = hasLeg
         /\ (target' = target /\ recalled' = recalled) \/ recalled'
         /\ ~Clear /\ ~Load /\ ~ReceiveCurrent
  <1>1. mode = "MISSION"
    BY DEF Next, Ground, StartUpload, SendClear, SendCurrent, RepeatCount, Answer, Lose, navVars,
           Run, LegLoads, Manual, Hold, SetHome, RecallHome, Arrive, runUnchanged, flying,
           Comm, ReceiveCount, ReceiveClear, Clear, ReceiveItem, Store, ReceiveCurrent, Load,
           Request, Loaded, RequestTimeout
  <1>2. comm \in {"idle", "store"} /\ \A k \in DOMAIN up : up[k].kind # "CURRENT"
    BY <1>1, Complete
  <1>3. ~Clear /\ ~Load
    BY <1>2 DEF Clear, Load
  <1>4. ~ReceiveCurrent
    <2>1. SUFFICES ASSUME ReceiveCurrent PROVE FALSE
      OBVIOUS
    <2>2. up # <<>> /\ up \in Seq(UpMsgs) /\ Head(up).kind = "CURRENT"
      BY <2>1 DEF ReceiveCurrent, Receive, MissionInv, TypeOK
    <2> QED
      BY <1>2, <2>2, Taken
  <1>5. CASE Ground
    BY <1>1, <1>3, <1>4, <1>5
       DEF Ground, StartUpload, SendClear, SendCurrent, RepeatCount, Answer, Lose, navVars, flying
  <1>6. CASE Run
    BY <1>1, <1>3, <1>4, <1>6
       DEF Run, LegLoads, Manual, Hold, SetHome, RecallHome, Arrive, flying
  <1>7. CASE Comm
    BY <1>1, <1>3, <1>4, <1>7
       DEF Comm, ReceiveCount, ReceiveClear, ReceiveItem, Store, Request, Loaded, RequestTimeout,
           navVars, flying
  <1> QED
    BY <1>5, <1>6, <1>7 DEF Next

LEMMA FlyingStep ==
  ASSUME MissionInv, Next
  PROVE  Flying'
  <1>1. SUFFICES ASSUME mode' = "MISSION"
        PROVE  /\ accepted' # 0 /\ leg' \in Index /\ comm' \in {"idle", "store"}
               /\ \A k \in DOMAIN up' : up'[k].kind # "CURRENT"
               /\ StoredBefore(wpCount)'
    BY DEF Flying, Index
  <1>2. mode = "MISSION" \/ Engage
    <2>1. CASE LegLoads
      BY <1>1, <2>1, LoadsLeg
    <2>2. CASE ~LegLoads
      BY <1>1, <2>2, FlightKept
    <2> QED
      BY <2>1, <2>2
  <1>3. /\ StoredBefore(wpCount) /\ accepted # 0 /\ leg \in Index
        /\ comm \in {"idle", "store"} /\ \A k \in DOMAIN up : up[k].kind # "CURRENT"
    BY <1>2, Complete
  <1>4. ~Clear
    BY <1>3 DEF Clear
  <1>5. accepted' = accepted /\ wpCount' = wpCount
    BY <1>4, NotCleared
  <1>6. StoredBefore(wpCount)'
    <2>1. PICK n : n = wpCount
      OBVIOUS
    <2>2. n \in Nat /\ StoredBefore(n)
      BY <1>3, <2>1, Constants DEF MissionInv, TypeOK
    <2>3. StoredBefore(n)'
      BY <1>4, <2>1, <2>2, BeforeKept
    <2> QED
      BY <1>5, <2>1, <2>3
  <1>7. leg' \in Index
    <2>1. CASE LegLoads
      <3>1. PICK i \in Nat : /\ LegType(i) # "NONE" => leg' = i
                             /\ LegType(i) = "NONE" => leg' = leg
        BY <1>1, <2>1, LoadsLeg
      <3> QED
        BY <1>3, <3>1 DEF LegType
    <2>2. CASE ~LegLoads
      BY <1>1, <1>3, <2>2, FlightKept
    <2> QED
      BY <2>1, <2>2
  <1>8. comm' \in {"idle", "store"}
    <2>1. CASE LegLoads
      BY <1>3, <2>1 DEF LegLoads, Engage, Skip, NextLeg, runUnchanged
    <2>2. CASE ~LegLoads
      <3>1. mode = "MISSION" /\ ~ReceiveCurrent /\ ~Load
        BY <1>1, <2>2, FlightKept
      <3> QED
        BY <1>3, <1>4, <2>2, <3>1
           DEF Next, Ground, StartUpload, SendClear, SendCurrent, RepeatCount, Answer, Lose,
               runUnchanged, Run, LegLoads, Manual, Hold, SetHome, RecallHome, Arrive, Comm,
               ReceiveCount, ReceiveClear, ReceiveItem, Store, Request, Loaded, RequestTimeout
    <2> QED
      BY <2>1, <2>2
  <1>9. ASSUME NEW k \in DOMAIN up' PROVE up'[k].kind # "CURRENT"
    <2>1. CASE Old(k)
      BY <1>3, <2>1 DEF Old
    <2>2. ~SendCurrent
      BY <1>1 DEF SendCurrent, navVars, flying
    <2> QED
      BY <2>1, <2>2, UpFrom
  <1> QED
    BY <1>3, <1>5, <1>6, <1>7, <1>8, <1>9

LEMMA FlownStep ==
  ASSUME MissionInv, Next
  PROVE  FlownIsSent'
  <1>1. SUFFICES ASSUME mode' = "MISSION", hasLeg'
        PROVE  /\ accepted' # 0 /\ leg' < Count(accepted')
               /\ recalled' \/
                  CASE Item(accepted', leg') \in Positioned -> target' = At(accepted', leg')
                    [] Item(accepted', leg') = "HOME"       -> target' # Unset
                    [] OTHER                                -> target' = Here
    BY DEF FlownIsSent, Item, Count, At, Here, Unset
  <1>2. accepted' = accepted
    <2>1. ~Clear
      <3>1. CASE LegLoads
        BY <3>1 DEF LegLoads, Engage, Skip, NextLeg, runUnchanged, Clear
      <3>2. CASE ~LegLoads
        BY <1>1, <3>2, FlightKept
      <3> QED
        BY <3>1, <3>2
    <2> QED
      BY <2>1, NotCleared
  <1>3. PICK m, n : m = accepted /\ n = leg'
    OBVIOUS
  <1>4. CASE LegLoads
    <2>1. PICK i \in Nat : /\ LoadLeg(i) /\ (LegType(i) # "NONE" => leg' = i)
                           /\ mode = "MISSION" \/ Engage
      BY <1>1, <1>4, LoadsLeg
    <2>2. LegType(i) # "NONE"
      BY <1>1, <2>1 DEF LoadLeg
    <2>3. i \in Index /\ legs[i].type # "NONE" /\ SetTarget(i) /\ i = n
      BY <1>3, <2>1, <2>2 DEF LegType, LoadLeg
    <2>4. StoredBefore(wpCount)
      BY <2>1, Complete
    <2>5. accepted # 0 /\ n < Count(accepted)
      BY <2>3, <2>4, LegOfMission
    <2>6. OwnPlace(m, n)'
      <3>1. OwnPlace(accepted, i)'
        BY <1>2, <2>3, <2>4, TargetIsOwn
      <3>2. PICK a : a = accepted'
        OBVIOUS
      <3>3. OwnPlace(a, i)' /\ a = m
        BY <1>2, <1>3, <3>1, <3>2
      <3> QED
        BY <2>3, <3>3
    <2>7. CASE Item(m, n) \in Positioned
      BY <1>2, <1>3, <2>5, <2>6, <2>7 DEF OwnPlace, Item, At
    <2>8. CASE Item(m, n) = "HOME"
      BY <1>2, <1>3, <2>5, <2>6, <2>8 DEF OwnPlace, Item, Unset, At, Positioned
    <2>9. CASE Item(m, n) \notin Positioned \cup {"HOME"}
      BY <1>2, <1>3, <2>5, <2>6, <2>9 DEF OwnPlace, Item, Here, At
    <2> QED
      BY <2>7, <2>8, <2>9
  <1>5. CASE ~LegLoads
    <2>1. /\ mode = "MISSION" /\ leg = n /\ hasLeg
          /\ (target' = target /\ recalled' = recalled) \/ recalled'
      BY <1>1, <1>3, <1>5, FlightKept
    <2>2. /\ accepted # 0 /\ n < Count(accepted)
          /\ recalled \/
             CASE Item(accepted, n) \in Positioned -> target = At(accepted, n)
               [] Item(accepted, n) = "HOME"       -> target # Unset
               [] OTHER                            -> target = Here
      BY <2>1 DEF MissionInv, FlownIsSent
    <2>3. CASE recalled'
      BY <1>2, <1>3, <2>2, <2>3
    <2>4. CASE target' = target /\ recalled' = recalled
      BY <1>2, <1>3, <2>2, <2>4
    <2> QED
      BY <2>1, <2>3, <2>4
  <1> QED
    BY <1>4, <1>5

-------------------------------------------------------------------------------
(* Types                                                                       *)

LEMMA CountersTyped ==
  ASSUME MissionInv, Next
  PROVE  /\ sending' \in Ids \cup {0} /\ heard' \in BOOLEAN /\ sent' \in 0 .. MaxSent
         /\ accepted' \in Ids \cup {0} /\ wpCount' \in 0 .. MaxLegs
  <1>1. /\ sending \in Ids \cup {0} /\ sent \in 0 .. MaxSent /\ accepted \in Ids \cup {0}
        /\ heard \in BOOLEAN /\ wpCount \in 0 .. MaxLegs /\ MaxSent \in Nat /\ MaxLegs \in Nat
    BY Constants DEF MissionInv, TypeOK
  <1>2. sending' \in Ids \cup {0}
    BY <1>1, SendingKept DEF StartUpload
  <1>3. sent' = sent \/ (sent < MaxSent /\ sent' = sent + 1)
    BY DEF Next, Ground, StartUpload, SendClear, SendCurrent, RepeatCount, Answer, Lose, ground, Run,
           Manual, Hold, SetHome, RecallHome, Engage, Skip, Arrive, NextLeg, runUnchanged, Comm,
           ReceiveCount, ReceiveClear, Clear, ReceiveItem, Store, ReceiveCurrent, Load, Request,
           Loaded, RequestTimeout
  <1>4. sent' \in 0 .. MaxSent
    BY <1>1, <1>3
  <1>5. heard' \in BOOLEAN
    BY <1>1
       DEF Next, Ground, StartUpload, SendClear, SendCurrent, RepeatCount, Answer, Lose, ground, Run,
           Manual, Hold, SetHome, RecallHome, Engage, Skip, Arrive, NextLeg, runUnchanged, Comm,
           ReceiveCount, ReceiveClear, Clear, ReceiveItem, Store, ReceiveCurrent, Load, Request,
           Loaded, RequestTimeout
  <1>6. accepted' \in Ids \cup {0} /\ wpCount' \in 0 .. MaxLegs
    <2>1. CASE ~Clear
      BY <1>1, <2>1, NotCleared
    <2>2. CASE Clear /\ msg.kind = "COUNT"
      <3>1. msg.of = sending /\ Count(msg.of) <= MaxLegs /\ msg.of \in Ids
        BY <2>2, MessageFields DEF Clear, MissionInv, Handled, TypeOK, Nothing
      <3>2. Count(msg.of) \in 0 .. MaxLegs
        BY <1>1, <3>1, MissionItems
      <3> QED
        BY <2>2, <3>1, <3>2 DEF Clear
    <2>3. CASE Clear /\ msg.kind # "COUNT"
      BY <1>1, <2>3 DEF Clear, wpVars
    <2> QED
      BY <2>1, <2>2, <2>3
  <1> QED
    BY <1>2, <1>4, <1>5, <1>6

LEMMA ExpectedTyped ==
  ASSUME MissionInv, Next
  PROVE  wpCurrent' \in 0 .. MaxLegs + 1 /\ wpAttempt' \in 0 .. MaxAttempts + 1
  <1>1. /\ wpCurrent \in 0 .. MaxLegs + 1 /\ wpAttempt \in 0 .. MaxAttempts + 1
        /\ wpCount \in 0 .. MaxLegs /\ MaxLegs \in Nat /\ MaxAttempts \in Nat
    BY Constants DEF MissionInv, TypeOK
  <1>2. CASE Clear
    BY <1>1, <1>2 DEF Clear, wpVars
  <1>3. CASE ReceiveItem
    <2>1. Head(up).seq \in Index
      BY <1>3, ItemReceived DEF ReceiveItem
    <2>2. \/ wpCurrent' = Head(up).seq + 1 /\ wpAttempt' = 0
          \/ wpCurrent' = wpCurrent /\ wpAttempt' = wpAttempt
      BY <1>3 DEF ReceiveItem, Expect, wpVars
    <2> QED
      BY <1>1, <2>1, <2>2 DEF Index
  <1>4. CASE Store
    <2>1. msg.seq \in Index
      BY <1>4, ItemInHand DEF Store
    <2> QED
      BY <1>1, <1>4, <2>1 DEF Store, Expect, Index
  <1>5. CASE Request \/ Loaded \/ RequestTimeout
    BY <1>1, <1>5 DEF Request, Asking, Loaded, RequestTimeout
  <1>6. CASE ~Clear /\ ~ReceiveItem /\ ~Store /\ ~Request /\ ~Loaded /\ ~RequestTimeout
    <2>1. wpCurrent' = wpCurrent /\ wpAttempt' = wpAttempt
      BY <1>6
         DEF Next, Ground, StartUpload, SendClear, SendCurrent, RepeatCount, Answer, Lose,
             runUnchanged, Run, Manual, Hold, SetHome, RecallHome, Engage, Skip, Arrive, NextLeg,
             Comm, ReceiveCount, ReceiveClear, ReceiveCurrent, Load, wpVars
    <2> QED
      BY <1>1, <2>1
  <1> QED
    BY <1>2, <1>3, <1>4, <1>5, <1>6

LEMMA CommTyped ==
  ASSUME MissionInv, Next
  PROVE  comm' \in {"idle", "clear", "store", "load"} /\ msg' \in UpMsgs \cup {Nothing}
  <1>1. comm \in {"idle", "clear", "store", "load"} /\ msg \in UpMsgs \cup {Nothing}
    BY DEF MissionInv, TypeOK
  <1>2. up # <<>> => Head(up) \in UpMsgs
    BY LinkTypes, Taken
  <1>3. CASE Ground
    BY <1>1, <1>3 DEF Ground, StartUpload, SendClear, SendCurrent, RepeatCount, Answer, Lose
  <1>4. CASE Run
    BY <1>1, <1>4 DEF Run, Manual, Hold, SetHome, RecallHome, Engage, Skip, Arrive, NextLeg,
                      runUnchanged
  <1>5. CASE Comm
    BY <1>1, <1>2, <1>5
       DEF Comm, ReceiveCount, ReceiveClear, Clear, ReceiveItem, Store, ReceiveCurrent, Load,
           Request, Loaded, RequestTimeout, Receive
  <1> QED
    BY <1>3, <1>4, <1>5 DEF Next

LEMMA LegsTyped ==
  ASSUME MissionInv, Next
  PROVE  legs' \in [Index -> [type : LegTypes \cup {"NONE"}, of : Ids \cup {0}]]
  <1> DEFINE Legs == [Index -> [type : LegTypes \cup {"NONE"}, of : Ids \cup {0}]]
  <1>1. legs \in Legs
    BY DEF MissionInv, TypeOK
  <1>2. CASE Clear
    BY <1>1, <1>2 DEF Clear, Cleared
  <1>3. CASE ReceiveItem
    <2> DEFINE seq  == Head(up).seq
               type == Item(Head(up).of, seq)
    <2>1. seq \in Index /\ ~(seq >= MaxLegs) /\ type \in Items
      BY <1>3, ItemReceived DEF ReceiveItem
    <2>2. legs' = legs \/ (type \notin {"SKIP", "SETHOME"} /\ legs' = [legs EXCEPT ![seq].type = type])
      BY <1>3 DEF ReceiveItem
    <2>3. type \notin {"SKIP", "SETHOME"} => type \in LegTypes
      BY <2>1 DEF Items
    <2> HIDE DEF type, seq
    <2> QED
      BY <1>1, <2>1, <2>2, <2>3
  <1>4. CASE Store
    <2>1. msg.of \in Ids /\ msg.seq \in Index
      BY <1>4, ItemInHand DEF Store
    <2>2. legs' = legs \/ legs' = [legs EXCEPT ![msg.seq].of = msg.of]
      BY <1>4 DEF Store
    <2> QED
      BY <1>1, <2>1, <2>2
  <1>5. CASE ~Clear /\ ~ReceiveItem /\ ~Store
    <2>1. legs' = legs
      BY <1>5 DEF Next, Ground, StartUpload, SendClear, SendCurrent, RepeatCount, Answer, Lose,
                  navVars, Run, Manual, Hold, SetHome, RecallHome, Engage, Skip, Arrive, NextLeg,
                  runUnchanged, Comm, ReceiveCount, ReceiveClear, ReceiveCurrent, Load, Request,
                  Loaded, RequestTimeout
    <2> QED
      BY <1>1, <2>1
  <1> QED
    BY <1>2, <1>3, <1>4, <1>5

\* A leg whose position is held is a leg whose position was stored.
LEMMA TargetTyped ==
  ASSUME MissionInv, NEW i \in Index, SetTarget(i), StoredBefore(wpCount) \/ comm = "idle",
         legs[i].type # "NONE"
  PROVE  /\ target' \in Place \cup {Unset} /\ home' \in Place \cup {Unset}
         /\ recalled' \in BOOLEAN
  <1>1. home \in Place \cup {Unset} /\ Here \in Place
    BY PlacesSet DEF MissionInv, TypeOK
  <1>2. LegType(i) = legs[i].type
    BY DEF LegType
  <1>3. CASE LegType(i) \in Positioned
    <2>1. legs[i].of \in Ids
      <3>1. CASE StoredBefore(wpCount)
        BY <1>2, <1>3, <3>1, LegOfMission
      <3>2. CASE comm = "idle"
        BY <1>2, <1>3, <3>2, LegsType DEF MissionInv, Table
      <3> QED
        BY <3>1, <3>2
    <2>2. i \in Nat
      BY Constants DEF Index
    <2>3. At(legs[i].of, i) \in Place
      BY <2>1, <2>2, PlacesSet
    <2> QED
      BY <1>1, <1>3, <2>3 DEF SetTarget, Positioned
  <1>4. CASE LegType(i) = "HOME"
    BY <1>1, <1>4 DEF SetTarget, Positioned
  <1>5. CASE LegType(i) \notin Positioned \cup {"HOME"}
    BY <1>1, <1>5 DEF SetTarget
  <1> QED
    BY <1>3, <1>4, <1>5

LEMMA FlightTyped ==
  ASSUME MissionInv, Next
  PROVE  /\ mode' \in {"MANUAL", "POSHOLD", "MISSION"}
         /\ leg' \in 0 .. MaxLegs /\ hasLeg' \in BOOLEAN /\ loiter' \in BOOLEAN
         /\ recalled' \in BOOLEAN
         /\ target' \in Place \cup {Unset} /\ home' \in Place \cup {Unset}
  <1>1. /\ mode \in {"MANUAL", "POSHOLD", "MISSION"}
        /\ leg \in 0 .. MaxLegs /\ hasLeg \in BOOLEAN /\ loiter \in BOOLEAN
        /\ recalled \in BOOLEAN
        /\ target \in Place \cup {Unset} /\ home \in Place \cup {Unset} /\ Here \in Place
        /\ MaxLegs \in Nat
    BY Constants, PlacesSet DEF MissionInv, TypeOK
  <1>2. CASE LegLoads
    <2>1. PICK i \in Nat : LoadLeg(i) /\ leg' \in 0 .. MaxLegs
      BY <1>2, LoadsLeg
    <2>2. mode' \in {"MANUAL", "POSHOLD", "MISSION"}
      BY <1>1, <1>2 DEF LegLoads, Engage, Skip, NextLeg
    <2>3. CASE LegType(i) = "NONE"
      BY <1>1, <2>1, <2>2, <2>3 DEF LoadLeg
    <2>4. CASE LegType(i) # "NONE"
      <3>1. i \in Index /\ legs[i].type # "NONE" /\ SetTarget(i)
        BY <2>1, <2>4 DEF LegType, LoadLeg
      <3>2. StoredBefore(wpCount)
        BY <1>2, Complete DEF LegLoads, Skip, NextLeg
      <3>3. hasLeg' = TRUE /\ loiter' = FALSE
        BY <2>1, <2>4 DEF LoadLeg
      <3> QED
        BY <2>1, <2>2, <3>1, <3>2, <3>3, TargetTyped
    <2> QED
      BY <2>3, <2>4
  <1>3. CASE ReceiveCurrent
    <2>1. up # <<>> /\ Head(up) \in UpMsgs /\ Head(up).kind = "CURRENT" /\ comm = "idle"
      BY <1>3, LinkTypes, Taken DEF ReceiveCurrent, Receive
    <2>2. Head(up).seq \in Index
      BY <2>1, MessageFields
    <2>3. mode' = mode /\ leg' = leg /\ hasLeg' = hasLeg /\ loiter' = loiter
      BY <1>3 DEF ReceiveCurrent
    <2>4. CASE LegType(Head(up).seq) = "NONE"
      BY <1>1, <1>3, <2>3, <2>4 DEF ReceiveCurrent
    <2>5. CASE LegType(Head(up).seq) # "NONE"
      <3>1. SetTarget(Head(up).seq) /\ legs[Head(up).seq].type # "NONE"
        BY <1>3, <2>2, <2>5 DEF ReceiveCurrent, LegType
      <3> QED
        BY <1>1, <2>1, <2>2, <2>3, <3>1, TargetTyped
    <2> QED
      BY <2>4, <2>5
  <1>4. CASE Load
    <2>1. msg.seq \in Index
      BY <1>4, MessageFields DEF Load, MissionInv, Handled, TypeOK, Nothing
    <2>2. msg.seq \in 0 .. MaxLegs
      BY <1>1, <2>1 DEF Index
    <2> QED
      BY <1>1, <1>4, <2>2 DEF Load
  <1>5. CASE Store
    <2>1. msg.of \in Ids /\ msg.seq \in Nat
      BY <1>5, ItemInHand DEF Store
    <2>2. home' \in Place \cup {Unset}
      BY <1>1, <1>5, <2>1, PlacesSet DEF Store
    <2> QED
      BY <1>1, <1>5, <2>2 DEF Store, flying
  <1>6. CASE Manual \/ Hold \/ SetHome \/ RecallHome \/ Arrive
    <2>1. leg' \in 0 .. MaxLegs /\ mode' \in {"MANUAL", "POSHOLD", "MISSION"}
      BY <1>1, <1>6 DEF Manual, Hold, SetHome, RecallHome, Arrive, flying
    <2>2. hasLeg' \in BOOLEAN /\ loiter' \in BOOLEAN /\ recalled' \in BOOLEAN
      <3>1. hasLeg \in BOOLEAN /\ loiter \in BOOLEAN /\ recalled \in BOOLEAN
        BY <1>1
      <3> QED
        BY ONLY <1>6, <3>1 DEF Manual, Hold, SetHome, RecallHome, Arrive, flying
    <2>3. target' \in Place \cup {Unset} /\ home' \in Place \cup {Unset}
      BY <1>1, <1>6 DEF Manual, Hold, SetHome, RecallHome, Arrive, flying
    <2> QED
      BY <2>1, <2>2, <2>3
  <1>7. CASE Ground
    BY <1>1, <1>7 DEF Ground, StartUpload, SendClear, SendCurrent, RepeatCount, Answer, Lose,
                      navVars, flying
  <1>8. CASE Comm /\ ~ReceiveCurrent /\ ~Load /\ ~Store
    BY <1>1, <1>8 DEF Comm, ReceiveCount, ReceiveClear, Clear, ReceiveItem, Request, Loaded,
                      RequestTimeout, navVars, flying
  <1> QED
    BY <1>2, <1>3, <1>4, <1>5, <1>6, <1>7, <1>8 DEF Next, Run, LegLoads

LEMMA TypeStep ==
  ASSUME MissionInv, Next
  PROVE  TypeOK'
  BY LinkTypesKept, CountersTyped, ExpectedTyped, CommTyped, LegsTyped, FlightTyped
     DEF TypeOK, Ids, Index, UpMsgs, Nothing, Place, Unset, Here, At, LegTypes, Positioned

-------------------------------------------------------------------------------
(* The theorems                                                                *)

LEMMA MissionInit == Init => MissionInv
  <1> SUFFICES ASSUME Init PROVE MissionInv
    OBVIOUS
  <1>1. /\ up = <<>> /\ down = <<>> /\ comm = "idle" /\ msg = Nothing /\ mode = "MANUAL"
        /\ accepted = 0 /\ sending = 0 /\ wpCount = 0 /\ wpCurrent = 1 /\ heard = FALSE
        /\ legs = [i \in Index |-> [type |-> "NONE", of |-> 0]]
    BY DEF Init
  <1>2. DOMAIN up = {} /\ DOMAIN down = {} /\ up \in Seq(UpMsgs) /\ down \in Seq(Nat)
    BY <1>1, NoMessage
  <1>3. ~Uploading /\ ~Incoming
    BY <1>1, <1>2 DEF Uploading, Incoming
  <1>4. TypeOK
    <2>1. /\ sent \in 0 .. MaxSent /\ wpCount \in 0 .. MaxLegs /\ wpCurrent \in 0 .. MaxLegs + 1
          /\ wpAttempt \in 0 .. MaxAttempts + 1 /\ leg \in 0 .. MaxLegs
      BY Constants DEF Init
    <2>2. heard \in BOOLEAN /\ hasLeg \in BOOLEAN /\ loiter \in BOOLEAN /\ recalled \in BOOLEAN
      BY DEF Init
    <2>3. legs \in [Index -> [type : LegTypes \cup {"NONE"}, of : Ids \cup {0}]]
      BY <1>1
    <2>4. target \in Place \cup {Unset} /\ home \in Place \cup {Unset}
      BY PlacesSet DEF Init
    <2> QED
      BY <1>1, <1>2, <2>1, <2>2, <2>3, <2>4 DEF TypeOK
  <1>5. Upload /\ Messages /\ Handled /\ LoadedIsSent /\ Flying /\ FlownIsSent
    BY <1>1, <1>2, <1>3 DEF Upload, Messages, Handled, LoadedIsSent, Flying, FlownIsSent
  <1>6. Announced
    BY <1>1, <1>2, <1>3 DEF Announced, FirstOnly
  <1>7. Table
    BY <1>1 DEF Table, Positioned
  <1>8. Before
    BY <1>1, <1>2 DEF Before
  <1> QED
    BY <1>4, <1>5, <1>6, <1>7, <1>8 DEF MissionInv

LEMMA MissionStutter ==
  ASSUME MissionInv, UNCHANGED vars
  PROVE  MissionInv'
  <1>1. /\ sending' = sending /\ heard' = heard /\ sent' = sent /\ up' = up /\ down' = down
        /\ wpCount' = wpCount /\ wpCurrent' = wpCurrent /\ wpAttempt' = wpAttempt
        /\ comm' = comm /\ msg' = msg /\ legs' = legs /\ mode' = mode /\ leg' = leg
        /\ hasLeg' = hasLeg /\ loiter' = loiter /\ target' = target /\ home' = home
        /\ accepted' = accepted /\ recalled' = recalled
    BY DEF vars, ground, wpVars, navVars, flying
  <1>2. Uploading' = Uploading /\ Incoming' = Incoming
    BY <1>1 DEF Uploading, Incoming
  <1>3. TypeOK' /\ Upload' /\ Messages' /\ Handled'
    BY <1>1, <1>2 DEF MissionInv, TypeOK, Upload, Messages, Handled, Count, Item, Ids, Index, UpMsgs,
       Nothing, Place, Unset, Here, At
  <1>4. Announced'
    BY <1>1, <1>2 DEF MissionInv, Announced, FirstOnly, CountPending
  <1>5. Table' /\ Before'
    BY <1>1 DEF MissionInv, Table, Before, StoredBefore, Stored, Item
  <1>6. LoadedIsSent' /\ Flying' /\ FlownIsSent'
    BY <1>1 DEF MissionInv, LoadedIsSent, Flying, FlownIsSent, StoredBefore, Stored, Item, Count, At,
       Here, Unset
  <1> QED
    BY <1>3, <1>4, <1>5, <1>6 DEF MissionInv

\* The invariant is inductive: what is under way, what comm is in the middle of, what
\* the table holds and what is flown all belong to the mission accepted last.
THEOREM MissionInductive == Spec => []MissionInv
  <1>1. MissionInv /\ [Next]_vars => MissionInv'
    <2>1. ASSUME MissionInv, Next PROVE MissionInv'
      BY <2>1, TypeStep, UploadStep, MessagesStep, AnnouncedStep, HandledStep, TableStep, BeforeStep,
         LoadedStep, FlyingStep, FlownStep DEF MissionInv
    <2>2. ASSUME MissionInv, UNCHANGED vars PROVE MissionInv'
      BY <2>2, MissionStutter
    <2> QED
      BY <2>1, <2>2
  <1> QED
    BY MissionInit, <1>1, PTL DEF Spec

\* The upload and the flight stay within their types: above all the item expected next
\* and the leg flown stay within the table and one behind it.
THEOREM MissionTypes == Spec => []TypeOK
  <1>1. MissionInv => TypeOK
    BY DEF MissionInv
  <1> QED
    BY MissionInductive, <1>1, PTL

\* Whatever is lost, repeated or late, when the craft says that the waypoints are
\* loaded, all items of the mission accepted last are in the table.
THEOREM LoadedIsKnown == Spec => []LoadedIsSent
  <1>1. MissionInv => LoadedIsSent
    BY DEF MissionInv
  <1> QED
    BY MissionInductive, <1>1, PTL

\* The leg navNavigate() flies, and the position it flies to, are the ground station's,
\* although the comm task still stores late items.
THEOREM FlownIsKnown == Spec => []FlownIsSent
  <1>1. MissionInv => FlownIsSent
    BY DEF MissionInv
  <1> QED
    BY MissionInductive, <1>1, PTL

\* What a late item writes into the table while a mission is flown is what is there.
LEMMA FlownIsNotWritten ==
  ASSUME MissionInv, Next, mode = "MISSION", mode' = "MISSION"
  PROVE  legs' = legs
  <1>1. StoredBefore(wpCount) /\ comm \in {"idle", "store"} /\ wpCount \in Nat
    BY Complete, Constants DEF MissionInv, TypeOK
  <1>2. legs \in [Index -> [type : LegTypes \cup {"NONE"}, of : Ids \cup {0}]]
    BY DEF MissionInv, TypeOK
  <1>3. CASE ReceiveItem
    <2> DEFINE seq  == Head(up).seq
               type == Item(Head(up).of, seq)
    <2>1. /\ Head(up).of = accepted /\ seq \in Index /\ seq \in Nat /\ seq < wpCount
          /\ ~(seq >= MaxLegs)
      BY <1>3, ItemReceived DEF ReceiveItem
    <2>2. Stored(accepted, seq)
      BY <1>1, <2>1 DEF StoredBefore
    <2>3. \/ legs' = legs
          \/ type \notin {"SKIP", "SETHOME"} /\ legs' = [legs EXCEPT ![seq].type = type]
      BY <1>3 DEF ReceiveItem
    <2>4. type \notin {"SKIP", "SETHOME"} => legs[seq].type = type
      BY <2>1, <2>2, StoredAs
    <2> HIDE DEF type, seq
    <2>5. CASE legs' = [legs EXCEPT ![seq].type = type] /\ legs[seq].type = type
      <3>1. [legs[seq] EXCEPT !.type = type] = legs[seq]
        BY <1>2, <2>1, <2>5
      <3> QED
        BY <1>2, <2>1, <2>5, <3>1
    <2> QED
      BY <2>3, <2>4, <2>5
  <1>4. CASE Store
    <2>1. msg.of = accepted /\ msg.seq \in Index /\ msg.seq \in Nat /\ msg.seq < wpCount
          /\ Item(msg.of, msg.seq) # "SKIP"
      BY <1>4, ItemInHand DEF Store
    <2>2. Stored(accepted, msg.seq)
      BY <1>1, <2>1 DEF StoredBefore
    <2>3. CASE Item(msg.of, msg.seq) \in {"HOME", "SETHOME"}
      BY <1>4, <2>3 DEF Store
    <2>4. CASE Item(msg.of, msg.seq) \notin {"HOME", "SETHOME"}
      <3>1. legs' = [legs EXCEPT ![msg.seq].of = msg.of]
        BY <1>4, <2>4 DEF Store
      <3>2. legs[msg.seq].of = msg.of
        BY <2>1, <2>2, <2>4, StoredAs
      <3>3. [legs[msg.seq] EXCEPT !.of = msg.of] = legs[msg.seq]
        BY <1>2, <2>1, <3>2
      <3> QED
        BY <1>2, <2>1, <3>1, <3>3
    <2> QED
      BY <2>3, <2>4
  <1>5. CASE ~ReceiveItem /\ ~Store
    BY <1>1, <1>5
       DEF Next, Ground, StartUpload, SendClear, SendCurrent, RepeatCount, Answer, Lose,
           navVars, Run, Manual, Hold, SetHome, RecallHome, Engage, Skip, Arrive, NextLeg,
           runUnchanged, Comm, ReceiveCount, ReceiveClear, Clear, ReceiveCurrent, Load, Request,
           Loaded, RequestTimeout
  <1> QED
    BY <1>3, <1>4, <1>5

\* A mission under way is not changed by what the comm task receives.
THEOREM MissionIsKept == Spec => MissionKept
  <1>1. MissionInv /\ [Next]_vars => [mode = "MISSION" /\ mode' = "MISSION" => legs' = legs]_vars
    BY FlownIsNotWritten DEF vars, navVars
  <1> QED
    BY MissionInductive, <1>1, PTL DEF Spec, MissionKept

===============================================================================
