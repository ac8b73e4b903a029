----------------------------- MODULE TouchProofs -----------------------------
(***************************************************************************)
(* Proofs about the touch panel, for every number of track ids and every    *)
(* release timeout: while no change of the panel overtakes the driver, the  *)
(* static buffer of the LVGL port is read as if it were cleared.            *)
(***************************************************************************)
EXTENDS Touch, FiniteSetTheorems, WellFoundedInduction, TLAPS

------------------------------------------------------------------------------
(* Lemmas about track ids                                                  *)

USE MaxTouchAssumption, TimeoutAssumption

\* Of some track ids one is the lowest.
LEMMA LowestId ==
  ASSUME NEW S \in SUBSET Id, S # {}
  PROVE  \E i \in S : \A j \in S : i <= j
<1> DEFINE Less == {ss \in Nat \X Nat : ss[1] < ss[2]}
<1>1. S \subseteq Nat
  BY DEF Id
<1>2. IsWellFoundedOn(Less, Nat)
  BY NatLessThanWellFounded DEF OpToRel
<1>3. PICK i \in S : \A j \in S : <<j, i>> \notin Less
  <2> HIDE DEF Less
  <2>1. QED
    BY <1>1, <1>2, WFMin
<1>4. ASSUME NEW j \in S PROVE i <= j
  <2>1. i \in Nat /\ j \in Nat
    BY <1>1
  <2>2. j < i => <<j, i>> \in Less
    BY <2>1
  <2>3. ~(j < i)
    BY <1>3, <2>2
  <2>4. QED
    BY <2>1, <2>3
<1>5. QED
  BY <1>4

\* When a single finger has left, the count goes down and its id is found.
LEMMA OneLifted ==
  ASSUME NEW id \in pre, pre \in SUBSET Id, fingers = pre \ {id}
  PROVE  Lifted = {id}
<1>1. IsFiniteSet(pre)
  <2>1. IsFiniteSet(Id)
    <3>1. 0 \in Int /\ MaxTouch - 1 \in Int
      OBVIOUS
    <3>2. QED
      BY <3>1, FS_Interval DEF Id
  <2>2. QED
    BY <2>1, FS_Subset
<1>2. Cardinality(pre) \in Nat /\ Cardinality(fingers) = Cardinality(pre) - 1
  BY <1>1, FS_RemoveElement, FS_CardinalityType
<1>3. QED
  BY <1>2 DEF Lifted

\* When fingers have only joined, no id is lifted.
LEMMA NoneLifted ==
  ASSUME pre \subseteq fingers
  PROVE  Lifted = {}
BY DEF Lifted

LEMMA LiftedIds ==
  ASSUME pre \in SUBSET Id
  PROVE  Lifted \in SUBSET Id
BY DEF Lifted

------------------------------------------------------------------------------
(* Type correctness                                                        *)

\* Events of the buffer and the pointer's slot stay in range, whatever the
\* chip offers and whatever transfers fail.
LEMMA StepType ==
  ASSUME TypeOK, [Next]_vars
  PROVE  TypeOK'
<1> USE DEF TypeOK
<1>1. ASSUME NEW id \in Id, Touch(id) \/ Lift(id)
      PROVE  TypeOK'
  <2>1. InStep \in BOOLEAN
    BY DEF InStep
  <2>2. CASE Touch(id)
    BY <2>1, <2>2 DEF Touch, PanelOnly
  <2>3. CASE Lift(id)
    BY <2>1, <2>3 DEF Lift, PanelOnly
  <2>4. QED
    BY <1>1, <2>2, <2>3
<1>2. CASE Scan
  BY <1>2 DEF Scan, PanelOnly
<1>3. CASE ReadNothing
  BY <1>3 DEF ReadNothing, chip
<1>4. CASE ReadFrame
  <2>1. \A i \in Id : gt9147_touch_down(i) \in Event /\ gt9147_touch_up(i) \in Event
    BY DEF gt9147_touch_down, gt9147_touch_up, Event
  <2>2. tp_points' \in [Id -> Event]
    BY <1>4, <2>1 DEF ReadFrame
  <2>3. s_tp_dowm' \in SUBSET Id /\ pre' \in SUBSET Id
    BY <1>4 DEF ReadFrame
  <2>4. QED
    BY <1>4, <2>2, <2>3 DEF ReadFrame, chip
<1>5. ASSUME NEW w \in BOOLEAN, ClearStatus(w)
      PROVE  TypeOK'
  <2>1. /\ at' = "poll" /\ ready' = (ready /\ ~w)
        /\ UNCHANGED <<fingers, orderly, got, pre, s_tp_dowm, tp_points>>
        /\ (got /\ TakeFrame) \/ (~got /\ NoFrame)
    BY <1>5 DEF ClearStatus
  <2>2. Elapsed \in 0 .. Timeout + 1
    BY DEF Elapsed
  <2>3. Press => shown' \in Id
    <3>1. Held \in SUBSET Id
      BY DEF Held, Scanned
    <3>2. QED
      BY <3>1, LowestId DEF Press
  <2>4. tp_pressed' \in BOOLEAN /\ shown' \in Id /\ age' \in 0 .. Timeout + 1
    <3>1. CASE TakeFrame
      <4>1. tp_pressed' \in {tp_pressed, TRUE, FALSE}
        BY <3>1 DEF TakeFrame, Press
      <4>2. age' \in {0, Elapsed} /\ shown' \in Id
        BY <2>3, <3>1 DEF TakeFrame, Press
      <4>3. tp_pressed' \in BOOLEAN
        BY <4>1
      <4>4. age' \in 0 .. Timeout + 1
        BY <2>2, <4>2
      <4>5. QED
        BY <4>2, <4>3, <4>4
    <3>2. CASE NoFrame
      <4>1. tp_pressed' \in BOOLEAN
        BY <3>2 DEF NoFrame
      <4>2. shown' \in Id /\ age' \in 0 .. Timeout + 1
        BY <2>2, <3>2 DEF NoFrame
      <4>3. QED
        BY <4>1, <4>2
    <3>3. QED
      BY <2>1, <3>1, <3>2
  <2>5. ready' \in BOOLEAN
    BY <2>1
  <2>6. QED
    BY <2>1, <2>4, <2>5
<1>6. CASE UNCHANGED vars
  BY <1>6 DEF vars
<1>7. QED
  BY <1>1, <1>2, <1>3, <1>4, <1>5, <1>6 DEF Next

LEMMA InitType == Init => TypeOK
<1> SUFFICES ASSUME Init PROVE TypeOK
  OBVIOUS
<1>1. 0 \in Id /\ 0 \in 0 .. Timeout + 1
  BY DEF Id
<1>2. tp_points \in [Id -> Event]
  BY DEF Init, Event
<1>3. QED
  BY <1>1, <1>2 DEF Init, TypeOK

\* For every number of track ids, the pointer's slot is one of the buffer's
\* and no buffer is written out of range.
THEOREM TypeCorrect == Spec => []TypeOK
BY InitType, StepType, PTL DEF Spec

------------------------------------------------------------------------------
(* While the driver keeps up                                               *)

\* At most one finger has come or gone since the last frame.
OneChange ==
  \/ fingers = pre
  \/ \E id \in pre : fingers = pre \ {id}
  \/ \E id \in Id \ pre : /\ fingers = pre \cup {id}
                          /\ \A j \in Id : j < id => j \in pre

\* The slots that say DOWN or MOVE are those of the last frame, no NONE comes
\* before them, and the driver remembers that they are down.
Faithful ==
  /\ \A i \in Id : tp_points[i] \in {"down", "move"} <=> i \in pre
  /\ \A i \in pre, j \in Id : j <= i => tp_points[j] # "none"
  /\ pre \subseteq s_tp_dowm

\* The pointer is at a finger of the last frame, or that frame has just lifted
\* it and says so where the port will look.
Follows ==
  tp_pressed =>
    \/ shown \in pre
    \/ /\ at = "clear" /\ got
       /\ tp_points[shown] = "up"
       /\ \A j \in Id : j <= shown => tp_points[j] # "none"

IInv == TypeOK /\ (orderly => OneChange /\ Faithful /\ Follows)

LEMMA InitIInv == Init => IInv
BY InitType DEF Init, IInv, OneChange, Faithful, Follows

\* What the panel does: an orderly change leaves the driver one finger behind.
LEMMA PanelIInv ==
  ASSUME IInv, NEW id \in Id, Touch(id) \/ Lift(id)
  PROVE  orderly' => OneChange' /\ Faithful' /\ Follows'
<1> SUFFICES ASSUME orderly'
             PROVE  OneChange' /\ Faithful' /\ Follows'
  OBVIOUS
<1>1. InStep /\ UNCHANGED <<at, got, pre, s_tp_dowm, tp_points, tp_pressed, shown>>
  BY DEF Touch, Lift, PanelOnly
<1>2. Faithful' /\ Follows'
  BY <1>1 DEF InStep, IInv, Faithful, Follows
<1>3. CASE Touch(id)
  <2>1. /\ id \in Id \ pre /\ fingers' = pre \cup {id}
        /\ \A j \in Id : j < id => j \in pre
    BY <1>1, <1>3 DEF Touch, InStep
  <2>2. QED
    BY <1>1, <1>2, <2>1 DEF OneChange
<1>4. CASE Lift(id)
  <2>1. id \in pre /\ fingers' = pre \ {id}
    BY <1>1, <1>4 DEF Lift, InStep
  <2>2. QED
    BY <1>1, <1>2, <2>1 DEF OneChange
<1>5. QED
  BY <1>3, <1>4

\* What a frame writes into the buffer, slot by slot.
LEMMA FrameSlots ==
  ASSUME IInv, orderly, ReadFrame
  PROVE  \A i \in Id :
           /\ i \in fingers => tp_points'[i] \in {"down", "move"}
           /\ i \in pre \ fingers => tp_points'[i] = "up"
           /\ i \notin fingers /\ i \notin pre => tp_points'[i] = tp_points[i]
<1>1. Lifted = pre \ fingers
  BY OneLifted, NoneLifted DEF IInv, TypeOK, OneChange
<1>2. pre \subseteq s_tp_dowm
  BY DEF IInv, Faithful
<1>3. QED
  BY <1>1, <1>2 DEF ReadFrame, gt9147_touch_down, gt9147_touch_up

LEMMA FrameIInv ==
  ASSUME IInv, ReadFrame
  PROVE  orderly' => OneChange' /\ Faithful' /\ Follows'
<1> SUFFICES ASSUME orderly'
             PROVE  OneChange' /\ Faithful' /\ Follows'
  OBVIOUS
<1>1. /\ orderly /\ UNCHANGED <<fingers, tp_pressed, shown>>
      /\ pre' = fingers /\ at' = "clear" /\ got' = TRUE /\ at = "poll"
      /\ s_tp_dowm' = (s_tp_dowm \cup fingers) \ (Lifted \ fingers)
  BY DEF ReadFrame, chip
<1>2. OneChange /\ Faithful /\ Follows /\ TypeOK
  BY <1>1 DEF IInv
<1>3. \A i \in Id :
        /\ i \in fingers => tp_points'[i] \in {"down", "move"}
        /\ i \in pre \ fingers => tp_points'[i] = "up"
        /\ i \notin fingers /\ i \notin pre => tp_points'[i] = tp_points[i]
  BY <1>1, FrameSlots
<1>4. OneChange'
  BY <1>1 DEF OneChange
<1>5. \A i \in Id : tp_points'[i] \in {"down", "move"} <=> i \in fingers
  BY <1>2, <1>3 DEF Faithful
<1>6. ASSUME NEW i \in pre, NEW j \in Id, j <= i
      PROVE  tp_points'[j] # "none"
  BY <1>2, <1>3, <1>6 DEF Faithful, TypeOK
<1>7. ASSUME NEW i \in fingers, NEW j \in Id, j <= i
      PROVE  tp_points'[j] # "none"
  <2>1. CASE i \in pre
    BY <1>6, <1>7, <2>1
  <2>2. CASE i \notin pre
    <3>1. \A k \in Id : k < i => k \in fingers
      BY <1>2, <2>2 DEF OneChange
    <3>2. i \in Id
      BY <1>2 DEF TypeOK
    <3>3. j \in fingers
      BY <1>7, <3>1, <3>2 DEF Id
    <3>4. QED
      BY <1>3, <3>3
  <2>3. QED
    BY <2>1, <2>2
<1>8. Faithful'
  BY <1>1, <1>5, <1>7 DEF Faithful
<1>9. Follows'
  <2>1. SUFFICES ASSUME tp_pressed, shown \notin fingers
                 PROVE  /\ tp_points'[shown] = "up"
                        /\ \A j \in Id : j <= shown => tp_points'[j] # "none"
    BY <1>1 DEF Follows
  <2>2. shown \in pre /\ shown \in Id
    BY <1>1, <1>2, <2>1 DEF Follows, TypeOK
  <2>3. QED
    BY <1>3, <1>6, <2>1, <2>2
<1>10. QED
  BY <1>4, <1>8, <1>9

\* What touchpad_read looks at: exactly the fingers of the last frame.
LEMMA HeldIsPre ==
  ASSUME IInv, orderly
  PROVE  Held = pre
<1>1. Faithful /\ TypeOK
  BY DEF IInv
<1>2. pre \subseteq Held
  <2>1. ASSUME NEW i \in pre PROVE i \in Held
    <3>1. i \in Id /\ tp_points[i] \in {"down", "move"}
      BY <1>1 DEF Faithful, TypeOK
    <3>2. \A j \in 0 .. i : j \in Id /\ j <= i
      BY <3>1 DEF Id
    <3>3. QED
      BY <1>1, <3>1, <3>2 DEF Faithful, Held, Scanned
  <2>2. QED
    BY <2>1
<1>3. Held \subseteq pre
  BY <1>1 DEF Faithful, Held, Scanned
<1>4. QED
  BY <1>2, <1>3

\* The frame decides: the pointer is pressed exactly if a finger is there.
LEMMA Decided ==
  ASSUME IInv, orderly, at = "clear", got, TakeFrame
  PROVE  /\ tp_pressed' <=> pre # {}
         /\ tp_pressed' => shown' \in pre
<1>1. Held = pre /\ pre \in SUBSET Id
  BY HeldIsPre DEF IInv, TypeOK
<1>2. CASE Press
  <2>1. \E i \in Held : \A j \in Held : i <= j
    BY <1>1, <1>2, LowestId DEF Press
  <2>2. QED
    BY <1>1, <1>2, <2>1 DEF Press
<1>3. CASE Held = {} /\ (\E i \in Scanned : tp_points[i] = "up") /\ tp_pressed' = FALSE
  BY <1>1, <1>3
<1>4. CASE /\ Held = {} /\ (\A i \in Scanned : tp_points[i] # "up")
           /\ UNCHANGED <<tp_pressed, shown>>
  <2>1. ASSUME tp_pressed PROVE FALSE
    <3>1. /\ tp_points[shown] = "up" /\ shown \in Id
          /\ \A j \in Id : j <= shown => tp_points[j] # "none"
      BY <1>1, <1>4, <2>1 DEF IInv, Follows, TypeOK
    <3>2. \A j \in 0 .. shown : j \in Id /\ j <= shown
      BY <3>1 DEF Id
    <3>3. shown \in Scanned
      BY <3>1, <3>2 DEF Scanned
    <3>4. QED
      BY <1>4, <3>1, <3>3
  <2>2. tp_pressed' = FALSE
    BY <1>4, <2>1 DEF IInv, TypeOK
  <2>3. QED
    BY <1>1, <1>4, <2>2
<1>5. QED
  BY <1>2, <1>3, <1>4 DEF TakeFrame

LEMMA ClearIInv ==
  ASSUME IInv, NEW w \in BOOLEAN, ClearStatus(w)
  PROVE  orderly' => OneChange' /\ Faithful' /\ Follows'
<1> SUFFICES ASSUME orderly'
             PROVE  OneChange' /\ Faithful' /\ Follows'
  OBVIOUS
<1>1. /\ orderly /\ at = "clear" /\ at' = "poll"
      /\ (got /\ TakeFrame) \/ (~got /\ NoFrame)
      /\ UNCHANGED <<fingers, pre, s_tp_dowm, tp_points>>
  BY DEF ClearStatus
<1>2. OneChange' /\ Faithful'
  BY <1>1 DEF IInv, OneChange, Faithful
<1>3. tp_pressed' => shown' \in pre
  <2>1. CASE got /\ TakeFrame
    BY <1>1, <2>1, Decided
  <2>2. CASE ~got /\ NoFrame
    BY <1>1, <2>2 DEF NoFrame, IInv, Follows
  <2>3. QED
    BY <1>1, <2>1, <2>2
<1>4. QED
  BY <1>1, <1>2, <1>3 DEF Follows

LEMMA StepIInv ==
  ASSUME IInv, [Next]_vars
  PROVE  IInv'
<1>1. TypeOK'
  BY StepType DEF IInv
<1>2. ASSUME NEW id \in Id, Touch(id) \/ Lift(id)
      PROVE  IInv'
  BY <1>1, <1>2, PanelIInv DEF IInv
<1>3. CASE Scan
  BY <1>1, <1>3 DEF Scan, PanelOnly, IInv, OneChange, Faithful, Follows
<1>4. CASE ReadNothing
  BY <1>1, <1>4 DEF ReadNothing, chip, IInv, OneChange, Faithful, Follows
<1>5. CASE ReadFrame
  BY <1>1, <1>5, FrameIInv DEF IInv
<1>6. ASSUME NEW w \in BOOLEAN, ClearStatus(w)
      PROVE  IInv'
  BY <1>1, <1>6, ClearIInv DEF IInv
<1>7. CASE UNCHANGED vars
  BY <1>1, <1>7 DEF vars, IInv, OneChange, Faithful, Follows
<1>8. QED
  BY <1>2, <1>3, <1>4, <1>5, <1>6, <1>7 DEF Next

LEMMA Invariant == Spec => []IInv
BY InitIInv, StepIInv, PTL DEF Spec

\* While the driver keeps up with the panel the pointer is never at a finger
\* that the last frame no longer had, however long the static buffer of
\* lv_port_indev.c has been written into.
THEOREM PointerFollows == Spec => []ShownIsTouched
<1>1. IInv => ShownIsTouched
  BY DEF IInv, Follows, ShownIsTouched
<1>2. QED
  BY <1>1, Invariant, PTL

\* While the driver keeps up every frame decides at once whether the pointer
\* is pressed: neither a NONE slot nor a stale one ever hides a finger.
THEOREM EveryFrameDecides == Spec => FrameDecides
<1>1. IInv /\ [Next]_vars =>
        [(orderly /\ at = "clear" /\ at' = "poll" /\ got) => (tp_pressed' <=> pre # {})]_vars
  <2> SUFFICES ASSUME IInv, Next, orderly, at = "clear", at' = "poll", got
               PROVE  tp_pressed' <=> pre # {}
    OBVIOUS
  <2>1. PICK w \in BOOLEAN : ClearStatus(w)
    BY DEF Next, Touch, Lift, Scan, PanelOnly, ReadNothing, ReadFrame
  <2>2. TakeFrame
    BY <2>1 DEF ClearStatus
  <2>3. QED
    BY <2>2, Decided
<1>2. QED
  BY <1>1, Invariant, PTL DEF Spec, FrameDecides

=============================================================================
