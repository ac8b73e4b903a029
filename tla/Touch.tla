-------------------------------- MODULE Touch --------------------------------
(***************************************************************************)
(* The touch panel: the GT9147 chip, its driver gt9147_read_point          *)
(* (src/packages/gt9147-v1.1.0) and LVGL's read callback touchpad_read     *)
(* (lv_port_indev.c), which polls the driver every 10 ms in the LVGL       *)
(* thread.  The chip scans the panel on its own; it offers a frame (the    *)
(* track ids of the fingers) and a status byte that says it is ready.  The *)
(* driver reads both and, whatever came of it, clears the status byte:     *)
(* what the chip offered between the two is lost.  I2C transfers may fail. *)
(***************************************************************************)
EXTENDS Integers, FiniteSets

CONSTANTS
  MaxTouch,  \* GT9147_MAX_TOUCH: the track ids and the slots of tp_points
  Timeout    \* TP_RELEASE_TIMEOUT_MS in polls

ASSUME MaxTouchAssumption == MaxTouch \in Nat \ {0}
ASSUME TimeoutAssumption  == Timeout \in Nat

Id    == 0 .. MaxTouch - 1
Event == {"none", "up", "down", "move"}

VARIABLES
  fingers,    \* chip: the track ids of the fingers on the panel
  ready,      \* chip: bit 7 of the status byte
  at,         \* where the LVGL thread is: between polls, or before the clear
  got,        \* whether this poll read a frame (read_num is not 0)
  pre,        \* driver: the first pre_touch entries of pre_id
  s_tp_dowm,  \* driver: the ids with s_tp_dowm = 1
  tp_points,  \* the event in each slot of the static buffer of lv_port_indev.c
  tp_pressed,
  shown,      \* the slot whose coordinates last_x and last_y hold
  age,        \* polls since last_event_tick
  orderly     \* history: no change of the panel has overtaken the driver

chip == <<fingers, ready, orderly>>
vars == <<fingers, ready, at, got, pre, s_tp_dowm, tp_points, tp_pressed,
          shown, age, orderly>>

Init ==
  /\ fingers = {} /\ ready = FALSE
  /\ at = "poll" /\ got = FALSE
  /\ pre = {} /\ s_tp_dowm = {}
  /\ tp_points = [i \in Id |-> "none"]
  /\ tp_pressed = FALSE /\ shown = 0 /\ age = 0
  /\ orderly = TRUE

------------------------------------------------------------------------------
(* The chip                                                                *)

PanelOnly == UNCHANGED <<at, got, pre, s_tp_dowm, tp_points, tp_pressed, shown, age>>

\* A change is orderly if the driver has seen the panel as it was before, and
\* is not about to clear the status of what it has not seen.
InStep == orderly /\ fingers = pre /\ at = "poll"

\* Any free track id may be given to a new finger; the lowest one is orderly.
Touch(id) ==
  /\ id \notin fingers
  /\ fingers' = fingers \cup {id}
  /\ ready' = TRUE
  /\ orderly' = (InStep /\ \A j \in Id : j < id => j \in fingers)
  /\ PanelOnly

Lift(id) ==
  /\ id \in fingers
  /\ fingers' = fingers \ {id}
  /\ ready' = TRUE
  /\ orderly' = InStep
  /\ PanelOnly

\* While a finger is on the panel every scan offers a frame again.
Scan ==
  /\ fingers # {} /\ ~ready
  /\ ready' = TRUE
  /\ UNCHANGED <<fingers, orderly>>
  /\ PanelOnly

------------------------------------------------------------------------------
(* gt9147_read_point                                                       *)

\* Mutant of Lifted: ids are released only when no finger is left.
LiftedOnlyLast == IF fingers = {} THEN pre ELSE {}

\* The track ids that are released: looked for only if there are fewer now.
Lifted == IF Cardinality(pre) > Cardinality(fingers) THEN pre \ fingers ELSE {}

gt9147_touch_up(id)   == IF id \in s_tp_dowm THEN "up" ELSE "none"
gt9147_touch_down(id) == IF id \in s_tp_dowm THEN "move" ELSE "down"

\* A transfer failed, or the status is 0 or not ready: read_num = 0.
ReadNothing ==
  /\ at = "poll"
  /\ at' = "clear" /\ got' = FALSE
  /\ UNCHANGED <<chip, pre, s_tp_dowm, tp_points, tp_pressed, shown, age>>

\* The static buffer of the caller is written only in the slots of the frame
\* and of the lifted ids; the other slots keep what they held.
ReadFrame ==
  /\ at = "poll" /\ ready
  /\ at' = "clear" /\ got' = TRUE
  /\ tp_points' = [i \in Id |-> IF i \in fingers THEN gt9147_touch_down(i)
                                ELSE IF i \in Lifted THEN gt9147_touch_up(i)
                                ELSE tp_points[i]]
  /\ s_tp_dowm' = (s_tp_dowm \cup fingers) \ (Lifted \ fingers)
  /\ pre' = fingers
  /\ UNCHANGED <<chip, tp_pressed, shown, age>>

------------------------------------------------------------------------------
(* touchpad_read: what it makes of the buffer once the driver returns      *)

\* The slots its loops look at: those before the first one that holds NONE.
Scanned == {i \in Id : \A j \in 0 .. i : tp_points[j] # "none"}
Held    == {i \in Scanned : tp_points[i] \in {"down", "move"}}

\* The time since the last event, at the end of this poll.
Elapsed == IF age > Timeout THEN age ELSE age + 1

\* Mutant of Press: the index of the slot is one too far.
PressNextSlot ==
  /\ Held # {}
  /\ tp_pressed' = TRUE /\ age' = 0
  /\ shown' = 1 + CHOOSE i \in Held : \A j \in Held : i <= j

\* The pointer takes the first slot that is held.
Press ==
  /\ Held # {}
  /\ tp_pressed' = TRUE /\ age' = 0
  /\ shown' = CHOOSE i \in Held : \A j \in Held : i <= j

\* Mutant of TakeFrame: an UP is not looked for.
TakeFrameKeepsPress == Press \/ (Held = {} /\ age' = Elapsed /\ UNCHANGED <<tp_pressed, shown>>)

\* With no slot held an UP releases it.
TakeFrame ==
  \/ Press
  \/ /\ Held = {} /\ \E i \in Scanned : tp_points[i] = "up"
     /\ tp_pressed' = FALSE /\ age' = 0 /\ UNCHANGED shown
  \/ /\ Held = {} /\ \A i \in Scanned : tp_points[i] # "up"
     /\ age' = Elapsed /\ UNCHANGED <<tp_pressed, shown>>

\* Mutant of NoFrame: there is no timeout.
NoFrameKeepsPress == age' = Elapsed /\ UNCHANGED <<tp_pressed, shown>>

\* Without a frame for long enough the pointer is released.
NoFrame ==
  /\ age' = Elapsed
  /\ tp_pressed' = (tp_pressed /\ Elapsed <= Timeout)
  /\ UNCHANGED shown

\* exit_: the status byte is cleared, and the result of the write ignored.
ClearStatus(written) ==
  /\ at = "clear"
  /\ at' = "poll"
  /\ ready' = (ready /\ ~written)
  /\ (got /\ TakeFrame) \/ (~got /\ NoFrame)
  /\ UNCHANGED <<fingers, orderly, got, pre, s_tp_dowm, tp_points>>

Next ==
  \/ \E id \in Id : Touch(id) \/ Lift(id)
  \/ Scan
  \/ ReadNothing
  \/ ReadFrame
  \/ \E written \in BOOLEAN : ClearStatus(written)

Spec == Init /\ [][Next]_vars

\* LVGL polls for ever, and the write that clears the status does not fail
\* every time.  Reads may fail for ever, and the chip need not scan.
Fairness ==
  /\ WF_vars(ReadNothing \/ ReadFrame)
  /\ WF_vars(\E w \in BOOLEAN : ClearStatus(w)) /\ SF_vars(ClearStatus(TRUE))

FairSpec == Spec /\ Fairness

------------------------------------------------------------------------------
(* Properties                                                              *)

\* The pointer's slot is one of the buffer's, and the clock of the timeout is
\* capped one poll past it.
TypeOK ==
  /\ fingers \in SUBSET Id /\ pre \in SUBSET Id /\ s_tp_dowm \in SUBSET Id
  /\ ready \in BOOLEAN /\ got \in BOOLEAN /\ tp_pressed \in BOOLEAN /\ orderly \in BOOLEAN
  /\ at \in {"poll", "clear"}
  /\ tp_points \in [Id -> Event]
  /\ shown \in Id
  /\ age \in 0 .. Timeout + 1

\* While the driver keeps up with the panel, the pointer is never at a finger
\* that was lifted before the last frame read: the slots that still say DOWN
\* or MOVE in the static buffer are those of that frame.
ShownIsTouched == (orderly /\ tp_pressed /\ at = "poll") => shown \in pre

\* While the driver keeps up, every frame read decides at once whether the
\* pointer is pressed: no press is missed behind a NONE slot and no lift has
\* to wait for the timeout.
FrameDecides ==
  [][(orderly /\ at = "clear" /\ at' = "poll" /\ got) => (tp_pressed' <=> pre # {})]_vars

\* Whatever was lost or failed, and whatever stale slots are left, the pointer
\* is released for good once every finger has left the panel for good.
ReleasedWhenLifted == <>[](fingers = {}) => <>[](~tp_pressed)
==============================================================================
