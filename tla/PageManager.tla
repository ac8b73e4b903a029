----------------------------- MODULE PageManager -----------------------------
(***************************************************************************)
(* The page manager of src/middleware/lvgl_pm: pm.c keeps a router of      *)
(* created pages and a history of opened ones, anima.c runs the transition *)
(* animations whose completion callbacks hide and unload the page that was *)
(* left.  Everything runs in the LVGL thread, so one call of lv_pm_* and   *)
(* one animation-ready callback are atomic; what interleaves is the calls  *)
(* of the client and the completions of the 500 ms animations.             *)
(*                                                                         *)
(* The module describes ANY client: every page id, target and animation of *)
(* pm.h, at any time.  PmGuard restricts it to the client of lvgl_app.c.   *)
(***************************************************************************)
EXTENDS Integers

CONSTANTS
  PageNum,   \* LV_PM_PAGE_NUM: the length of lv_pm_router and lv_pm_history
  Pages,     \* the page ids the application creates
  Styles,    \* the animations its options use
  HeapFails  \* whether the malloc of an animation's data may return NULL

Slot   == 0 .. PageNum - 1
Axis   == {"x", "y"}                \* translateX_anima_cb, translateY_anima_cb
Anima  == {"none", "slide", "slide_scale", "popup"}
Target == {"new", "self", "reset"}

\* A running animation is known by the completion callback it carries and by
\* whether _back was set when it started.
LeaveJob == {"disappear", "backDisappear"}
ShowJob  == {"appear", "backAppear"}
Job      == LeaveJob \cup ShowJob

ASSUME PageNumAssumption == PageNum \in Nat \ {0}
ASSUME PagesAssumption   == Pages \subseteq Slot
ASSUME StylesAssumption  == Styles \subseteq Anima
ASSUME HeapAssumption    == HeapFails \in BOOLEAN

VARIABLES
  router,       \* the ids whose lv_pm_router entry is not NULL
  history,      \* lv_pm_history, stale entries above history_len included
  history_len,  \* lv_pm_history_len
  options,      \* the animation of each page's _options
  view          \* the LVGL side of each page: flags, widgets, animations

vars == <<router, history, history_len, options, view>>

\* loaded: the widgets onLoad creates exist.  anim: the animation of the page
\* on each axis (lv_anim_start keeps at most one for a page and an exec_cb).
\* off: the page was last placed off the screen on that axis.
PageView == [hidden : BOOLEAN, loaded : BOOLEAN,
             anim : [Axis -> Job \cup {"idle"}], off : [Axis -> BOOLEAN]]

FreshView == [hidden |-> TRUE, loaded |-> FALSE,
              anim |-> [x \in Axis |-> "idle"], off |-> [x \in Axis |-> FALSE]]

IsCurrent(p) == history_len > 0 /\ history[history_len - 1] = p
Leaving(p)   == \E x \in Axis : view[p].anim[x] \in LeaveJob
Idle         == \A p \in Slot, x \in Axis : view[p].anim[x] = "idle"

------------------------------------------------------------------------------
(* anima.c: what one transition does to the view v of its page.            *)

Animated(a) == a \in {"slide", "popup"}
AxisOf(a)   == IF a = "slide" THEN "x" ELSE "y"
StyleOn(x)  == IF x = "x" THEN "slide" ELSE "popup"

\* A slide comes from and goes to the side.  A popup rises from below and,
\* on the way back, sinks below; the page under it only moves 5 pixels.
StartsOff(job, x) == job = "appear" \/ (x = "x" /\ job = "backAppear")

\* Mutant of EndsOff: a page that slides in ends beside the screen.
EndsOffSwapped(job, x) == job = "backDisappear" \/ (x = "x" /\ job # "disappear")

EndsOff(job, x) == job = "backDisappear" \/ (x = "x" /\ job = "disappear")

\* Mutant of Complete: the page is unloaded only on the way back.
CompleteBackUnloads(v, job, a) ==
  IF job \in LeaveJob
  THEN [v EXCEPT !.hidden = @ \/ job = "backDisappear" \/ a # "popup",
                 !.loaded = @ /\ job # "backDisappear"]
  ELSE v

\* Mutant of Complete: the page is hidden only on the way back.
CompleteBackHides(v, job, a) ==
  IF job \in LeaveJob
  THEN [v EXCEPT !.hidden = @ \/ job = "backDisappear", !.loaded = FALSE]
  ELSE v

\* The completion callbacks of pm.c: a page that has left is unloaded, and
\* hidden unless the new page popped up over it.
Complete(v, job, a) ==
  IF job \in LeaveJob
  THEN [v EXCEPT !.hidden = @ \/ job = "backDisappear" \/ a # "popup",
                 !.loaded = FALSE]
  ELSE v

\* lv_anim_start: an animation that runs on the same axis is deleted, and its
\* ready callback never called.
StartAnim(v, job, x) ==
  [v EXCEPT !.anim[x] = job, !.off[x] = StartsOff(job, x)]

\* Mutant of Animate: no animation starts where one is running.
AnimateOnlyIdle(v, job, a, mem) ==
  IF Animated(a) /\ mem
  THEN IF v.anim[AxisOf(a)] = "idle" THEN StartAnim(v, job, AxisOf(a)) ELSE v
  ELSE Complete(v, job, a)

\* _pm_anima_appear and _pm_anima_disAppear: without an animation, without
\* memory for its data and for the unimplemented style the callback runs now.
Animate(v, job, a, mem) ==
  IF Animated(a) /\ mem THEN StartAnim(v, job, AxisOf(a)) ELSE Complete(v, job, a)

------------------------------------------------------------------------------
(* pm.c                                                                    *)

Init ==
  /\ router = {}
  /\ history = [i \in Slot |-> 0]
  /\ history_len = 0
  /\ options = [p \in Slot |-> "none"]
  /\ view = [p \in Slot |-> FreshView]

lv_pm_create_page(id) ==
  /\ id \notin router
  /\ router' = router \cup {id}
  /\ UNCHANGED <<history, history_len, options, view>>

ReplacesTop(t) == t = "new" /\ history_len > 0

\* Mutant of OpenHistory: SELF leaves the copy above the top on the history.
OpenHistorySelfPushes(id, t) ==
  \/ /\ ReplacesTop(t)
     /\ history' = [history EXCEPT ![history_len - 1] = id]
     /\ UNCHANGED history_len
  \/ /\ t = "self" /\ history_len > 0
     /\ history' = [history EXCEPT ![history_len] = id, ![history_len - 1] = id]
     /\ history_len' = history_len + 1
  \/ /\ t = "reset" \/ history_len = 0
     /\ history' = [history EXCEPT ![history_len] = id]
     /\ history_len' = history_len + 1

\* Mutant of OpenHistory: NEW pushes like RESET.
OpenHistoryNewPushes(id, t) ==
  /\ history' = [history EXCEPT ![history_len] = id]
  /\ history_len' = history_len + 1

\* NEW replaces the top unless the history is empty; SELF writes the slot
\* above the top and copies it down; RESET and a NULL behavior push.
OpenHistory(id, t) ==
  \/ /\ ReplacesTop(t)
     /\ history' = [history EXCEPT ![history_len - 1] = id]
     /\ UNCHANGED history_len
  \/ /\ t = "self" /\ history_len > 0
     /\ history' = [history EXCEPT ![history_len] = id, ![history_len - 1] = id]
     /\ UNCHANGED history_len
  \/ /\ t = "reset" \/ history_len = 0
     /\ history' = [history EXCEPT ![history_len] = id]
     /\ history_len' = history_len + 1

\* The views after the page before id has been asked to leave.
LeaveTop(a, mem) ==
  IF history_len = 0 THEN view
  ELSE [view EXCEPT ![history[history_len - 1]] = Animate(@, "disappear", a, mem)]

\* Mutant of Enter: onLoad is not called.
EnterNoLoad(v, a, mem) == Animate([v EXCEPT !.hidden = FALSE], "appear", a, mem)

\* Mutant of Enter: a page that is still moving does not appear.
EnterOnlyIdle(v, a, mem) ==
  LET w == [v EXCEPT !.loaded = TRUE, !.hidden = FALSE]
  IN IF \A x \in Axis : v.anim[x] = "idle" THEN Animate(w, "appear", a, mem) ELSE w

\* onLoad, clear HIDDEN, appear.
Enter(v, a, mem) ==
  Animate([v EXCEPT !.loaded = TRUE, !.hidden = FALSE], "appear", a, mem)

\* Mutant of lv_pm_open_page: a full history is not refused.
OpenNoCapacityCheck(id, a, t, memLeave, memShow) ==
  /\ id \in router
  /\ OpenHistory(id, t)
  /\ options' = [options EXCEPT ![id] = a]
  /\ view' = [LeaveTop(a, memLeave) EXCEPT ![id] = Enter(@, a, memShow)]
  /\ UNCHANGED router

\* Mutant of lv_pm_open_page: a page that was not created is not refused.
OpenNoRouterCheck(id, a, t, memLeave, memShow) ==
  /\ history_len < PageNum
  /\ OpenHistory(id, t)
  /\ options' = [options EXCEPT ![id] = a]
  /\ view' = [LeaveTop(a, memLeave) EXCEPT ![id] = Enter(@, a, memShow)]
  /\ UNCHANGED router

\* A NULL behavior is the call with the page's stored animation and the
\* target "reset".  Calls that return 4 or 5 change nothing.
lv_pm_open_page(id, a, t, memLeave, memShow) ==
  /\ id \in router                       \* else return 4
  /\ history_len < PageNum               \* else return 5
  /\ OpenHistory(id, t)
  /\ options' = [options EXCEPT ![id] = a]
  /\ view' = [LeaveTop(a, memLeave) EXCEPT ![id] = Enter(@, a, memShow)]
  /\ UNCHANGED router

\* The page below is shown again as it is: back does not call its onLoad.
lv_pm_back(memLeave, memShow) ==
  /\ history_len >= 2
  /\ LET top  == history[history_len - 1]
         prev == history[history_len - 2]
         a    == options[top]
         left == [view EXCEPT ![top] = Animate(@, "backDisappear", a, memLeave)]
     IN view' = [left EXCEPT ![prev] =
                   Animate([@ EXCEPT !.hidden = FALSE], "backAppear", a, memShow)]
  /\ history_len' = history_len - 1
  /\ UNCHANGED <<router, history, options>>

\* Mutant of anima_ready_cb: the animation repeats.
anima_ready_cbRepeats(p, x) ==
  /\ view[p].anim[x] # "idle"
  /\ view' = [view EXCEPT ![p] = Complete(@, view[p].anim[x], StyleOn(x))]
  /\ UNCHANGED <<router, history, history_len, options>>

\* anim_ready_handler of LVGL takes the animation off its list and calls
\* anima_ready_cb, which calls the completion callback.
anima_ready_cb(p, x) ==
  /\ view[p].anim[x] # "idle"
  /\ LET job == view[p].anim[x]
     IN view' = [view EXCEPT ![p] =
          Complete([@ EXCEPT !.anim[x] = "idle", !.off[x] = EndsOff(job, x)],
                   job, StyleOn(x))]
  /\ UNCHANGED <<router, history, history_len, options>>

------------------------------------------------------------------------------
\* Whether the memory for the animation data can be had, where it is asked for.
Memory(a) == IF HeapFails THEN {Animated(a), FALSE} ELSE {Animated(a)}

Open(id) ==
  \/ \E a \in Styles, t \in Target : \E memLeave, memShow \in Memory(a) :
       lv_pm_open_page(id, a, t, memLeave, memShow)
  \/ \E memLeave, memShow \in Memory(options[id]) :
       lv_pm_open_page(id, options[id], "reset", memLeave, memShow)

Back ==
  /\ history_len >= 2
  /\ \E memLeave, memShow \in Memory(options[history[history_len - 1]]) :
       lv_pm_back(memLeave, memShow)

Ready == \E p \in Slot, x \in Axis : anima_ready_cb(p, x)

Next ==
  \/ \E id \in Pages : lv_pm_create_page(id)
  \/ \E id \in Pages : Open(id)
  \/ Back
  \/ Ready

Spec == Init /\ [][Next]_vars

\* The LVGL thread runs anim_timer every few milliseconds and an animation
\* lasts 500 ms, so each one finishes unless another replaces it.
Fairness == \A p \in Slot, x \in Axis : WF_vars(anima_ready_cb(p, x))

FairSpec == Spec /\ Fairness

------------------------------------------------------------------------------
(* Properties                                                              *)

\* The history length never exceeds the array, and every page shown or
\* remembered has an index into the router: pm.c indexes both unchecked.
TypeOK ==
  /\ router \in SUBSET Slot
  /\ history \in [Slot -> Slot]
  /\ history_len \in 0 .. PageNum
  /\ options \in [Slot -> Anima]
  /\ view \in [Slot -> PageView]

\* Every entry of the history below history_len is a created page: the
\* router pointers lv_pm_open_page and lv_pm_back follow are never NULL.
HistoryCreated == \A i \in Slot : i < history_len => history[i] \in router

\* The release policy of pm.c:35: a page that is no longer current keeps its
\* widgets only while an animation that will unload it is running, whatever
\* animations were deleted or mixed on the way.
ReleasePolicy ==
  \A p \in Slot : view[p].loaded => IsCurrent(p) \/ Leaving(p)

\* Without popups, a page stays visible only while it is current or leaving.
LeftPagesHidden ==
  "popup" \notin Styles =>
     \A p \in Slot : ~view[p].hidden => IsCurrent(p) \/ Leaving(p)

\* The first n entries of the array h as a sequence.
Stack(h, n) == [i \in 1 .. n |-> h[i - 1]]

\* The navigation the client sees is the abstract stack: what is stale in the
\* array above history_len never comes back into it.
Nav == INSTANCE NavStack WITH
         Page <- Slot, Depth <- PageNum, stack <- Stack(history, history_len)

NavSpec == Nav!Spec

\* Every page that was left with widgets is in the end unloaded, or current
\* again: no interruption of a transition loses the release for good.
LeftPageReleased ==
  \A p \in Slot :
    (view[p].loaded /\ ~IsCurrent(p)) ~> (~view[p].loaded \/ IsCurrent(p))
==============================================================================
