-------------------------------- MODULE PmApp --------------------------------
(***************************************************************************)
(* The application of src/lvgl_app on the page manager.  Commands typed at *)
(* the shell become requests that lv_async_call hands to the LVGL thread;  *)
(* _pm_async_cb checks and carries them out there.  The first button of    *)
(* each page opens the other page from its click event, without checks.    *)
(*                                                                         *)
(* A request is one lv_timer of period 0; lv_timer_create puts new timers  *)
(* at the head of the list lv_timer_handler walks, so the newest request   *)
(* is handled first.  What can go wrong while the shell thread makes the   *)
(* timer is the subject of AsyncCall; here a request is made in one step.  *)
(***************************************************************************)
EXTENDS PmGuard, Sequences

CONSTANTS
  Targets,      \* the targets of the global options; {"new"} as shipped
  Typed,        \* the numbers typed after pm_open
  MaxRequests   \* bound: requests made in a run

ASSUME TargetsAssumption     == Targets \subseteq Target
ASSUME TypedAssumption       == Typed \subseteq Nat
ASSUME MaxRequestsAssumption == MaxRequests \in Nat
ASSUME AppPagesAssumption    == {0, 1} \subseteq Pages

VARIABLES
  pending,    \* the requests whose timers are in the list, from its head
  issued,     \* the number of requests made so far
  previous    \* history: the page shown before the current one, as a set

appVars == <<vars, pending, issued, previous>>

\* Only an open that asks for a page carries what was typed.
Request == [type : {"open"}, id : 0 .. 255, typed : Typed] \cup
           [type : {"back"}, id : {0}, typed : {0}]

\* Mutant of Uint8: the id is kept as the int it was parsed to.
Untruncated(n) == n

\* (uint8_t)atoi(argv[1])
Uint8(n) == n % 256

\* lv_app_start: the two pages are created, and the first one is opened with
\* the global options, on an empty history.
AppInit ==
  /\ router = {0, 1}
  /\ history = [i \in Slot |-> 0]
  /\ history_len = 1
  /\ \E a \in Styles : \E mem \in Memory(a) :
       /\ options = [p \in Slot |-> IF p = 0 THEN a ELSE "none"]
       /\ view = [p \in Slot |-> IF p = 0 THEN Enter(FreshView, a, mem) ELSE FreshView]
  /\ pending = <<>>
  /\ issued = 0
  /\ previous = {}

CurrentPages == {p \in Slot : IsCurrent(p)}
TrackPrevious == previous' = IF CurrentPages' = CurrentPages THEN previous
                             ELSE CurrentPages

\* Mutant of AsyncCall: the requests share one static buffer for their id.
AsyncCallSharedBuffer(req) ==
  /\ issued < MaxRequests
  /\ issued' = issued + 1
  /\ pending' = <<req>> \o [i \in DOMAIN pending |-> [pending[i] EXCEPT !.id = req.id]]
  /\ UNCHANGED <<vars, previous>>

\* cmd_pm_open and cmd_pm_back allocate a request each and call lv_async_call.
AsyncCall(req) ==
  /\ issued < MaxRequests
  /\ issued' = issued + 1
  /\ pending' = <<req>> \o pending
  /\ UNCHANGED <<vars, previous>>

cmd_pm_open == \E n \in Typed :
  AsyncCall([type |-> "open", id |-> Uint8(n), typed |-> n])

cmd_pm_back == AsyncCall([type |-> "back", id |-> 0, typed |-> 0])

\* The checks of _pm_async_cb, and then those of lv_pm_open_page.
AcceptsOpen(req) ==
  /\ req.type = "open" /\ req.id \in Slot     \* else "invalid id"
  /\ ~IsCurrent(req.id)                       \* else "already on page"
  /\ Idle                                     \* else "busy"
  /\ req.id \in router /\ history_len < PageNum   \* else ret=4, ret=5

AcceptsBack(req) == req.type = "back" /\ history_len >= 2 /\ Idle

\* Mutant of _pm_async_cb: a request that is refused is left to be tried again.
_pm_async_cbRetries ==
  /\ pending # <<>>
  /\ LET req == Head(pending) IN
       \/ /\ AcceptsOpen(req)
          /\ \E a \in Styles, t \in Targets : GuardedOpen(req.id, a, t)
          /\ pending' = Tail(pending)
       \/ AcceptsBack(req) /\ GuardedBack /\ pending' = Tail(pending)
       \/ ~AcceptsOpen(req) /\ ~AcceptsBack(req) /\ UNCHANGED <<vars, pending>>
  /\ TrackPrevious
  /\ UNCHANGED issued

\* _pm_async_cb, run from the timer list of the LVGL thread.
_pm_async_cb ==
  /\ pending # <<>>
  /\ pending' = Tail(pending)
  /\ LET req == Head(pending) IN
       \/ /\ AcceptsOpen(req)
          /\ \E a \in Styles, t \in Targets : GuardedOpen(req.id, a, t)
       \/ AcceptsBack(req) /\ GuardedBack
       \/ ~AcceptsOpen(req) /\ ~AcceptsBack(req) /\ UNCHANGED vars
  /\ TrackPrevious
  /\ UNCHANGED issued

\* p1_btn_1_event_cb and p2_btn_1_event_cb: the page's first button exists and
\* can be clicked while the page is loaded and visible.
btn_1_event_cb(p) ==
  /\ view[p].loaded /\ ~view[p].hidden
  /\ \E a \in Styles : \E m, n \in Memory(a) : lv_pm_open_page(1 - p, a, "new", m, n)
  /\ TrackPrevious
  /\ UNCHANGED <<pending, issued>>

anim_timer == Ready /\ UNCHANGED <<pending, issued, previous>>

AppNext ==
  \/ cmd_pm_open
  \/ cmd_pm_back
  \/ _pm_async_cb
  \/ \E p \in {0, 1} : btn_1_event_cb(p)
  \/ anim_timer

AppSpec == AppInit /\ [][AppNext]_appVars

\* The LVGL thread calls lv_timer_handler for ever: it runs the timers of the
\* requests and of the animations.
AppFairSpec == AppSpec /\ WF_appVars(_pm_async_cb) /\ WF_appVars(anim_timer)

------------------------------------------------------------------------------
(* Properties                                                              *)

\* A queued request holds a one-byte id, and there are never more timers in
\* the list than requests made.
AppTypeOK ==
  /\ TypeOK
  /\ pending \in Seq(Request) /\ Len(pending) <= issued
  /\ issued \in 0 .. MaxRequests
  /\ previous \in SUBSET Slot

\* With the options the application ships (no animation), requests from the
\* shell and clicks in any order leave exactly the current page visible and
\* exactly its widgets allocated.
OnlyCurrentShown ==
  Styles \subseteq {"none"} =>
    \A p \in Slot : /\ ~view[p].hidden <=> IsCurrent(p)
                    /\ view[p].loaded <=> IsCurrent(p)

\* The application opens pages with target NEW only, so its history never
\* grows: no sequence of requests and clicks makes an open return 5.
HistoryStaysShort == history_len = 1

\* Every request made is taken off the timer list.
RequestsHandled == pending # <<>> ~> pending = <<>>

\* lvgl_app.c:105 says of pm_back "back to previous lvgl page async": once a
\* second page has been shown and nothing is moving, it shows the one before.
BackShowsPrevious ==
  [][ (pending # <<>> /\ Len(pending') < Len(pending) /\ Head(pending).type = "back"
       /\ Idle /\ previous # {})
        => CurrentPages' = previous ]_appVars

\* A page that a request puts on show is the page whose id was typed, for the
\* ids that fit in the uint8_t they are stored in.
OpensTypedPage ==
  [][ (pending # <<>> /\ Len(pending') < Len(pending) /\ Head(pending).type = "open"
       /\ Head(pending).typed <= 255 /\ CurrentPages' # CurrentPages)
        => CurrentPages' = {Head(pending).typed} ]_appVars
==============================================================================
