----------------------------- MODULE PmAppProofs -----------------------------
(***************************************************************************)
(* Proofs about the two clients of lvgl_app.c, on top of what is proved of *)
(* any client of the page manager: the guarded one of PmGuard, and the     *)
(* application with its queue of requests.  For every number of pages,     *)
(* requests and typed numbers: the application is a client, opens what was *)
(* typed, and, with the options it ships, shows exactly the current page.  *)
(***************************************************************************)
EXTENDS PmApp, PageManagerProofs

------------------------------------------------------------------------------
(* The guarded client of PmGuard                                           *)

\* The guarded client is one of the clients of PageManager.
LEMMA GuardedIsClient == GuardSpec => Spec
<1>1. ASSUME NEW id \in Pages, NEW a \in Styles, NEW t \in Target, GuardedOpen(id, a, t)
      PROVE  Open(id)
  BY <1>1 DEF GuardedOpen, Open
<1>2. [GuardNext]_vars => [Next]_vars
  BY <1>1 DEF GuardNext, Next
<1>3. QED
  BY <1>2, PTL DEF GuardSpec, Spec

\* After an open only the opened page is current.
LEMMA OnlyOpenedCurrent ==
  ASSUME TypeOK, NEW id \in Slot, NEW a \in Anima, NEW t \in Target,
         NEW m \in BOOLEAN, NEW n \in BOOLEAN, lv_pm_open_page(id, a, t, m, n),
         NEW p \in Slot, IsCurrent(p)'
  PROVE  p = id
BY OpenedIsCurrent DEF IsCurrent

\* Entering an idle page leaves it loaded, visible and not leaving.
LEMMA EnteredShown ==
  ASSUME NEW v \in PageView, \A x \in Axis : v.anim[x] = "idle",
         NEW a \in Anima, NEW mem \in BOOLEAN
  PROVE  LET w == Enter(v, a, mem)
         IN /\ w.loaded /\ ~w.hidden
            /\ \A x \in Axis : w.anim[x] \notin LeaveJob
<1> DEFINE u == [v EXCEPT !.loaded = TRUE, !.hidden = FALSE]
           w == Animate(u, "appear", a, mem)
<1>1. u \in PageView /\ u.loaded /\ ~u.hidden /\ u.anim = v.anim
  BY DEF PageView
<1>2. AxisOf(a) \in Axis
  BY DEF AxisOf, Axis
<1>3. CASE Animated(a) /\ mem
  <2>1. w = StartAnim(u, "appear", AxisOf(a))
    BY <1>3 DEF Animate
  <2>2. w.loaded /\ ~w.hidden
    BY <1>1, <2>1 DEF StartAnim, PageView
  <2>3. ASSUME NEW x \in Axis PROVE w.anim[x] \in {"idle", "appear"}
    <3>1. u.anim \in [Axis -> Job \cup {"idle"}] /\ u.anim[x] = "idle"
      BY <1>1 DEF PageView
    <3>2. w.anim = [u.anim EXCEPT ![AxisOf(a)] = "appear"]
      BY <1>1, <2>1 DEF StartAnim, PageView
    <3>3. QED
      BY <3>1, <3>2
  <2>4. QED
    BY <2>2, <2>3 DEF Enter, LeaveJob
<1>4. CASE ~(Animated(a) /\ mem)
  <2>1. w = u
    BY <1>4 DEF Animate, Complete, LeaveJob
  <2>2. QED
    BY <1>1, <2>1 DEF Enter, LeaveJob
<1>5. QED
  BY <1>3, <1>4

\* With the checks of _pm_async_cb before every open the current page is
\* visible, has its widgets, and no transition is about to take them away.
THEOREM GuardedCurrent == GuardSpec => []CurrentShown
<1> USE DEF CurrentShown, CurrentVisible
<1>1. Init => CurrentShown
  BY DEF Init, IsCurrent
<1>2. TypeOK /\ CurrentShown /\ [GuardNext]_vars => CurrentShown'
  <2> SUFFICES ASSUME TypeOK, CurrentShown, [GuardNext]_vars,
                      NEW p \in Slot, IsCurrent(p)'
               PROVE  view'[p].loaded /\ ~view'[p].hidden /\ ~Leaving(p)'
    OBVIOUS
  <2>1. CASE UNCHANGED vars
    BY <2>1 DEF vars, IsCurrent, Leaving
  <2>2. ASSUME NEW id \in Pages, lv_pm_create_page(id)
        PROVE  view'[p].loaded /\ ~view'[p].hidden /\ ~Leaving(p)'
    BY <2>2 DEF lv_pm_create_page, IsCurrent, Leaving
  <2>3. ASSUME NEW id \in Pages, NEW a \in Styles, NEW t \in Target, GuardedOpen(id, a, t)
        PROVE  view'[p].loaded /\ ~view'[p].hidden /\ ~Leaving(p)'
    <3>1. id \in Slot /\ a \in Anima
      BY PagesAssumption, StylesAssumption
    <3>2. PICK m \in BOOLEAN, n \in BOOLEAN : lv_pm_open_page(id, a, t, m, n)
      BY <2>3, MemoryType DEF GuardedOpen
    <3>3. p = id
      BY <3>1, <3>2, OnlyOpenedCurrent
    <3>4. view'[p] = Enter(view[p], a, n)
      <4>1. ~IsCurrent(id)
        BY <2>3 DEF GuardedOpen
      <4>2. QED
        BY <3>1, <3>2, <3>3, <4>1, OpenedView
    <3>5. view[p] \in PageView /\ \A x \in Axis : view[p].anim[x] = "idle"
      BY <2>3 DEF GuardedOpen, Idle, TypeOK
    <3>6. QED
      BY <3>1, <3>4, <3>5, EnteredShown DEF Leaving
  <2>4. ASSUME NEW q \in Slot, NEW x \in Axis, anima_ready_cb(q, x)
        PROVE  view'[p].loaded /\ ~view'[p].hidden /\ ~Leaving(p)'
    <3>1. IsCurrent(p) /\ view[p].loaded /\ ~view[p].hidden /\ ~Leaving(p)
      BY <2>4 DEF anima_ready_cb, IsCurrent
    <3>2. CASE p # q
      <4>1. view'[p] = view[p]
        BY <2>4, <3>2 DEF anima_ready_cb, TypeOK
      <4>2. QED
        BY <3>1, <4>1 DEF Leaving
    <3>3. CASE p = q
      <4> DEFINE done == [view[p] EXCEPT !.anim[x] = "idle",
                                         !.off[x] = EndsOff(view[p].anim[x], x)]
      <4>1. view[p] \in PageView /\ view[p].anim[x] \notin LeaveJob
        BY <3>1 DEF TypeOK, Leaving
      <4>2. view'[p] = done
        BY <2>4, <3>3, <4>1 DEF anima_ready_cb, TypeOK, Complete
      <4>3. done.loaded = view[p].loaded /\ done.hidden = view[p].hidden
        BY <4>1 DEF PageView
      <4>4. \A y \in Axis : done.anim[y] \in {view[p].anim[y], "idle"}
        BY <4>1 DEF PageView
      <4>5. QED
        BY <3>1, <4>2, <4>3, <4>4 DEF Leaving, LeaveJob
    <3>4. QED
      BY <3>2, <3>3
  <2>5. QED
    BY <2>1, <2>2, <2>3, <2>4 DEF GuardNext, Ready
<1>3. QED
  BY <1>1, <1>2, TypeCorrect, GuardedIsClient, PTL DEF GuardSpec

------------------------------------------------------------------------------
(* What a step of the application does to the page manager                 *)

LEMMA AppCases ==
  ASSUME TypeOK, AppNext
  PROVE  \/ UNCHANGED vars
         \/ \E id \in Slot, a \in Styles, t \in Targets \cup {"new"}, m, n \in BOOLEAN :
              lv_pm_open_page(id, a, t, m, n)
         \/ history_len >= 2 /\ \E m, n \in BOOLEAN : lv_pm_back(m, n)
         \/ \E p \in Slot, x \in Axis : anima_ready_cb(p, x)
<1>1. CASE cmd_pm_open \/ cmd_pm_back
  BY <1>1 DEF cmd_pm_open, cmd_pm_back, AsyncCall
<1>2. CASE _pm_async_cb
  <2>1. ASSUME NEW a \in Styles, NEW t \in Targets,
               Head(pending).id \in Slot, GuardedOpen(Head(pending).id, a, t)
        PROVE  \E m, n \in BOOLEAN : lv_pm_open_page(Head(pending).id, a, t, m, n)
    BY <2>1, MemoryType DEF GuardedOpen
  <2>2. ASSUME GuardedBack
        PROVE  history_len >= 2 /\ \E m, n \in BOOLEAN : lv_pm_back(m, n)
    BY <2>2, MemoryType DEF GuardedBack, Back
  <2>3. QED
    BY <1>2, <2>1, <2>2 DEF _pm_async_cb, AcceptsOpen
<1>3. ASSUME NEW p \in {0, 1}, btn_1_event_cb(p)
      PROVE  \E id \in Slot, a \in Styles, t \in Targets \cup {"new"}, m, n \in BOOLEAN :
               lv_pm_open_page(id, a, t, m, n)
  <2>1. 1 - p \in Slot
    BY AppPagesAssumption, PagesAssumption
  <2>2. PICK a \in Styles : \E m, n \in Memory(a) : lv_pm_open_page(1 - p, a, "new", m, n)
    BY <1>3 DEF btn_1_event_cb
  <2>3. PICK m \in BOOLEAN, n \in BOOLEAN : lv_pm_open_page(1 - p, a, "new", m, n)
    BY <2>2, MemoryType
  <2>4. QED
    BY <2>1, <2>3
<1>4. CASE anim_timer
  BY <1>4 DEF anim_timer, Ready
<1>5. QED
  BY <1>1, <1>2, <1>3, <1>4 DEF AppNext

\* The page manager's types are preserved by the application.
LEMMA AppStepType ==
  ASSUME TypeOK, [AppNext]_appVars
  PROVE  TypeOK'
<1>1. CASE UNCHANGED vars
  BY <1>1 DEF vars, TypeOK
<1>2. ASSUME NEW id \in Slot, NEW a \in Styles, NEW t \in Targets \cup {"new"},
             NEW m \in BOOLEAN, NEW n \in BOOLEAN, lv_pm_open_page(id, a, t, m, n)
      PROVE  TypeOK'
  <2>1. a \in Anima /\ t \in Target
    BY StylesAssumption, TargetsAssumption DEF Target
  <2>2. QED
    BY <1>2, <2>1, OpenType
<1>3. CASE UNCHANGED appVars
  BY <1>1, <1>3 DEF appVars
<1>4. QED
  BY <1>1, <1>2, <1>3, AppCases, BackType, ReadyType

\* lv_app_start leaves page 0 open, or opening, and alone on the screen.
LEMMA AppStart ==
  ASSUME AppInit
  PROVE  /\ TypeOK
         /\ history_len = 1 /\ history[0] = 0
         /\ \A p \in Slot : /\ ~view[p].hidden <=> p = 0
                            /\ view[p].loaded <=> p = 0
                            /\ ~Leaving(p)
                            /\ p # 0 => view[p] = FreshView
         /\ \E a \in Styles : \E mem \in Memory(a) :
              options[0] = a /\ view[0] = Enter(FreshView, a, mem)
<1>1. 0 \in Slot /\ 1 \in Slot
  BY AppPagesAssumption, PagesAssumption
<1>2. /\ FreshView \in PageView /\ FreshView.hidden /\ ~FreshView.loaded
      /\ \A x \in Axis : FreshView.anim[x] = "idle"
  BY DEF FreshView, PageView
<1>3. PICK a \in Styles : \E mem \in Memory(a) :
        /\ options = [p \in Slot |-> IF p = 0 THEN a ELSE "none"]
        /\ view = [p \in Slot |-> IF p = 0 THEN Enter(FreshView, a, mem) ELSE FreshView]
  BY DEF AppInit
<1>4. PICK mem \in Memory(a) :
        /\ options = [p \in Slot |-> IF p = 0 THEN a ELSE "none"]
        /\ view = [p \in Slot |-> IF p = 0 THEN Enter(FreshView, a, mem) ELSE FreshView]
  BY <1>3
<1>5. a \in Anima /\ mem \in BOOLEAN
  BY StylesAssumption, MemoryType
<1> DEFINE opened == Enter(FreshView, a, mem)
<1>6. opened \in PageView
  BY <1>2, <1>5, EnterType
<1>7. opened.loaded /\ ~opened.hidden /\ \A x \in Axis : opened.anim[x] \notin LeaveJob
  BY <1>2, <1>5, EnteredShown
<1> HIDE DEF opened
<1>8. \A p \in Slot : view[p] = IF p = 0 THEN opened ELSE FreshView
  BY <1>4 DEF opened
<1>9. view \in [Slot -> PageView] /\ options \in [Slot -> Anima]
  <2>1. view = [p \in Slot |-> IF p = 0 THEN opened ELSE FreshView]
    BY <1>4 DEF opened
  <2>2. "none" \in Anima
    BY DEF Anima
  <2>3. QED
    BY <1>2, <1>4, <1>5, <1>6, <2>1, <2>2
<1>10. TypeOK
  BY <1>1, <1>9 DEF AppInit, TypeOK
<1>11. ASSUME NEW p \in Slot
       PROVE  /\ ~view[p].hidden <=> p = 0
              /\ view[p].loaded <=> p = 0
              /\ ~Leaving(p)
  <2>1. "idle" \notin LeaveJob
    BY DEF LeaveJob
  <2>2. QED
    BY <1>2, <1>7, <1>8, <2>1 DEF Leaving
<1>12. options[0] = a /\ view[0] = Enter(FreshView, a, mem)
  BY <1>1, <1>4
<1>13. history_len = 1 /\ history[0] = 0
  BY <1>1 DEF AppInit
<1>14. QED
  BY <1>8, <1>10, <1>11, <1>12, <1>13

------------------------------------------------------------------------------
(* Type correctness with the queue                                         *)

Queue == /\ pending \in Seq(Request) /\ Len(pending) <= issued
         /\ issued \in 0 .. MaxRequests
         /\ previous \in SUBSET Slot

\* Making a request puts it at the head of the timers.
LEMMA MadeRequest ==
  ASSUME Queue, NEW req \in Request, AsyncCall(req)
  PROVE  Queue'
<1>1. /\ pending' = <<req>> \o pending /\ issued' = issued + 1
      /\ issued < MaxRequests /\ previous' = previous
  BY DEF AsyncCall
<1>2. <<req>> \in Seq(Request) /\ Len(<<req>>) = 1
  OBVIOUS
<1>3. pending' \in Seq(Request) /\ Len(pending') = 1 + Len(pending)
  BY <1>1, <1>2, ConcatProperties DEF Queue
<1>4. Len(pending) \in Nat
  BY LenProperties DEF Queue
<1>5. QED
  BY <1>1, <1>3, <1>4, MaxRequestsAssumption DEF Queue

LEMMA StepQueue ==
  ASSUME Queue, [AppNext]_appVars
  PROVE  Queue'
<1>1. TrackPrevious => previous' \in SUBSET Slot
  BY DEF TrackPrevious, CurrentPages, Queue
<1>2. CASE cmd_pm_open
  <2>1. PICK n \in Typed : AsyncCall([type |-> "open", id |-> Uint8(n), typed |-> n])
    BY <1>2 DEF cmd_pm_open
  <2>2. n \in Nat
    BY TypedAssumption
  <2>3. Uint8(n) \in 0 .. 255
    BY <2>2 DEF Uint8
  <2>4. QED
    BY <2>1, <2>3, MadeRequest DEF Request
<1>3. CASE cmd_pm_back
  BY <1>3, MadeRequest DEF cmd_pm_back, Request
<1>4. CASE _pm_async_cb
  <2>1. pending # <<>> /\ pending' = Tail(pending) /\ issued' = issued
    BY <1>4 DEF _pm_async_cb
  <2>2. pending' \in Seq(Request) /\ Len(pending') = Len(pending) - 1
    BY <2>1, HeadTailProperties DEF Queue
  <2>3. Len(pending) \in Nat
    BY LenProperties DEF Queue
  <2>4. previous' \in SUBSET Slot
    BY <1>1, <1>4 DEF _pm_async_cb
  <2>5. QED
    BY <2>1, <2>2, <2>3, <2>4, MaxRequestsAssumption DEF Queue
<1>5. ASSUME NEW p \in {0, 1}, btn_1_event_cb(p)
      PROVE  Queue'
  BY <1>1, <1>5 DEF btn_1_event_cb, Queue
<1>6. CASE anim_timer
  BY <1>6 DEF anim_timer, Queue
<1>7. CASE UNCHANGED appVars
  BY <1>7 DEF appVars, Queue
<1>8. QED
  BY <1>2, <1>3, <1>4, <1>5, <1>6, <1>7 DEF AppNext

\* Requests, clicks and transitions in any order keep every index of the page
\* manager in range and every queued id within the byte it is stored in.
THEOREM AppTypeCorrect == AppSpec => []AppTypeOK
<1>1. AppInit => TypeOK /\ Queue
  <2> SUFFICES ASSUME AppInit PROVE TypeOK /\ Queue
    OBVIOUS
  <2>1. pending \in Seq(Request) /\ Len(pending) = 0
    BY EmptySeq DEF AppInit
  <2>2. QED
    BY <2>1, AppStart, MaxRequestsAssumption DEF AppInit, Queue
<1>2. TypeOK /\ Queue /\ [AppNext]_appVars => TypeOK' /\ Queue'
  BY AppStepType, StepQueue
<1>3. TypeOK /\ Queue => AppTypeOK
  BY DEF Queue, AppTypeOK
<1>4. QED
  BY <1>1, <1>2, <1>3, PTL DEF AppSpec

------------------------------------------------------------------------------
(* The application is a client of the page manager                         *)

\* lv_app_start creates the two pages and nothing else creates one.
TwoPages == router = {0, 1}

\* The two pages stay all there is.
LEMMA StepPages ==
  ASSUME TypeOK, TwoPages, [AppNext]_appVars
  PROVE  TwoPages'
<1>1. CASE UNCHANGED vars
  BY <1>1 DEF vars, TwoPages
<1>2. CASE UNCHANGED appVars
  BY <1>1, <1>2 DEF appVars
<1>3. QED
  BY <1>1, <1>2, AppCases
     DEF TwoPages, lv_pm_open_page, lv_pm_back, anima_ready_cb

\* Every request that is carried out and every click is a call that a client
\* of PageManager may make.
LEMMA AppCalls ==
  ASSUME TwoPages, [AppNext]_appVars
  PROVE  [Next]_vars
<1>1. ASSUME NEW id \in Pages, NEW a \in Styles, NEW t \in Target,
             \E m, n \in Memory(a) : lv_pm_open_page(id, a, t, m, n)
      PROVE  Next
  BY <1>1 DEF Next, Open
<1>2. CASE cmd_pm_open \/ cmd_pm_back
  BY <1>2 DEF cmd_pm_open, cmd_pm_back, AsyncCall
<1>3. CASE _pm_async_cb
  <2>1. CASE AcceptsOpen(Head(pending)) /\
             \E a \in Styles, t \in Targets : GuardedOpen(Head(pending).id, a, t)
    <3>1. Head(pending).id \in Pages
      BY <2>1, AppPagesAssumption DEF AcceptsOpen, TwoPages
    <3>2. PICK a \in Styles, t \in Targets : GuardedOpen(Head(pending).id, a, t)
      BY <2>1
    <3>3. t \in Target
      BY TargetsAssumption
    <3>4. QED
      BY <1>1, <3>1, <3>2, <3>3 DEF GuardedOpen
  <2>2. CASE GuardedBack
    BY <2>2 DEF GuardedBack, Next
  <2>3. CASE UNCHANGED vars
    BY <2>3
  <2>4. QED
    BY <1>3, <2>1, <2>2, <2>3 DEF _pm_async_cb
<1>4. ASSUME NEW p \in {0, 1}, btn_1_event_cb(p)
      PROVE  Next
  <2>1. 1 - p \in Pages /\ "new" \in Target
    BY AppPagesAssumption DEF Target
  <2>2. PICK a \in Styles : \E m, n \in Memory(a) : lv_pm_open_page(1 - p, a, "new", m, n)
    BY <1>4 DEF btn_1_event_cb
  <2>3. QED
    BY <1>1, <2>1, <2>2
<1>5. CASE anim_timer
  BY <1>5 DEF anim_timer, Next
<1>6. CASE UNCHANGED appVars
  BY <1>6 DEF appVars
<1>7. QED
  BY <1>2, <1>3, <1>4, <1>5, <1>6 DEF AppNext

\* lv_app_start leaves the page manager in a state its invariants allow.
LEMMA AppStartSafe ==
  ASSUME AppInit
  PROVE  /\ TypeOK /\ TwoPages /\ NoPopup
         /\ HistoryCreated /\ ReleasePolicy /\ LeftPagesHidden
<1>1. \A p \in Slot : IsCurrent(p) <=> p = 0
  BY AppStart DEF IsCurrent
<1>2. TwoPages /\ NoPopup
  <2>1. ASSUME "popup" \notin Styles, NEW p \in Slot
        PROVE  options[p] # "popup" /\ view[p].anim["y"] = "idle"
    <3>1. FreshView \in PageView /\ FreshView.anim["y"] = "idle"
      BY DEF FreshView, PageView, Axis
    <3>2. PICK a \in Styles : \E mem \in Memory(a) :
                 options[0] = a /\ view[0] = Enter(FreshView, a, mem)
      BY AppStart
    <3>3. PICK mem \in Memory(a) : options[0] = a /\ view[0] = Enter(FreshView, a, mem)
      BY <3>2
    <3>4. a \in Anima /\ a # "popup" /\ mem \in BOOLEAN
      BY <2>1, StylesAssumption, MemoryType
    <3>5. view[0].anim["y"] = "idle"
      <4> DEFINE u == [FreshView EXCEPT !.loaded = TRUE, !.hidden = FALSE]
      <4>1. u \in PageView /\ u.anim["y"] = "idle"
        BY <3>1 DEF PageView
      <4>2. "appear" \in Job
        BY DEF Job, ShowJob
      <4>3. Animate(u, "appear", a, mem).anim["y"] = u.anim["y"]
        BY <3>4, <4>1, <4>2, StaysOffY
      <4>4. QED
        BY <3>3, <4>1, <4>3 DEF Enter
    <3>6. CASE p = 0
      BY <3>3, <3>4, <3>5, <3>6
    <3>7. CASE p # 0
      BY <2>1, <3>1, <3>7, AppStart DEF AppInit
    <3>8. QED
      BY <3>6, <3>7
  <2>2. QED
    BY <2>1 DEF AppInit, TwoPages, NoPopup
<1>3. HistoryCreated
  BY AppStart DEF AppInit, HistoryCreated, Slot
<1>4. ReleasePolicy /\ LeftPagesHidden
  BY <1>1, AppStart DEF ReleasePolicy, LeftPagesHidden
<1>5. QED
  BY <1>2, <1>3, <1>4, AppStart

\* Every step of the application is a step of the page manager under some
\* client: what no step of any client can spoil, the application cannot.
THEOREM AppIsClient == AppSpec => [][Next]_vars
<1>1. AppInit => TypeOK /\ TwoPages
  BY AppStartSafe
<1>2. TypeOK /\ TwoPages /\ [AppNext]_appVars => TypeOK' /\ TwoPages' /\ [Next]_vars
  BY AppStepType, StepPages, AppCalls
<1>3. QED
  BY <1>1, <1>2, PTL DEF AppSpec

\* With any animations, targets and shortage of memory, the application never
\* has a page in its history that was not created.
THEOREM AppHistoryValid == AppSpec => []HistoryCreated
<1>1. AppInit => TypeOK /\ HistoryCreated
  BY AppStartSafe
<1>2. TypeOK /\ [AppNext]_appVars => TypeOK'
  BY AppStepType
<1>3. TypeOK /\ HistoryCreated /\ [Next]_vars => HistoryCreated'
  BY HistoryStep
<1>4. QED
  BY <1>1, <1>2, <1>3, AppIsClient, PTL DEF AppSpec

\* And it never keeps the widgets of a page it left but to unload them.
THEOREM AppReleases == AppSpec => []ReleasePolicy
<1>1. AppInit => TypeOK /\ ReleasePolicy
  BY AppStartSafe
<1>2. TypeOK /\ [AppNext]_appVars => TypeOK'
  BY AppStepType
<1>3. TypeOK /\ ReleasePolicy /\ [Next]_vars => ReleasePolicy'
  BY ReleaseStep
<1>4. QED
  BY <1>1, <1>2, <1>3, AppIsClient, PTL DEF AppSpec

\* Without popups no page of the application stays visible that it left, once
\* its transition is over.
THEOREM AppHidden == AppSpec => []LeftPagesHidden
<1>1. AppInit => TypeOK /\ NoPopup /\ LeftPagesHidden
  BY AppStartSafe
<1>2. TypeOK /\ [AppNext]_appVars => TypeOK'
  BY AppStepType
<1>3. TypeOK /\ NoPopup /\ LeftPagesHidden /\ [Next]_vars => NoPopup' /\ LeftPagesHidden'
  BY PopupStep, HiddenStep
<1>4. QED
  BY <1>1, <1>2, <1>3, AppIsClient, PTL DEF AppSpec

------------------------------------------------------------------------------
(* What is typed is what is opened                                         *)

\* An open carries the low byte of the number typed.
Faithful ==
  \A i \in 1 .. Len(pending) :
    pending[i].type = "open" => pending[i].id = Uint8(pending[i].typed)

\* A new request goes before the others and changes none of them.
LEMMA MadeFaithful ==
  ASSUME Queue, Faithful, NEW req \in Request, AsyncCall(req),
         req.type = "open" => req.id = Uint8(req.typed)
  PROVE  Faithful'
<1> DEFINE made == <<req>> \o pending
<1>1. /\ pending \in Seq(Request) /\ <<req>> \in Seq(Request)
      /\ Len(<<req>>) = 1 /\ <<req>>[1] = req /\ Len(pending) \in Nat
  BY LenProperties DEF Queue
<1>2. /\ Len(made) = 1 + Len(pending)
      /\ \A i \in 1 .. 1 + Len(pending) :
           made[i] = IF i <= 1 THEN <<req>>[i] ELSE pending[i - 1]
  BY <1>1, ConcatProperties
<1>3. pending' = made
  BY DEF AsyncCall
<1> HIDE DEF made
<1>4. SUFFICES ASSUME NEW i \in 1 .. Len(made), made[i].type = "open"
               PROVE  made[i].id = Uint8(made[i].typed)
  BY <1>3 DEF Faithful
<1>5. CASE i = 1
  BY <1>1, <1>2, <1>4, <1>5
<1>6. CASE i # 1
  <2>1. i - 1 \in 1 .. Len(pending) /\ made[i] = pending[i - 1]
    BY <1>1, <1>2, <1>4, <1>6
  <2>2. QED
    BY <1>4, <2>1 DEF Faithful
<1>7. QED
  BY <1>5, <1>6

\* Nothing but the making of a request adds to the queue.
LEMMA StepFaithful ==
  ASSUME Queue, Faithful, [AppNext]_appVars
  PROVE  Faithful'
<1>1. CASE cmd_pm_open
  <2>1. PICK n \in Typed : AsyncCall([type |-> "open", id |-> Uint8(n), typed |-> n])
    BY <1>1 DEF cmd_pm_open
  <2>2. Uint8(n) \in 0 .. 255
    BY TypedAssumption DEF Uint8
  <2>3. QED
    BY <2>1, <2>2, MadeFaithful DEF Request
<1>2. CASE cmd_pm_back
  BY <1>2, MadeFaithful DEF cmd_pm_back, Request
<1>3. CASE _pm_async_cb
  <2>1. pending \in Seq(Request) /\ pending # <<>> /\ pending' = Tail(pending)
    BY <1>3 DEF _pm_async_cb, Queue
  <2>2. /\ Len(pending) \in Nat /\ Len(pending') = Len(pending) - 1
        /\ \A i \in 1 .. Len(pending') : pending'[i] = pending[i + 1]
    BY <2>1, HeadTailProperties, LenProperties
  <2>3. \A i \in 1 .. Len(pending') : i + 1 \in 1 .. Len(pending)
    BY <2>2
  <2>4. QED
    BY <2>2, <2>3 DEF Faithful
<1>4. ASSUME NEW p \in {0, 1}, btn_1_event_cb(p)
      PROVE  Faithful'
  BY <1>4 DEF btn_1_event_cb, Faithful
<1>5. CASE anim_timer
  BY <1>5 DEF anim_timer, Faithful
<1>6. CASE UNCHANGED appVars
  BY <1>6 DEF appVars, Faithful
<1>7. QED
  BY <1>1, <1>2, <1>3, <1>4, <1>5, <1>6 DEF AppNext

\* Only the handling of a request makes the queue shorter.
LEMMA OnlyHandled ==
  ASSUME Queue, [AppNext]_appVars, Len(pending') < Len(pending)
  PROVE  _pm_async_cb
<1>1. pending \in Seq(Request) /\ Len(pending) \in Nat
  BY LenProperties DEF Queue
<1>2. ASSUME NEW req \in Request, AsyncCall(req)
      PROVE  FALSE
  <2>1. pending' = <<req>> \o pending
    BY <1>2 DEF AsyncCall
  <2>2. <<req>> \in Seq(Request) /\ Len(<<req>>) = 1
    OBVIOUS
  <2>3. Len(pending') = 1 + Len(pending)
    BY <1>1, <2>1, <2>2, ConcatProperties
  <2>4. QED
    BY <1>1, <2>3
<1>3. CASE cmd_pm_open
  <2>1. PICK n \in Typed : AsyncCall([type |-> "open", id |-> Uint8(n), typed |-> n])
    BY <1>3 DEF cmd_pm_open
  <2>2. Uint8(n) \in 0 .. 255
    BY TypedAssumption DEF Uint8
  <2>3. QED
    BY <1>2, <2>1, <2>2 DEF Request
<1>4. CASE cmd_pm_back
  BY <1>2, <1>4 DEF cmd_pm_back, Request
<1>5. ASSUME pending' = pending
      PROVE  FALSE
  BY <1>1, <1>5
<1>6. QED
  BY <1>3, <1>4, <1>5 DEF AppNext, btn_1_event_cb, anim_timer, appVars

\* The page that a handled request puts on show is the one whose id was typed,
\* whatever else was typed, clicked or finished in between, for every
\* animation and target and any shortage of memory.
THEOREM OpensTyped == AppSpec => OpensTypedPage
<1>1. AppInit => TypeOK /\ Queue /\ Faithful
  <2> SUFFICES ASSUME AppInit PROVE TypeOK /\ Queue /\ Faithful
    OBVIOUS
  <2>1. pending \in Seq(Request) /\ Len(pending) = 0
    BY EmptySeq DEF AppInit
  <2>2. QED
    BY <2>1, AppStart, MaxRequestsAssumption DEF AppInit, Queue, Faithful
<1>2. TypeOK /\ Queue /\ Faithful /\ [AppNext]_appVars => TypeOK' /\ Queue' /\ Faithful'
  BY AppStepType, StepQueue, StepFaithful
<1>3. ASSUME TypeOK, Queue, Faithful, [AppNext]_appVars,
             pending # <<>>, Len(pending') < Len(pending), Head(pending).type = "open",
             Head(pending).typed <= 255, CurrentPages' # CurrentPages
      PROVE  CurrentPages' = {Head(pending).typed}
  <2> DEFINE req == Head(pending)
  <2>1. _pm_async_cb
    BY <1>3, OnlyHandled
  <2>2. req \in Request /\ req = pending[1] /\ Len(pending) \in Nat /\ Len(pending) >= 1
    BY <1>3, HeadTailProperties, LenProperties, EmptySeq DEF Queue
  <2>3. req.typed \in 0 .. 255
    <3>1. ASSUME NEW r \in Request PROVE r.typed \in Nat
      <4>1. r.typed \in Typed \cup {0}
        BY DEF Request
      <4>2. Typed \cup {0} \subseteq Nat
        BY TypedAssumption
      <4>3. QED
        BY <4>1, <4>2
    <3>2. req.typed <= 255
      BY <1>3
    <3> HIDE DEF req
    <3>3. req.typed \in Nat
      BY <2>2, <3>1
    <3>4. QED
      BY <3>2, <3>3
  <2>4. req.id = req.typed
    <3>1. req.id = Uint8(req.typed)
      BY <1>3, <2>2 DEF Faithful
    <3>2. QED
      BY <2>3, <3>1 DEF Uint8
  <2>5. ~UNCHANGED vars
    BY <1>3 DEF vars, CurrentPages, IsCurrent
  <2>6. AcceptsOpen(req) /\ \E a \in Styles, t \in Targets : GuardedOpen(req.id, a, t)
    BY <1>3, <2>1, <2>5 DEF _pm_async_cb, AcceptsBack
  <2>7. PICK a \in Styles, t \in Targets : GuardedOpen(req.id, a, t)
    BY <2>6
  <2>8. PICK m \in BOOLEAN, n \in BOOLEAN : lv_pm_open_page(req.id, a, t, m, n)
    BY <2>7, MemoryType DEF GuardedOpen
  <2>9. req.id \in Slot /\ a \in Anima /\ t \in Target
    BY <2>6, StylesAssumption, TargetsAssumption DEF AcceptsOpen
  <2>10. \A p \in Slot : IsCurrent(p)' <=> p = req.id
    BY <1>3, <2>8, <2>9, OpenedIsCurrent, OnlyOpenedCurrent
  <2>11. QED
    BY <2>4, <2>9, <2>10 DEF CurrentPages
<1>4. QED
  BY <1>1, <1>2, <1>3, PTL DEF AppSpec, OpensTypedPage

------------------------------------------------------------------------------
(* The application as shipped                                              *)

\* An open with target NEW puts its page in the place of the only one.
LEMMA NewReplaces ==
  ASSUME TypeOK, HistoryStaysShort, NEW id \in Slot, OpenHistory(id, "new")
  PROVE  history_len' = 1 /\ history'[0] = id
<1>1. 0 \in Slot /\ history \in [Slot -> Slot] /\ history_len = 1
  BY PageNumAssumption DEF TypeOK, HistoryStaysShort, Slot
<1>2. history' = [history EXCEPT ![history_len - 1] = id] /\ history_len' = history_len
  BY <1>1 DEF OpenHistory, ReplacesTop
<1>3. history_len - 1 = 0
  BY <1>1
<1>4. QED
  BY <1>1, <1>2, <1>3

\* With target NEW only, no sequence of requests and clicks lets the history
\* grow: no open is ever refused for a full history, and no back succeeds.
THEOREM HistoryShort ==
  ASSUME Targets = {"new"}
  PROVE  AppSpec => []HistoryStaysShort
<1>1. AppInit => TypeOK /\ HistoryStaysShort
  BY AppStart DEF HistoryStaysShort
<1>2. TypeOK /\ HistoryStaysShort /\ [AppNext]_appVars => TypeOK' /\ HistoryStaysShort'
  <2> SUFFICES ASSUME TypeOK, HistoryStaysShort, [AppNext]_appVars
               PROVE  HistoryStaysShort'
    BY AppStepType
  <2>1. ASSUME NEW id \in Slot, NEW a, NEW m, NEW n, lv_pm_open_page(id, a, "new", m, n)
        PROVE  HistoryStaysShort'
    BY <2>1, NewReplaces DEF lv_pm_open_page, HistoryStaysShort
  <2>2. ASSUME NEW p, NEW x, anima_ready_cb(p, x)
        PROVE  HistoryStaysShort'
    BY <2>2 DEF anima_ready_cb, HistoryStaysShort
  <2>3. CASE UNCHANGED vars
    BY <2>3 DEF vars, HistoryStaysShort
  <2>4. CASE UNCHANGED appVars
    BY <2>3, <2>4 DEF appVars
  <2>5. QED
    BY <2>1, <2>2, <2>3, <2>4, AppCases DEF HistoryStaysShort
<1>3. QED
  BY <1>1, <1>2, PTL DEF AppSpec

\* Without an animation the leaving page is unloaded and hidden at once, and
\* the entered one is loaded and visible.
LEMMA PlainTransitions ==
  ASSUME NEW v \in PageView, NEW m \in BOOLEAN,
         \A x \in Axis : v.anim[x] = "idle"
  PROVE  /\ LET w == Animate(v, "disappear", "none", m)
            IN w.hidden /\ ~w.loaded /\ \A x \in Axis : w.anim[x] = "idle"
         /\ LET w == Enter(v, "none", m)
            IN ~w.hidden /\ w.loaded /\ \A x \in Axis : w.anim[x] = "idle"
<1>1. ~Animated("none")
  BY DEF Animated
<1>2. Animate(v, "disappear", "none", m) = [v EXCEPT !.hidden = TRUE, !.loaded = FALSE]
  BY <1>1 DEF Animate, Complete, LeaveJob, PageView
<1>3. Enter(v, "none", m) = [v EXCEPT !.loaded = TRUE, !.hidden = FALSE]
  BY <1>1 DEF Enter, Animate, Complete, LeaveJob
<1>4. QED
  BY <1>2, <1>3 DEF PageView

\* One page is shown, and nothing moves.
Plain ==
  /\ TypeOK /\ HistoryStaysShort /\ Idle
  /\ \A p \in Slot : /\ ~view[p].hidden <=> IsCurrent(p)
                     /\ view[p].loaded <=> IsCurrent(p)

LEMMA OpenPlain ==
  ASSUME Plain, NEW id \in Slot, NEW m \in BOOLEAN, NEW n \in BOOLEAN,
         lv_pm_open_page(id, "none", "new", m, n)
  PROVE  HistoryStaysShort' /\ Idle'
         /\ \A p \in Slot : /\ ~view'[p].hidden <=> IsCurrent(p)'
                            /\ view'[p].loaded <=> IsCurrent(p)'
<1> DEFINE top == history[0]
           left == LeaveTop("none", m)
<1>1. /\ TypeOK /\ history_len = 1 /\ "none" \in Anima
      /\ \A p \in Slot, x \in Axis : view[p].anim[x] = "idle"
  BY DEF Plain, HistoryStaysShort, Idle, Anima
<1>2. history_len' = 1 /\ history'[0] = id
  BY <1>1, NewReplaces DEF Plain, lv_pm_open_page
<1>3. \A p \in Slot : (IsCurrent(p) <=> p = top) /\ (IsCurrent(p)' <=> p = id)
  BY <1>1, <1>2 DEF IsCurrent
<1>4. left \in [Slot -> PageView]
  BY <1>1, LeaveTopType
<1>5. \A p \in Slot : left[p] = IF p = top THEN Animate(view[p], "disappear", "none", m)
                                ELSE view[p]
  <2>1. top \in Slot /\ history_len - 1 = 0 /\ history_len # 0
    BY <1>1, PageNumAssumption DEF TypeOK, Slot
  <2>2. left = [view EXCEPT ![top] = Animate(@, "disappear", "none", m)]
    BY <2>1 DEF LeaveTop
  <2>3. QED
    BY <1>1, <2>1, <2>2 DEF TypeOK
<1>6. \A p \in Slot : view[p] \in PageView
  BY <1>1 DEF TypeOK
<1>7. \A p \in Slot : /\ \A x \in Axis : left[p].anim[x] = "idle"
                      /\ left[p].hidden /\ ~left[p].loaded
  <2> TAKE p \in Slot
  <2>1. CASE p = top
    BY <1>1, <1>5, <1>6, <2>1, PlainTransitions
  <2>2. CASE p # top
    BY <1>1, <1>3, <1>5, <1>6, <2>2 DEF Plain
  <2>3. QED
    BY <2>1, <2>2
<1>8. \A p \in Slot : view'[p] = IF p = id THEN Enter(left[p], "none", n) ELSE left[p]
  BY <1>4 DEF lv_pm_open_page
<1>9. \A p \in Slot : /\ \A x \in Axis : view'[p].anim[x] = "idle"
                      /\ ~view'[p].hidden <=> p = id
                      /\ view'[p].loaded <=> p = id
  <2> TAKE p \in Slot
  <2>1. left[p] \in PageView
    BY <1>4
  <2>2. CASE p = id
    BY <1>7, <1>8, <2>1, <2>2, PlainTransitions
  <2>3. CASE p # id
    BY <1>7, <1>8, <2>3
  <2>4. QED
    BY <2>2, <2>3
<1>10. QED
  BY <1>2, <1>3, <1>9 DEF HistoryStaysShort, Idle

\* As shipped, with no animation and target NEW, every sequence of requests
\* and clicks leaves exactly the current page visible and loaded.
THEOREM CurrentOnly ==
  ASSUME Targets = {"new"}
  PROVE  AppSpec => []OnlyCurrentShown
<1>1. CASE Styles \subseteq {"none"}
  <2>1. AppInit => Plain
    <3> SUFFICES ASSUME AppInit PROVE Plain
      OBVIOUS
    <3>1. \A p \in Slot : IsCurrent(p) <=> p = 0
      BY AppStart DEF IsCurrent
    <3>2. Idle
      <4>1. FreshView \in PageView /\ \A x \in Axis : FreshView.anim[x] = "idle"
        BY DEF FreshView, PageView
      <4>2. PICK mem \in BOOLEAN : view[0] = Enter(FreshView, "none", mem)
        BY <1>1, AppStart, MemoryType
      <4>3. \A x \in Axis : view[0].anim[x] = "idle"
        BY <4>1, <4>2, PlainTransitions
      <4>4. QED
        BY <4>1, <4>3, AppStart DEF Idle
    <3>3. QED
      BY <3>1, <3>2, AppStart DEF Plain, HistoryStaysShort
  <2>2. Plain /\ [AppNext]_appVars => Plain'
    <3> SUFFICES ASSUME Plain, [AppNext]_appVars PROVE Plain'
      OBVIOUS
    <3>1. TypeOK'
      BY AppStepType DEF Plain
    <3>2. ASSUME NEW id \in Slot, NEW a \in Styles, NEW m \in BOOLEAN, NEW n \in BOOLEAN,
                 lv_pm_open_page(id, a, "new", m, n)
          PROVE  Plain'
      <4>1. a = "none"
        BY <1>1
      <4>2. QED
        BY <3>1, <3>2, <4>1, OpenPlain DEF Plain
    <3>3. ASSUME NEW p \in Slot, NEW x \in Axis, anima_ready_cb(p, x)
          PROVE  FALSE
      BY <3>3 DEF anima_ready_cb, Plain, Idle
    <3>4. CASE UNCHANGED vars
      BY <3>1, <3>4 DEF vars, Plain, HistoryStaysShort, Idle, IsCurrent
    <3>5. CASE UNCHANGED appVars
      BY <3>4, <3>5 DEF appVars
    <3>6. ~(history_len >= 2)
      BY DEF Plain, HistoryStaysShort
    <3>7. QED
      BY <3>2, <3>3, <3>4, <3>5, <3>6, AppCases DEF Plain
  <2>3. Plain => OnlyCurrentShown
    BY DEF Plain, OnlyCurrentShown
  <2>4. QED
    BY <2>1, <2>2, <2>3, PTL DEF AppSpec
<1>2. CASE ~(Styles \subseteq {"none"})
  <2>1. OnlyCurrentShown
    BY <1>2 DEF OnlyCurrentShown
  <2>2. QED
    BY <2>1, PTL
<1>3. QED
  BY <1>1, <1>2

------------------------------------------------------------------------------
(* The application with sliding pages                                      *)

\* A page that only moves sideways.
Sideways(v) == v.anim["y"] = "idle" /\ ~v.off["y"]

\* A page that is on the screen or on its way there.
Arriving(v) == v.anim["x"] \in ShowJob \/ (v.anim["x"] = "idle" /\ ~v.off["x"])

\* Every page above the first one of the history was opened with a slide (no
\* back leaves the first one), so each back slides as well.
Sliding ==
  /\ TypeOK
  /\ \A p \in Slot : Sideways(view[p])
  /\ \A p \in Slot : IsCurrent(p) => ~view[p].hidden /\ Arriving(view[p])
  /\ \A i \in 1 .. history_len - 1 : options[history[i]] = "slide"

\* A slide takes the place of whatever moved its page sideways.
LEMMA SlideView ==
  ASSUME NEW v \in PageView, NEW job \in Job, Sideways(v)
  PROVE  LET w == Animate(v, job, "slide", TRUE)
         IN /\ w \in PageView /\ Sideways(w)
            /\ w.hidden = v.hidden /\ w.anim["x"] = job
<1>1. Animate(v, job, "slide", TRUE) = StartAnim(v, job, "x")
  BY DEF Animate, Animated, AxisOf
<1>2. StartAnim(v, job, "x") \in PageView
  BY StartAnimType DEF Axis
<1>3. QED
  BY <1>1, <1>2, ZenonT(60) DEF StartAnim, PageView, Sideways, Axis

\* Showing a page makes it visible and sends it to the screen.
LEMMA SlideIn ==
  ASSUME NEW v \in PageView, Sideways(v), NEW u \in PageView,
         ~u.hidden, u.anim = v.anim, u.off = v.off, NEW job \in ShowJob
  PROVE  LET w == Animate(u, job, "slide", TRUE)
         IN Sideways(w) /\ ~w.hidden /\ Arriving(w)
<1>1. Sideways(u) /\ job \in Job
  BY DEF Sideways, Job
<1>2. QED
  BY <1>1, SlideView DEF Arriving

\* With memory for every animation, each step slides or is a callback.
LEMMA SlideCases ==
  ASSUME Sliding, AppNext, Styles = {"slide"}, HeapFails = FALSE
  PROVE  \/ UNCHANGED vars
         \/ \E id \in Slot, t \in Target : lv_pm_open_page(id, "slide", t, TRUE, TRUE)
         \/ lv_pm_back(TRUE, TRUE)
         \/ \E p \in Slot, x \in Axis : anima_ready_cb(p, x)
<1>1. Memory("slide") = {TRUE}
  BY DEF Memory, Animated
<1>2. CASE cmd_pm_open \/ cmd_pm_back
  BY <1>2 DEF cmd_pm_open, cmd_pm_back, AsyncCall
<1>3. CASE _pm_async_cb
  <2>1. ASSUME NEW a \in Styles, NEW t \in Targets,
               Head(pending).id \in Slot, GuardedOpen(Head(pending).id, a, t)
        PROVE  t \in Target /\ lv_pm_open_page(Head(pending).id, "slide", t, TRUE, TRUE)
    <3>1. PICK m \in Memory(a), n \in Memory(a) : lv_pm_open_page(Head(pending).id, a, t, m, n)
      BY <2>1 DEF GuardedOpen
    <3>2. a = "slide" /\ m = TRUE /\ n = TRUE
      BY <1>1
    <3>3. QED
      BY <3>1, <3>2, TargetsAssumption
  <2>2. ASSUME GuardedBack
        PROVE  lv_pm_back(TRUE, TRUE)
    <3>1. history_len \in 0 .. PageNum /\ history_len >= 2
      BY <2>2 DEF GuardedBack, Back, Sliding, TypeOK
    <3>2. history_len - 1 \in 1 .. history_len - 1
      BY <3>1
    <3>3. options[history[history_len - 1]] = "slide"
      BY <3>2 DEF Sliding
    <3>4. PICK m \in Memory(options[history[history_len - 1]]),
               n \in Memory(options[history[history_len - 1]]) : lv_pm_back(m, n)
      BY <2>2 DEF GuardedBack, Back
    <3>5. m = TRUE /\ n = TRUE
      BY <1>1, <3>3
    <3>6. QED
      BY <3>4, <3>5
  <2>3. QED
    BY <1>3, <2>1, <2>2 DEF _pm_async_cb, AcceptsOpen
<1>4. ASSUME NEW p \in {0, 1}, btn_1_event_cb(p)
      PROVE  \E id \in Slot, t \in Target : lv_pm_open_page(id, "slide", t, TRUE, TRUE)
  <2>1. 1 - p \in Slot /\ "new" \in Target
    BY AppPagesAssumption, PagesAssumption DEF Target
  <2>2. PICK a \in Styles : \E m, n \in Memory(a) : lv_pm_open_page(1 - p, a, "new", m, n)
    BY <1>4 DEF btn_1_event_cb
  <2>3. PICK m \in Memory(a), n \in Memory(a) : lv_pm_open_page(1 - p, a, "new", m, n)
    BY <2>2
  <2>4. a = "slide" /\ m = TRUE /\ n = TRUE
    BY <1>1
  <2>5. QED
    BY <2>1, <2>3, <2>4
<1>5. CASE anim_timer
  BY <1>5 DEF anim_timer, Ready
<1>6. QED
  BY <1>2, <1>3, <1>4, <1>5 DEF AppNext

\* A position above the first one is the top of the history or below it.
LEMMA TopOrBelow ==
  ASSUME NEW k \in Nat, NEW i \in 1 .. k - 1
  PROVE  i \in Nat /\ i >= 1 /\ (i = k - 1 \/ i \in 0 .. k - 2)
OBVIOUS

LEMMA OpenSlides ==
  ASSUME Sliding, NEW id \in Slot, NEW t \in Target,
         lv_pm_open_page(id, "slide", t, TRUE, TRUE)
  PROVE  Sliding'
<1>0. /\ TypeOK /\ "slide" \in Anima
      /\ \A p \in Slot : view[p] \in PageView /\ Sideways(view[p])
  BY DEF Sliding, TypeOK, Anima
<1>1. TypeOK'
  BY <1>0, OpenType
<1> DEFINE before == IF IsCurrent(id) THEN Animate(view[id], "disappear", "slide", TRUE)
                     ELSE view[id]
           shown  == [before EXCEPT !.loaded = TRUE, !.hidden = FALSE]
<1>2. before \in PageView /\ Sideways(before)
  BY <1>0, SlideView DEF Job, LeaveJob
<1>3. /\ shown \in PageView /\ ~shown.hidden
      /\ shown.anim = before.anim /\ shown.off = before.off
  BY <1>2 DEF PageView
<1>4. view'[id] = Animate(shown, "appear", "slide", TRUE)
  BY <1>0, OpenedView DEF Enter
<1>5. Sideways(view'[id]) /\ ~view'[id].hidden /\ Arriving(view'[id])
  BY <1>2, <1>3, <1>4, SlideIn DEF ShowJob
<1>6. ASSUME NEW p \in Slot, p # id PROVE Sideways(view'[p])
  <2>1. view'[p] = IF IsCurrent(p) THEN Animate(view[p], "disappear", "slide", TRUE)
                   ELSE view[p]
    BY <1>0, <1>6, OpenOthers
  <2>2. QED
    BY <1>0, <2>1, SlideView, ZenonT(60) DEF Job, LeaveJob
<1>7. \A p \in Slot : IsCurrent(p)' => p = id
  BY <1>0, OnlyOpenedCurrent
<1>8. \A i \in 1 .. history_len' - 1 : options'[history'[i]] = "slide"
  <2>1. history_len \in 0 .. PageNum - 1 /\ history \in [Slot -> Slot]
    BY <1>0, PageNumAssumption DEF TypeOK, lv_pm_open_page
  <2>2. OpenHistory(id, t)
    BY DEF lv_pm_open_page
  <2>3. options' = [options EXCEPT ![id] = "slide"] /\ options \in [Slot -> Anima]
    BY <1>0 DEF lv_pm_open_page, TypeOK
  <2>4. history_len \in Nat /\ history_len <= PageNum - 1 /\ history_len' \in Nat
    BY <2>1, <2>2, OpenedHistory, PageNumAssumption
  <2> SUFFICES ASSUME NEW i \in 1 .. history_len' - 1
               PROVE  options'[history'[i]] = "slide"
    OBVIOUS
  <2>5. i \in Nat /\ i >= 1 /\ (i = history_len' - 1 \/ i \in 0 .. history_len' - 2)
    BY <2>4, TopOrBelow
  <2>6. CASE i = history_len' - 1
    <3>1. history'[history_len' - 1] = id
      BY <2>1, <2>2, OpenedHistory
    <3>2. QED
      BY <2>3, <2>6, <3>1
  <2>7. CASE i \in 0 .. history_len' - 2
    <3>2. i \in 0 .. history_len - 1 /\ history'[i] = history[i]
      BY <2>1, <2>2, <2>7, OpenedHistory
    <3>3. i \in 1 .. history_len - 1 /\ i \in Slot
      BY <2>4, <2>5, <3>2, PageNumAssumption DEF Slot
    <3>4. options[history[i]] = "slide" /\ history[i] \in Slot
      BY <2>1, <3>3 DEF Sliding
    <3>5. QED
      BY <2>3, <3>2, <3>4
  <2>8. QED
    BY <2>5, <2>6, <2>7
<1>9. QED
  BY <1>1, <1>5, <1>6, <1>7, <1>8 DEF Sliding

LEMMA BackSlides ==
  ASSUME Sliding, lv_pm_back(TRUE, TRUE)
  PROVE  Sliding'
<1>0. /\ TypeOK /\ history_len \in 2 .. PageNum
      /\ \A p \in Slot : view[p] \in PageView /\ Sideways(view[p])
  BY DEF Sliding, TypeOK, lv_pm_back
<1>1. TypeOK'
  BY <1>0, BackType
<1>2. history_len - 1 \in 1 .. history_len - 1
  BY <1>0
<1>3. options[history[history_len - 1]] = "slide"
  BY <1>2 DEF Sliding
<1>4. ASSUME NEW p \in Slot
      PROVE  /\ Sideways(view'[p])
             /\ IsCurrent(p)' => ~view'[p].hidden /\ Arriving(view'[p])
  <2> DEFINE left == IF p = history[history_len - 1]
                     THEN Animate(view[p], "backDisappear", "slide", TRUE) ELSE view[p]
             seen == [left EXCEPT !.hidden = FALSE]
  <2>1. left \in PageView /\ Sideways(left)
    BY <1>0, SlideView DEF Job, LeaveJob
  <2>2. view'[p] = IF IsCurrent(p)' THEN Animate(seen, "backAppear", "slide", TRUE) ELSE left
    BY <1>0, <1>3, BackViews
  <2>3. seen \in PageView /\ ~seen.hidden /\ seen.anim = left.anim /\ seen.off = left.off
    BY <2>1 DEF PageView
  <2>4. CASE IsCurrent(p)'
    BY <2>1, <2>2, <2>3, <2>4, SlideIn DEF ShowJob
  <2>5. CASE ~IsCurrent(p)'
    BY <2>1, <2>2, <2>5
  <2>6. QED
    BY <2>4, <2>5
<1>5. \A i \in 1 .. history_len' - 1 : options'[history'[i]] = "slide"
  BY <1>0 DEF lv_pm_back, Sliding
<1>6. QED
  BY <1>1, <1>4, <1>5 DEF Sliding

LEMMA ReadySlides ==
  ASSUME Sliding, NEW q \in Slot, NEW x \in Axis, anima_ready_cb(q, x)
  PROVE  Sliding'
<1>0. /\ TypeOK /\ view \in [Slot -> PageView]
      /\ \A p \in Slot : view[p] \in PageView /\ Sideways(view[p])
  BY DEF Sliding, TypeOK
<1>1. TypeOK'
  BY <1>0, ReadyType
<1>2. x = "x"
  BY <1>0 DEF anima_ready_cb, Sideways, Axis
<1> DEFINE job  == view[q].anim["x"]
           done == [view[q] EXCEPT !.anim["x"] = "idle", !.off["x"] = EndsOff(job, "x")]
<1>3. view'[q] = Complete(done, job, "slide") /\ \A p \in Slot : p # q => view'[p] = view[p]
  BY <1>0, <1>2 DEF anima_ready_cb, StyleOn
<1>4. /\ done \in PageView /\ Sideways(done) /\ done.hidden = view[q].hidden
      /\ done.anim["x"] = "idle" /\ done.off["x"] = EndsOff(job, "x")
  BY <1>0 DEF PageView, Sideways, Axis, EndsOff
<1>5. Sideways(view'[q])
  BY <1>3, <1>4 DEF Complete, Sideways, PageView
<1>6. ASSUME job \in ShowJob, ~view[q].hidden PROVE ~view'[q].hidden /\ Arriving(view'[q])
  <2>1. ~EndsOff(job, "x") /\ job \notin LeaveJob
    BY <1>6 DEF EndsOff, ShowJob, LeaveJob
  <2>2. QED
    BY <1>3, <1>4, <1>6, <2>1 DEF Complete, Arriving
<1>7. job # "idle"
  BY <1>2 DEF anima_ready_cb
<1>8. \A p \in Slot : IsCurrent(p)' <=> IsCurrent(p)
  BY DEF anima_ready_cb, IsCurrent
<1>9. \A p \in Slot : IsCurrent(p)' => ~view'[p].hidden /\ Arriving(view'[p])
  BY <1>3, <1>6, <1>7, <1>8 DEF Sliding, Arriving
<1>10. \A i \in 1 .. history_len' - 1 : options'[history'[i]] = "slide"
  BY DEF anima_ready_cb, Sliding
<1>11. QED
  BY <1>0, <1>1, <1>3, <1>5, <1>9, <1>10 DEF Sliding

LEMMA SlidingAlways ==
  ASSUME Styles = {"slide"}, HeapFails = FALSE
  PROVE  AppSpec => []Sliding
<1>1. AppInit => Sliding
  <2> SUFFICES ASSUME AppInit PROVE Sliding
    OBVIOUS
  <2>1. \A p \in Slot : IsCurrent(p) <=> p = 0
    BY AppStart DEF IsCurrent
  <2>2. FreshView \in PageView /\ Sideways(FreshView)
    BY DEF FreshView, PageView, Sideways, Axis
  <2>3. Memory("slide") = {TRUE}
    BY DEF Memory, Animated
  <2>4. view[0] = Enter(FreshView, "slide", TRUE)
    BY <2>3, AppStart
  <2> DEFINE u == [FreshView EXCEPT !.loaded = TRUE, !.hidden = FALSE]
  <2>5. u \in PageView /\ ~u.hidden /\ u.anim = FreshView.anim /\ u.off = FreshView.off
    BY <2>2 DEF PageView
  <2>6. "appear" \in ShowJob
    BY DEF ShowJob
  <2>7. Sideways(view[0]) /\ ~view[0].hidden /\ Arriving(view[0])
    BY <2>2, <2>4, <2>5, <2>6, SlideIn DEF Enter
  <2>8. \A p \in Slot : Sideways(view[p])
    BY <2>2, <2>7, AppStart
  <2>9. QED
    BY <2>1, <2>7, <2>8, AppStart DEF Sliding
<1>2. Sliding /\ [AppNext]_appVars => Sliding'
  <2> SUFFICES ASSUME Sliding, [AppNext]_appVars PROVE Sliding'
    OBVIOUS
  <2>1. CASE UNCHANGED vars
    <3>1. TypeOK'
      BY AppStepType DEF Sliding
    <3>2. QED
      BY <2>1, <3>1 DEF vars, Sliding, IsCurrent
  <2>2. CASE UNCHANGED appVars
    BY <2>1, <2>2 DEF appVars
  <2>3. QED
    BY <2>1, <2>2, SlideCases, OpenSlides, BackSlides, ReadySlides
<1>3. QED
  BY <1>1, <1>2, PTL DEF AppSpec

\* With slides, the current page is never hidden nor about to be, however
\* clicks, requests and backs interrupt the transitions, for every target.
THEOREM SlidingVisible ==
  ASSUME Styles = {"slide"}, HeapFails = FALSE
  PROVE  AppSpec => []CurrentVisible
<1>1. Sliding => CurrentVisible
  BY DEF Sliding, Sideways, Arriving, CurrentVisible, Leaving, ShowJob, LeaveJob, Axis
<1>2. QED
  BY <1>1, SlidingAlways, PTL

\* And when everything has settled it is on the screen.
THEOREM SlidingOnScreen ==
  ASSUME Styles = {"slide"}, HeapFails = FALSE
  PROVE  AppSpec => []CurrentOnScreen
<1>1. Sliding => CurrentOnScreen
  BY DEF Sliding, Sideways, Arriving, CurrentOnScreen, Idle, ShowJob, Axis
<1>2. QED
  BY <1>1, SlidingAlways, PTL

=============================================================================
