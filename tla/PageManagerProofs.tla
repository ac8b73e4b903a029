-------------------------- MODULE PageManagerProofs --------------------------
(***************************************************************************)
(* What TLAPS proves of PageManager, for every number of pages, set of     *)
(* created pages and set of animation styles.                              *)
(***************************************************************************)
EXTENDS PageManager, SequenceTheorems, TLAPS

------------------------------------------------------------------------------
(* Lemmas about one transition of one page                                 *)

\* A completion callback yields a view of a page.
LEMMA CompleteType ==
  ASSUME NEW v \in PageView, NEW job \in Job, NEW a \in Anima
  PROVE  Complete(v, job, a) \in PageView
BY DEF Complete, PageView

\* So does starting an animation.
LEMMA StartAnimType ==
  ASSUME NEW v \in PageView, NEW job \in Job, NEW x \in Axis
  PROVE  StartAnim(v, job, x) \in PageView
<1>1. StartsOff(job, x) \in BOOLEAN
  BY DEF StartsOff
<1>2. QED
  BY <1>1 DEF StartAnim, PageView

\* And so does a whole transition.
LEMMA AnimateType ==
  ASSUME NEW v \in PageView, NEW job \in Job, NEW a \in Anima, NEW mem \in BOOLEAN
  PROVE  Animate(v, job, a, mem) \in PageView
<1>1. AxisOf(a) \in Axis
  BY DEF AxisOf, Axis
<1>2. QED
  BY <1>1, CompleteType, StartAnimType DEF Animate

\* A page that is asked to leave is unloaded at once or is left with an
\* animation that will unload it.
LEMMA LeaveReleases ==
  ASSUME NEW v \in PageView, NEW job \in LeaveJob, NEW a \in Anima,
         NEW mem \in BOOLEAN
  PROVE  LET w == Animate(v, job, a, mem)
         IN w.loaded => \E x \in Axis : w.anim[x] \in LeaveJob
<1> DEFINE w == Animate(v, job, a, mem)
<1>1. AxisOf(a) \in Axis
  BY DEF AxisOf, Axis
<1>2. CASE Animated(a) /\ mem
  <2>1. w.anim[AxisOf(a)] = job
    BY <1>1, <1>2 DEF Animate, StartAnim, PageView
  <2>2. QED
    BY <1>1, <2>1
<1>3. CASE ~(Animated(a) /\ mem)
  BY <1>3 DEF Animate, Complete, PageView
<1>4. QED
  BY <1>2, <1>3

------------------------------------------------------------------------------
(* Type correctness                                                        *)

USE PageNumAssumption

\* The memory outcomes a call can meet are Booleans.
LEMMA MemoryType ==
  ASSUME NEW a, NEW m \in Memory(a)
  PROVE  m \in BOOLEAN
<1>1. Animated(a) \in BOOLEAN
  BY DEF Animated
<1>2. QED
  BY <1>1, HeapAssumption DEF Memory

\* The page before the opened one leaves without spoiling the views.
LEMMA LeaveTopType ==
  ASSUME TypeOK, NEW a \in Anima, NEW mem \in BOOLEAN
  PROVE  LeaveTop(a, mem) \in [Slot -> PageView]
<1>1. CASE history_len = 0
  BY <1>1 DEF LeaveTop, TypeOK
<1>2. CASE history_len # 0
  <2> DEFINE top == history[history_len - 1]
  <2>1. top \in Slot
    BY <1>2 DEF TypeOK, Slot
  <2>2. Animate(view[top], "disappear", a, mem) \in PageView
    BY <2>1, AnimateType DEF TypeOK, Job, LeaveJob
  <2>3. QED
    BY <1>2, <2>1, <2>2 DEF LeaveTop, TypeOK
<1>3. QED
  BY <1>1, <1>2

\* Entering a page yields a view of it.
LEMMA EnterType ==
  ASSUME NEW v \in PageView, NEW a \in Anima, NEW mem \in BOOLEAN
  PROVE  Enter(v, a, mem) \in PageView
<1>1. [v EXCEPT !.loaded = TRUE, !.hidden = FALSE] \in PageView
  BY DEF PageView
<1>2. QED
  BY <1>1, AnimateType DEF Enter, Job, ShowJob

\* What an open does to the history, for every target: the opened page is on
\* top, and the entries below the top are as they were.
LEMMA OpenedHistory ==
  ASSUME NEW id \in Slot, NEW t \in Target, OpenHistory(id, t),
         history_len \in 0 .. PageNum - 1, history \in [Slot -> Slot]
  PROVE  /\ history_len' \in 1 .. PageNum
         /\ history'[history_len' - 1] = id
         /\ history' \in [Slot -> Slot]
         /\ history_len' \in {history_len, history_len + 1}
         /\ \A i \in 0 .. history_len' - 2 :
              i \in 0 .. history_len - 1 /\ history'[i] = history[i]
<1> USE DEF Slot
<1>1. CASE history_len > 0 /\ history' = [history EXCEPT ![history_len - 1] = id]
           /\ UNCHANGED history_len
  <2>1. history_len - 1 \in Slot /\ history_len' \in 1 .. PageNum
    BY <1>1
  <2>2. \A i \in Slot : i # history_len - 1 => history'[i] = history[i]
    BY <1>1
  <2>3. history'[history_len' - 1] = id /\ history' \in [Slot -> Slot]
    BY <1>1, <2>1
  <2>4. \A i \in 0 .. history_len' - 2 :
          i \in 0 .. history_len - 1 /\ i \in Slot /\ i # history_len - 1
    BY <1>1
  <2>5. QED
    BY <1>1, <2>1, <2>2, <2>3, <2>4
<1>2. CASE /\ history_len > 0 /\ UNCHANGED history_len
           /\ history' = [history EXCEPT ![history_len] = id, ![history_len - 1] = id]
  <2>1. history_len \in Slot /\ history_len - 1 \in Slot
    BY <1>2
  <2>2. \A i \in Slot : i # history_len /\ i # history_len - 1 => history'[i] = history[i]
    BY <1>2
  <2>3. history'[history_len' - 1] = id /\ history' \in [Slot -> Slot]
    BY <1>2, <2>1
  <2>4. \A i \in 0 .. history_len - 2 :
          i \in 0 .. history_len - 1 /\ i \in Slot /\ i # history_len /\ i # history_len - 1
    OBVIOUS
  <2>5. \A i \in 0 .. history_len - 2 :
          i \in 0 .. history_len - 1 /\ history'[i] = history[i]
    BY <2>2, <2>4
  <2>6. history_len' = history_len /\ history_len \in 1 .. PageNum
    BY <1>2
  <2>7. QED
    BY <2>3, <2>5, <2>6
<1>3. CASE history' = [history EXCEPT ![history_len] = id] /\ history_len' = history_len + 1
  <2>1. history_len \in Slot /\ history_len' - 1 = history_len /\ history_len' \in 1 .. PageNum
    BY <1>3
  <2>2. \A i \in Slot : i # history_len => history'[i] = history[i]
    BY <1>3
  <2>3. history'[history_len' - 1] = id /\ history' \in [Slot -> Slot]
    BY <1>3, <2>1
  <2>4. \A i \in 0 .. history_len' - 2 :
          i \in 0 .. history_len - 1 /\ i \in Slot /\ i # history_len
    BY <1>3
  <2>5. QED
    BY <1>3, <2>1, <2>2, <2>3, <2>4
<1>4. QED
  BY <1>1, <1>2, <1>3 DEF OpenHistory, ReplacesTop

\* Opening a page preserves the types.
LEMMA OpenType ==
  ASSUME TypeOK, NEW id \in Slot, NEW a \in Anima, NEW t \in Target,
         NEW m \in BOOLEAN, NEW n \in BOOLEAN, lv_pm_open_page(id, a, t, m, n)
  PROVE  TypeOK'
<1> USE DEF lv_pm_open_page
<1>1. router' \in SUBSET Slot
  BY DEF TypeOK
<1>2. history' \in [Slot -> Slot] /\ history_len' \in 0 .. PageNum
  <2>1. history_len \in 0 .. PageNum - 1 /\ history \in [Slot -> Slot]
    BY DEF TypeOK
  <2>2. QED
    BY <2>1, OpenedHistory
<1>3. options' \in [Slot -> Anima]
  BY DEF TypeOK
<1>4. view' \in [Slot -> PageView]
  <2>1. LeaveTop(a, m) \in [Slot -> PageView]
    BY LeaveTopType
  <2>2. Enter(LeaveTop(a, m)[id], a, n) \in PageView
    BY <2>1, EnterType
  <2>3. QED
    BY <2>1, <2>2
<1>5. QED
  BY <1>1, <1>2, <1>3, <1>4 DEF TypeOK

\* Going back preserves the types.
LEMMA BackType ==
  ASSUME TypeOK, NEW m \in BOOLEAN, NEW n \in BOOLEAN, lv_pm_back(m, n)
  PROVE  TypeOK'
<1> DEFINE top  == history[history_len - 1]
           prev == history[history_len - 2]
           a    == options[top]
           left == [view EXCEPT ![top] = Animate(@, "backDisappear", a, m)]
<1>1. top \in Slot /\ prev \in Slot /\ a \in Anima
  BY DEF lv_pm_back, TypeOK, Slot
<1>2. left \in [Slot -> PageView]
  <2>1. Animate(view[top], "backDisappear", a, m) \in PageView
    BY <1>1, AnimateType DEF TypeOK, Job, LeaveJob
  <2>2. QED
    BY <1>1, <2>1 DEF TypeOK
<1>3. view' \in [Slot -> PageView]
  <2> DEFINE shown == [left[prev] EXCEPT !.hidden = FALSE]
  <2>1. shown \in PageView
    BY <1>1, <1>2, ZenonT(60) DEF PageView
  <2>2. Animate(shown, "backAppear", a, n) \in PageView
    BY <1>1, <2>1, AnimateType DEF Job, ShowJob
  <2>3. view' = [left EXCEPT ![prev] = Animate(shown, "backAppear", a, n)]
    BY <1>1, <1>2 DEF lv_pm_back
  <2>4. QED
    BY <1>1, <1>2, <2>2, <2>3
<1>4. QED
  BY <1>3 DEF lv_pm_back, TypeOK

\* The completion of an animation preserves the types.
LEMMA ReadyType ==
  ASSUME TypeOK, NEW p \in Slot, NEW x \in Axis, anima_ready_cb(p, x)
  PROVE  TypeOK'
<1> DEFINE job  == view[p].anim[x]
           done == [view[p] EXCEPT !.anim[x] = "idle", !.off[x] = EndsOff(job, x)]
<1>1. view[p] \in PageView /\ job \in Job
  BY DEF TypeOK, PageView, anima_ready_cb
<1>2. done \in PageView
  BY <1>1 DEF PageView, EndsOff
<1>3. Complete(done, job, StyleOn(x)) \in PageView
  BY <1>1, <1>2, CompleteType DEF StyleOn, Anima
<1>4. QED
  BY <1>3 DEF anima_ready_cb, TypeOK

\* The actions a step may be.
LEMMA NextCases ==
  ASSUME TypeOK, Next
  PROVE  \/ \E id \in Slot : lv_pm_create_page(id)
         \/ \E id \in Slot, a \in Anima, t \in Target, m, n \in BOOLEAN :
              /\ a \in Styles \cup {options[id]}
              /\ lv_pm_open_page(id, a, t, m, n)
         \/ \E m, n \in BOOLEAN : lv_pm_back(m, n)
         \/ \E p \in Slot, x \in Axis : anima_ready_cb(p, x)
<1>1. ASSUME NEW id \in Pages, Open(id)
      PROVE  \E a \in Anima, t \in Target, m, n \in BOOLEAN :
               /\ a \in Styles \cup {options[id]}
               /\ lv_pm_open_page(id, a, t, m, n)
  <2>1. options[id] \in Anima /\ "reset" \in Target
    BY PagesAssumption DEF TypeOK, Target
  <2>2. QED
    BY <1>1, <2>1, MemoryType, StylesAssumption, PagesAssumption DEF Open
<1>2. ASSUME Back PROVE \E m, n \in BOOLEAN : lv_pm_back(m, n)
  BY <1>2, MemoryType DEF Back
<1>3. QED
  BY <1>1, <1>2, PagesAssumption DEF Next, Ready

\* Type correctness of every client's run of the page manager.
THEOREM TypeCorrect == Spec => []TypeOK
<1>1. Init => TypeOK
  BY DEF Init, TypeOK, Slot, FreshView, PageView, Anima
<1>2. TypeOK /\ [Next]_vars => TypeOK'
  <2> SUFFICES ASSUME TypeOK, [Next]_vars PROVE TypeOK'
    OBVIOUS
  <2>1. CASE UNCHANGED vars
    BY <2>1 DEF vars, TypeOK
  <2>2. CASE Next
    <3>1. ASSUME NEW id \in Slot, lv_pm_create_page(id) PROVE TypeOK'
      BY <3>1 DEF lv_pm_create_page, TypeOK
    <3>2. QED
      BY <2>2, <3>1, NextCases, OpenType, BackType, ReadyType
  <2>3. QED
    BY <2>1, <2>2
<1>3. QED
  BY <1>1, <1>2, PTL DEF Spec

------------------------------------------------------------------------------
(* The history holds created pages only                                    *)

\* A position under the length that is not the top is below the top.
LEMMA BelowTop ==
  ASSUME NEW k \in Int, NEW i \in Nat, i < k, i # k - 1
  PROVE  i \in 0 .. k - 2
OBVIOUS

\* No step puts a page on the history that was not created.
LEMMA HistoryStep ==
  ASSUME TypeOK, HistoryCreated, [Next]_vars
  PROVE  HistoryCreated'
<1>1. CASE UNCHANGED vars
  BY <1>1 DEF vars, HistoryCreated
<1>2. ASSUME NEW id \in Slot, lv_pm_create_page(id) PROVE HistoryCreated'
  BY <1>2 DEF lv_pm_create_page, HistoryCreated
<1>3. ASSUME NEW id \in Slot, NEW a \in Anima, NEW t \in Target,
             NEW m \in BOOLEAN, NEW n \in BOOLEAN, lv_pm_open_page(id, a, t, m, n)
      PROVE  HistoryCreated'
  <2>1. id \in router /\ router' = router /\ OpenHistory(id, t)
    BY <1>3 DEF lv_pm_open_page
  <2>2. history_len \in 0 .. PageNum - 1 /\ history \in [Slot -> Slot]
    BY <1>3 DEF lv_pm_open_page, TypeOK
  <2>3. SUFFICES ASSUME NEW i \in Slot, i < history_len' PROVE history'[i] \in router'
    BY DEF HistoryCreated
  <2>4. CASE i = history_len' - 1
    BY <2>1, <2>2, <2>4, OpenedHistory
  <2>5. CASE i # history_len' - 1
    <3>1. i \in 0 .. history_len' - 2
      <4>1. history_len' \in 1 .. PageNum
        BY <2>1, <2>2, OpenedHistory
      <4>2. i \in Nat /\ history_len' \in Int
        BY <2>3, <4>1 DEF Slot
      <4>3. QED
        BY <2>3, <2>5, <4>2, BelowTop
    <3>2. i < history_len /\ history'[i] = history[i]
      BY <2>1, <2>2, <3>1, OpenedHistory
    <3>3. QED
      BY <2>1, <3>2 DEF HistoryCreated
  <2>6. QED
    BY <2>4, <2>5
<1>4. ASSUME NEW m \in BOOLEAN, NEW n \in BOOLEAN, lv_pm_back(m, n)
      PROVE  HistoryCreated'
  BY <1>4 DEF lv_pm_back, TypeOK, Slot, HistoryCreated
<1>5. ASSUME NEW p \in Slot, NEW x \in Axis, anima_ready_cb(p, x)
      PROVE  HistoryCreated'
  BY <1>5 DEF anima_ready_cb, HistoryCreated
<1>6. QED
  BY <1>1, <1>2, <1>3, <1>4, <1>5, NextCases

\* The entries below history_len are created pages, whatever was opened and
\* however often the client went back: no NULL router entry is followed.
THEOREM HistoryValid == Spec => []HistoryCreated
<1>1. Init => HistoryCreated
  BY DEF Init, HistoryCreated, Slot
<1>2. TypeOK /\ HistoryCreated /\ [Next]_vars => HistoryCreated'
  BY HistoryStep
<1>3. QED
  BY <1>1, <1>2, TypeCorrect, PTL DEF Spec

------------------------------------------------------------------------------
(* Pages that were left are released                                       *)

\* After an open the opened page is the current one, for every target.
LEMMA OpenedIsCurrent ==
  ASSUME TypeOK, NEW id \in Slot, NEW a \in Anima, NEW t \in Target,
         NEW m \in BOOLEAN, NEW n \in BOOLEAN, lv_pm_open_page(id, a, t, m, n)
  PROVE  IsCurrent(id)'
<1>1. history_len \in 0 .. PageNum - 1 /\ history \in [Slot -> Slot]
  BY DEF lv_pm_open_page, TypeOK
<1>2. OpenHistory(id, t)
  BY DEF lv_pm_open_page
<1>3. QED
  BY <1>1, <1>2, OpenedHistory DEF IsCurrent

\* An open touches no page but the one it opens and the one it leaves.
LEMMA OpenOthers ==
  ASSUME TypeOK, NEW id \in Slot, NEW a \in Anima, NEW t \in Target,
         NEW m \in BOOLEAN, NEW n \in BOOLEAN, lv_pm_open_page(id, a, t, m, n),
         NEW p \in Slot, p # id
  PROVE  view'[p] = IF IsCurrent(p) THEN Animate(view[p], "disappear", a, m)
                    ELSE view[p]
<1>1. view'[p] = LeaveTop(a, m)[p]
  BY LeaveTopType DEF lv_pm_open_page
<1>2. CASE history_len = 0
  BY <1>1, <1>2 DEF LeaveTop, IsCurrent
<1>3. CASE history_len # 0
  <2>1. history[history_len - 1] \in Slot /\ history_len > 0
    BY <1>3 DEF TypeOK, Slot
  <2>2. QED
    BY <1>1, <1>3, <2>1 DEF LeaveTop, IsCurrent, TypeOK
<1>4. QED
  BY <1>2, <1>3

\* No step leaves a page loaded with nothing to unload it.
LEMMA ReleaseStep ==
  ASSUME TypeOK, ReleasePolicy, [Next]_vars
  PROVE  ReleasePolicy'
<1> SUFFICES ASSUME NEW p \in Slot, view'[p].loaded
             PROVE  IsCurrent(p)' \/ Leaving(p)'
  BY DEF ReleasePolicy
<1>0. view[p] \in PageView /\ (view[p].loaded => IsCurrent(p) \/ Leaving(p))
  BY DEF TypeOK, ReleasePolicy
<1>1. CASE UNCHANGED vars
  BY <1>0, <1>1 DEF vars, IsCurrent, Leaving
<1>2. ASSUME NEW id \in Slot, lv_pm_create_page(id)
      PROVE  IsCurrent(p)' \/ Leaving(p)'
  BY <1>0, <1>2 DEF lv_pm_create_page, IsCurrent, Leaving
<1>3. ASSUME NEW id \in Slot, NEW a \in Anima, NEW t \in Target,
             NEW m \in BOOLEAN, NEW n \in BOOLEAN, lv_pm_open_page(id, a, t, m, n)
      PROVE  IsCurrent(p)' \/ Leaving(p)'
  <2>1. CASE p = id
    BY <1>3, <2>1, OpenedIsCurrent
  <2>2. CASE p # id /\ IsCurrent(p)
    <3>1. view'[p] = Animate(view[p], "disappear", a, m)
      BY <1>3, <2>2, OpenOthers
    <3>2. QED
      BY <1>0, <3>1, LeaveReleases DEF Leaving, LeaveJob
  <2>3. CASE p # id /\ ~IsCurrent(p)
    <3>1. view'[p] = view[p]
      BY <1>3, <2>3, OpenOthers
    <3>2. QED
      BY <1>0, <2>3, <3>1 DEF Leaving
  <2>4. QED
    BY <2>1, <2>2, <2>3
<1>4. ASSUME NEW m \in BOOLEAN, NEW n \in BOOLEAN, lv_pm_back(m, n)
      PROVE  IsCurrent(p)' \/ Leaving(p)'
  <2> DEFINE top  == history[history_len - 1]
             prev == history[history_len - 2]
             w    == Animate(view[top], "backDisappear", options[top], m)
             left == [view EXCEPT ![top] = w]
  <2>1. /\ history_len \in 2 .. PageNum /\ history_len' = history_len - 1
        /\ history' = history /\ history \in [Slot -> Slot]
        /\ top \in Slot /\ prev \in Slot /\ options[top] \in Anima
    BY <1>4 DEF lv_pm_back, TypeOK, Slot
  <2>2. p = prev => IsCurrent(p)'
    BY <2>1 DEF IsCurrent
  <2>3. CASE p # prev
    <3>1. view'[p] = left[p]
      BY <1>4, <2>1, <2>3 DEF lv_pm_back, TypeOK
    <3>2. CASE p = top
      <4>1. view'[p] = w
        BY <2>1, <3>1, <3>2 DEF TypeOK
      <4>2. QED
        BY <1>0, <2>1, <3>2, <4>1, LeaveReleases DEF Leaving, LeaveJob
    <3>3. CASE p # top
      <4>1. view'[p] = view[p] /\ ~IsCurrent(p)
        BY <2>1, <3>1, <3>3 DEF TypeOK, IsCurrent
      <4>2. QED
        BY <1>0, <4>1 DEF Leaving
    <3>4. QED
      BY <3>2, <3>3
  <2>4. QED
    BY <2>2, <2>3
<1>5. ASSUME NEW q \in Slot, NEW x \in Axis, anima_ready_cb(q, x)
      PROVE  IsCurrent(p)' \/ Leaving(p)'
  <2> DEFINE job  == view[q].anim[x]
             done == [view[q] EXCEPT !.anim[x] = "idle", !.off[x] = EndsOff(job, x)]
  <2>1. UNCHANGED <<history, history_len>>
    BY <1>5 DEF anima_ready_cb
  <2>2. CASE p # q
    <3>1. view'[p] = view[p]
      BY <1>5, <2>2 DEF anima_ready_cb, TypeOK
    <3>2. QED
      BY <1>0, <2>1, <3>1 DEF IsCurrent, Leaving
  <2>3. CASE p = q
    <3>1. view'[p] = Complete(done, job, StyleOn(x))
      BY <1>5, <2>3 DEF anima_ready_cb, TypeOK
    <3>2. done \in PageView
      BY <1>0, <2>3 DEF PageView, EndsOff
    <3>3. job \notin LeaveJob
      BY <3>1, <3>2 DEF Complete, PageView
    <3>4. view'[p] = done
      BY <3>1, <3>3 DEF Complete
    <3>5. \A y \in Axis : view[p].anim[y] \in LeaveJob => view'[p].anim[y] \in LeaveJob
      BY <1>0, <2>3, <3>3, <3>4 DEF PageView
    <3>6. view[p].loaded
      BY <1>0, <2>3, <3>4 DEF PageView
    <3>7. QED
      BY <1>0, <2>1, <3>5, <3>6 DEF IsCurrent, Leaving
  <2>4. QED
    BY <2>2, <2>3
<1>6. QED
  BY <1>1, <1>2, <1>3, <1>4, <1>5, NextCases

\* A page keeps its widgets after it was left only while an animation that
\* unloads it is running, whatever transitions were mixed or cut short.
THEOREM ReleaseCorrect == Spec => []ReleasePolicy
<1>1. Init => ReleasePolicy
  BY DEF Init, ReleasePolicy, FreshView
<1>2. TypeOK /\ ReleasePolicy /\ [Next]_vars => ReleasePolicy'
  BY ReleaseStep
<1>3. QED
  BY <1>1, <1>2, TypeCorrect, PTL DEF Spec

------------------------------------------------------------------------------
(* Without popups, pages that were left are hidden                         *)

\* What an open makes of the page it opens.
LEMMA OpenedView ==
  ASSUME TypeOK, NEW id \in Slot, NEW a \in Anima, NEW t \in Target,
         NEW m \in BOOLEAN, NEW n \in BOOLEAN, lv_pm_open_page(id, a, t, m, n)
  PROVE  view'[id] = Enter(IF IsCurrent(id) THEN Animate(view[id], "disappear", a, m)
                           ELSE view[id], a, n)
<1>1. view'[id] = Enter(LeaveTop(a, m)[id], a, n)
  BY LeaveTopType DEF lv_pm_open_page
<1>2. CASE history_len = 0
  BY <1>1, <1>2 DEF LeaveTop, IsCurrent
<1>3. CASE history_len # 0
  <2>1. history[history_len - 1] \in Slot /\ history_len > 0
    BY <1>3 DEF TypeOK, Slot
  <2>2. LeaveTop(a, m)[id] = IF IsCurrent(id) THEN Animate(view[id], "disappear", a, m)
                             ELSE view[id]
    BY <1>3, <2>1 DEF LeaveTop, IsCurrent, TypeOK
  <2>3. QED
    BY <1>1, <2>2
<1>4. QED
  BY <1>2, <1>3

\* What going back makes of every page: the one on top leaves, and then the
\* one below it, which may be the same, is shown.
LEMMA BackViews ==
  ASSUME TypeOK, NEW m \in BOOLEAN, NEW n \in BOOLEAN, lv_pm_back(m, n), NEW p \in Slot
  PROVE  LET top  == history[history_len - 1]
             a    == options[top]
             left == IF p = top THEN Animate(view[p], "backDisappear", a, m) ELSE view[p]
         IN /\ top \in Slot /\ a \in Anima
            /\ left \in PageView
            /\ view'[p] = IF IsCurrent(p)'
                          THEN Animate([left EXCEPT !.hidden = FALSE], "backAppear", a, n)
                          ELSE left
<1> DEFINE top  == history[history_len - 1]
           prev == history[history_len - 2]
           a    == options[top]
           w    == Animate(view[top], "backDisappear", a, m)
           all  == [view EXCEPT ![top] = w]
<1>1. top \in Slot /\ prev \in Slot /\ a \in Anima
  BY DEF lv_pm_back, TypeOK, Slot
<1>2. w \in PageView
  BY <1>1, AnimateType DEF TypeOK, Job, LeaveJob
<1>3. all \in [Slot -> PageView]
  BY <1>1, <1>2 DEF TypeOK
<1>4. IsCurrent(p)' <=> p = prev
  BY DEF lv_pm_back, TypeOK, IsCurrent
<1>5. view'[p] = IF p = prev
                 THEN Animate([all[p] EXCEPT !.hidden = FALSE], "backAppear", a, n)
                 ELSE all[p]
  <2>1. view' = [all EXCEPT ![prev] =
                   Animate([all[prev] EXCEPT !.hidden = FALSE], "backAppear", a, n)]
    BY <1>1, <1>3 DEF lv_pm_back
  <2>2. QED
    BY <1>1, <1>3, <2>1
<1>6. all[p] = IF p = top THEN Animate(view[p], "backDisappear", a, m) ELSE view[p]
  BY <1>1 DEF TypeOK
<1>7. QED
  BY <1>1, <1>3, <1>4, <1>5, <1>6

\* A client that uses no popup meets none, and no page moves on its y axis.
NoPopup ==
  "popup" \notin Styles =>
     \A p \in Slot : options[p] # "popup" /\ view[p].anim["y"] = "idle"

\* A transition that is no popup does not move its page on the y axis.
LEMMA StaysOffY ==
  ASSUME NEW v \in PageView, NEW job \in Job, NEW a \in Anima, a # "popup",
         NEW mem \in BOOLEAN, v.anim["y"] = "idle"
  PROVE  Animate(v, job, a, mem).anim["y"] = "idle"
<1>1. CASE Animated(a) /\ mem
  BY <1>1 DEF Animate, Animated, AxisOf, StartAnim, PageView, Axis
<1>2. CASE ~(Animated(a) /\ mem)
  BY <1>2 DEF Animate, Complete, PageView
<1>3. QED
  BY <1>1, <1>2

\* No step of a client without popups brings one in.
LEMMA PopupStep ==
  ASSUME TypeOK, NoPopup, [Next]_vars
  PROVE  NoPopup'
<1> SUFFICES ASSUME "popup" \notin Styles, NEW p \in Slot
             PROVE  options'[p] # "popup" /\ view'[p].anim["y"] = "idle"
  BY DEF NoPopup
<1>0. options[p] # "popup" /\ view[p].anim["y"] = "idle" /\ view[p] \in PageView
  BY DEF NoPopup, TypeOK
<1>1. CASE UNCHANGED vars
  BY <1>0, <1>1 DEF vars
<1>2. ASSUME NEW id \in Slot, lv_pm_create_page(id)
      PROVE  options'[p] # "popup" /\ view'[p].anim["y"] = "idle"
  BY <1>0, <1>2 DEF lv_pm_create_page
<1>3. ASSUME NEW id \in Slot, NEW a \in Anima, NEW t \in Target,
             NEW m \in BOOLEAN, NEW n \in BOOLEAN, a \in Styles \cup {options[id]},
             lv_pm_open_page(id, a, t, m, n)
      PROVE  options'[p] # "popup" /\ view'[p].anim["y"] = "idle"
  <2>1. a # "popup"
    BY <1>3 DEF NoPopup
  <2>2. options'[p] # "popup"
    BY <1>0, <1>3, <2>1 DEF lv_pm_open_page, TypeOK
  <2>3. LET w == Animate(view[p], "disappear", a, m)
        IN w \in PageView /\ w.anim["y"] = "idle"
    BY <1>0, <2>1, AnimateType, StaysOffY DEF Job, LeaveJob
  <2>4. CASE p # id
    BY <1>0, <1>3, <2>2, <2>3, <2>4, OpenOthers
  <2>5. CASE p = id
    <3> DEFINE v == IF IsCurrent(p) THEN Animate(view[p], "disappear", a, m) ELSE view[p]
               u == [v EXCEPT !.loaded = TRUE, !.hidden = FALSE]
    <3>1. v \in PageView /\ v.anim["y"] = "idle"
      BY <1>0, <2>3
    <3>2. u \in PageView /\ u.anim["y"] = "idle"
      BY <3>1 DEF PageView
    <3>3. view'[p] = Animate(u, "appear", a, n)
      BY <1>3, <2>5, OpenedView, ZenonT(60) DEF Enter
    <3>4. Animate(u, "appear", a, n).anim["y"] = "idle"
      <4> HIDE DEF u
      <4>1. "appear" \in Job
        BY DEF Job, ShowJob
      <4>2. QED
        BY <2>1, <3>2, <4>1, StaysOffY
    <3>5. QED
      BY <2>2, <3>3, <3>4
  <2>6. QED
    BY <2>4, <2>5
<1>4. ASSUME NEW m \in BOOLEAN, NEW n \in BOOLEAN, lv_pm_back(m, n)
      PROVE  options'[p] # "popup" /\ view'[p].anim["y"] = "idle"
  <2> DEFINE top  == history[history_len - 1]
             a    == options[top]
             left == IF p = top THEN Animate(view[p], "backDisappear", a, m) ELSE view[p]
             u    == [left EXCEPT !.hidden = FALSE]
  <2>1. /\ top \in Slot /\ a \in Anima /\ left \in PageView
        /\ view'[p] = IF IsCurrent(p)' THEN Animate(u, "backAppear", a, n) ELSE left
    BY <1>4, BackViews
  <2>2. a # "popup"
    BY <2>1 DEF NoPopup
  <2>3. left.anim["y"] = "idle"
    BY <1>0, <2>1, <2>2, StaysOffY DEF Job, LeaveJob
  <2>4. u \in PageView /\ u.anim["y"] = "idle"
    BY <2>1, <2>3 DEF PageView
  <2>5. Animate(u, "backAppear", a, n).anim["y"] = "idle"
    <3>1. "backAppear" \in Job
      BY DEF Job, ShowJob
    <3> HIDE DEF u, a
    <3>2. QED
      BY <2>1, <2>2, <2>4, <3>1, StaysOffY
  <2>6. options' = options
    BY <1>4 DEF lv_pm_back
  <2>7. QED
    BY <1>0, <2>1, <2>3, <2>5, <2>6
<1>5. ASSUME NEW q \in Slot, NEW x \in Axis, anima_ready_cb(q, x)
      PROVE  options'[p] # "popup" /\ view'[p].anim["y"] = "idle"
  <2>1. CASE p # q
    BY <1>0, <1>5, <2>1 DEF anima_ready_cb, TypeOK
  <2>2. CASE p = q
    <3> DEFINE done == [view[p] EXCEPT !.anim[x] = "idle",
                                       !.off[x] = EndsOff(view[p].anim[x], x)]
    <3>1. done \in PageView /\ done.anim["y"] = "idle"
      BY <1>0 DEF PageView, EndsOff, Axis
    <3>2. view'[p] = Complete(done, view[p].anim[x], StyleOn(x))
      BY <1>5, <2>2 DEF anima_ready_cb, TypeOK
    <3>3. view'[p].anim["y"] = "idle"
      BY <3>1, <3>2 DEF Complete, PageView
    <3>4. QED
      BY <1>0, <1>5, <3>3 DEF anima_ready_cb
  <2>3. QED
    BY <2>1, <2>2
<1>6. QED
  BY <1>1, <1>2, <1>3, <1>4, <1>5, NextCases

\* NoPopup holds in every run.
LEMMA PopupFree == Spec => []NoPopup
<1>1. Init => NoPopup
  BY DEF Init, NoPopup, FreshView, Axis
<1>2. TypeOK /\ NoPopup /\ [Next]_vars => NoPopup'
  BY PopupStep
<1>3. QED
  BY <1>1, <1>2, TypeCorrect, PTL DEF Spec

\* A page asked to leave without a popup is hidden at once or animated out.
LEMMA LeaveHides ==
  ASSUME NEW v \in PageView, NEW job \in LeaveJob, NEW a \in Anima, a # "popup",
         NEW mem \in BOOLEAN
  PROVE  LET w == Animate(v, job, a, mem)
         IN w.hidden \/ \E x \in Axis : w.anim[x] \in LeaveJob
<1> DEFINE w == Animate(v, job, a, mem)
<1>1. AxisOf(a) \in Axis
  BY DEF AxisOf, Axis
<1>2. CASE Animated(a) /\ mem
  <2>1. w.anim[AxisOf(a)] = job
    BY <1>1, <1>2 DEF Animate, StartAnim, PageView
  <2>2. QED
    BY <1>1, <2>1
<1>3. CASE ~(Animated(a) /\ mem)
  BY <1>3 DEF Animate, Complete, PageView
<1>4. QED
  BY <1>2, <1>3

\* No step leaves a page visible with nothing to hide it.
LEMMA HiddenStep ==
  ASSUME TypeOK, NoPopup, LeftPagesHidden, [Next]_vars
  PROVE  LeftPagesHidden'
<1> SUFFICES ASSUME "popup" \notin Styles, NEW p \in Slot, ~view'[p].hidden
             PROVE  IsCurrent(p)' \/ Leaving(p)'
  BY DEF LeftPagesHidden
<1>0. view[p] \in PageView /\ (view[p].hidden \/ IsCurrent(p) \/ Leaving(p))
  BY DEF TypeOK, LeftPagesHidden
<1>1. CASE UNCHANGED vars
  BY <1>0, <1>1 DEF vars, IsCurrent, Leaving
<1>2. ASSUME NEW id \in Slot, lv_pm_create_page(id)
      PROVE  IsCurrent(p)' \/ Leaving(p)'
  BY <1>0, <1>2 DEF lv_pm_create_page, IsCurrent, Leaving
<1>3. ASSUME NEW id \in Slot, NEW a \in Anima, NEW t \in Target,
             NEW m \in BOOLEAN, NEW n \in BOOLEAN, a \in Styles \cup {options[id]},
             lv_pm_open_page(id, a, t, m, n)
      PROVE  IsCurrent(p)' \/ Leaving(p)'
  <2>1. CASE p = id
    BY <1>3, <2>1, OpenedIsCurrent
  <2>2. CASE p # id /\ IsCurrent(p)
    <3>1. view'[p] = Animate(view[p], "disappear", a, m)
      BY <1>3, <2>2, OpenOthers
    <3>2. a # "popup"
      BY <1>3 DEF NoPopup
    <3>3. QED
      BY <1>0, <3>1, <3>2, LeaveHides DEF Leaving, LeaveJob
  <2>3. CASE p # id /\ ~IsCurrent(p)
    <3>1. view'[p] = view[p]
      BY <1>3, <2>3, OpenOthers
    <3>2. QED
      BY <1>0, <2>3, <3>1 DEF Leaving
  <2>4. QED
    BY <2>1, <2>2, <2>3
<1>4. ASSUME NEW m \in BOOLEAN, NEW n \in BOOLEAN, lv_pm_back(m, n), ~IsCurrent(p)'
      PROVE  Leaving(p)'
  <2> DEFINE top  == history[history_len - 1]
             left == IF p = top THEN Animate(view[p], "backDisappear", options[top], m)
                     ELSE view[p]
  <2>1. top \in Slot /\ options[top] \in Anima /\ view'[p] = left
    BY <1>4, BackViews
  <2>2. options[top] # "popup"
    BY <2>1 DEF NoPopup
  <2>3. CASE p = top
    BY <1>0, <2>1, <2>2, <2>3, LeaveHides DEF Leaving, LeaveJob
  <2>4. CASE p # top
    BY <1>0, <2>1, <2>4 DEF Leaving, IsCurrent
  <2>5. QED
    BY <2>3, <2>4
<1>5. ASSUME NEW q \in Slot, NEW x \in Axis, anima_ready_cb(q, x)
      PROVE  IsCurrent(p)' \/ Leaving(p)'
  <2> DEFINE job  == view[q].anim[x]
             done == [view[q] EXCEPT !.anim[x] = "idle", !.off[x] = EndsOff(job, x)]
  <2>1. UNCHANGED <<history, history_len>>
    BY <1>5 DEF anima_ready_cb
  <2>2. CASE p # q
    <3>1. view'[p] = view[p]
      BY <1>5, <2>2 DEF anima_ready_cb, TypeOK
    <3>2. QED
      BY <1>0, <2>1, <3>1 DEF IsCurrent, Leaving
  <2>3. CASE p = q
    <3>1. view'[p] = Complete(done, job, StyleOn(x))
      BY <1>5, <2>3 DEF anima_ready_cb, TypeOK
    <3>2. done \in PageView
      BY <1>0, <2>3 DEF PageView, EndsOff
    <3>3. StyleOn(x) # "popup"
      BY <1>5 DEF anima_ready_cb, NoPopup, StyleOn, Axis
    <3>4. job \notin LeaveJob
      BY <3>1, <3>2, <3>3 DEF Complete, PageView
    <3>5. view'[p] = done
      BY <3>1, <3>4 DEF Complete
    <3>6. \A y \in Axis : view[p].anim[y] \in LeaveJob => view'[p].anim[y] \in LeaveJob
      BY <1>0, <2>3, <3>4, <3>5 DEF PageView
    <3>7. ~view[p].hidden
      BY <1>0, <2>3, <3>5 DEF PageView
    <3>8. QED
      BY <1>0, <2>1, <3>6, <3>7 DEF IsCurrent, Leaving
  <2>4. QED
    BY <2>2, <2>3
<1>6. QED
  BY <1>1, <1>2, <1>3, <1>4, <1>5, NextCases

\* Without popups a page that is neither current nor leaving is hidden,
\* whatever transitions were mixed or cut short.
THEOREM LeftHidden == Spec => []LeftPagesHidden
<1>1. Init => LeftPagesHidden
  BY DEF Init, LeftPagesHidden, FreshView
<1>2. TypeOK /\ NoPopup /\ LeftPagesHidden /\ [Next]_vars => LeftPagesHidden'
  BY HiddenStep
<1>3. QED
  BY <1>1, <1>2, TypeCorrect, PopupFree, PTL DEF Spec

------------------------------------------------------------------------------
(* The page manager implements the navigation stack                        *)

\* The part of the array in use is a sequence of pages.
LEMMA StackSeq ==
  ASSUME NEW h \in [Slot -> Slot], NEW n \in 0 .. PageNum
  PROVE  /\ Stack(h, n) \in Seq(Slot)
         /\ Len(Stack(h, n)) = n
         /\ \A i \in 1 .. n : Stack(h, n)[i] = h[i - 1]
<1>1. \A i \in 1 .. n : h[i - 1] \in Slot
  BY DEF Slot
<1>2. QED
  BY <1>1 DEF Stack

\* Writing the entry above the top and counting it is a push.
LEMMA StackPush ==
  ASSUME NEW h \in [Slot -> Slot], NEW g \in [Slot -> Slot],
         NEW n \in 0 .. PageNum - 1, NEW id \in Slot,
         \A i \in 0 .. n - 1 : g[i] = h[i], g[n] = id
  PROVE  Stack(g, n + 1) = Append(Stack(h, n), id)
<1> DEFINE s == Stack(g, n + 1)
           t == Append(Stack(h, n), id)
<1>1. s \in Seq(Slot) /\ Len(s) = n + 1 /\ \A i \in 1 .. n + 1 : s[i] = g[i - 1]
  <2>1. n + 1 \in 0 .. PageNum
    OBVIOUS
  <2>2. QED
    BY <2>1, StackSeq
<1>2. Stack(h, n) \in Seq(Slot) /\ Len(Stack(h, n)) = n
      /\ \A i \in 1 .. n : Stack(h, n)[i] = h[i - 1]
  BY StackSeq
<1>3. t \in Seq(Slot) /\ Len(t) = n + 1
      /\ \A i \in 1 .. n + 1 : t[i] = IF i <= n THEN h[i - 1] ELSE id
  BY <1>2
<1> HIDE DEF s, t
<1>4. \A i \in 1 .. Len(s) : s[i] = t[i]
  <2>1. SUFFICES ASSUME NEW i \in 1 .. n + 1 PROVE s[i] = t[i]
    BY <1>1
  <2>2. CASE i = n + 1
    BY <1>1, <1>3, <2>2
  <2>3. CASE i # n + 1
    <3>1. i <= n /\ i - 1 \in 0 .. n - 1
      BY <2>3
    <3>2. QED
      BY <1>1, <1>3, <3>1
  <2>4. QED
    BY <2>2, <2>3
<1>5. s = t
  BY <1>1, <1>3, <1>4, SeqEqual
<1>6. QED
  BY <1>5 DEF s, t

\* Writing the top is a replacement of the last element.
LEMMA StackReplace ==
  ASSUME NEW h \in [Slot -> Slot], NEW g \in [Slot -> Slot],
         NEW n \in 1 .. PageNum, NEW id \in Slot,
         \A i \in 0 .. n - 2 : g[i] = h[i], g[n - 1] = id
  PROVE  Stack(g, n) = [Stack(h, n) EXCEPT ![n] = id]
<1> DEFINE s == Stack(g, n)
           t == [Stack(h, n) EXCEPT ![n] = id]
<1>1. s \in Seq(Slot) /\ Len(s) = n /\ \A i \in 1 .. n : s[i] = g[i - 1]
  BY StackSeq
<1>2. Stack(h, n) \in Seq(Slot) /\ Len(Stack(h, n)) = n
      /\ \A i \in 1 .. n : Stack(h, n)[i] = h[i - 1]
  BY StackSeq
<1>3. t \in Seq(Slot) /\ Len(t) = n
      /\ \A i \in 1 .. n : t[i] = IF i = n THEN id ELSE h[i - 1]
  BY <1>2, ExceptSeq
<1> HIDE DEF s, t
<1>4. \A i \in 1 .. n : s[i] = t[i]
  <2>1. SUFFICES ASSUME NEW i \in 1 .. n PROVE s[i] = t[i]
    OBVIOUS
  <2>2. CASE i = n
    BY <1>1, <1>3, <2>2
  <2>3. CASE i # n
    <3>1. i - 1 \in 0 .. n - 2
      BY <2>3
    <3>2. QED
      BY <1>1, <1>3, <2>3, <3>1
  <2>4. QED
    BY <2>2, <2>3
<1>5. s = t
  BY <1>1, <1>3, <1>4, SeqEqual
<1>6. QED
  BY <1>5 DEF s, t

\* Counting one entry less is a pop.
LEMMA StackPop ==
  ASSUME NEW h \in [Slot -> Slot], NEW n \in 2 .. PageNum
  PROVE  Stack(h, n - 1) = SubSeq(Stack(h, n), 1, n - 1)
<1> DEFINE s == Stack(h, n - 1)
           t == SubSeq(Stack(h, n), 1, n - 1)
<1>1. s \in Seq(Slot) /\ Len(s) = n - 1 /\ \A i \in 1 .. n - 1 : s[i] = h[i - 1]
  <2>1. n - 1 \in 0 .. PageNum
    OBVIOUS
  <2>2. QED
    BY <2>1, StackSeq
<1>2. Stack(h, n) \in Seq(Slot) /\ Len(Stack(h, n)) = n
      /\ \A i \in 1 .. n : Stack(h, n)[i] = h[i - 1]
  BY StackSeq
<1>3. t \in Seq(Slot) /\ Len(t) = n - 1
      /\ \A i \in 1 .. n - 1 : t[i] = h[i - 1]
  BY <1>2
<1> HIDE DEF s, t
<1>4. s = t
  BY <1>1, <1>3, SeqEqual
<1>5. QED
  BY <1>4 DEF s, t

\* Every open is a push or a replacement of the abstract stack.
LEMMA OpenNavigates ==
  ASSUME NEW id \in Slot, NEW t \in Target, OpenHistory(id, t),
         history_len \in 0 .. PageNum - 1, history \in [Slot -> Slot]
  PROVE  Nav!Push(id) \/ Nav!Replace(id)
<1>1. Len(Stack(history, history_len)) = history_len
  BY StackSeq
<1>2. CASE history_len' = history_len
  <2>1. history_len \in 1 .. PageNum
    BY <1>2, OpenedHistory
  <2>2. Stack(history', history_len) = [Stack(history, history_len) EXCEPT ![history_len] = id]
    BY <1>2, <2>1, OpenedHistory, StackReplace
  <2>3. QED
    BY <1>1, <1>2, <2>1, <2>2 DEF Nav!Replace
<1>3. CASE history_len' = history_len + 1
  <2>1. \A i \in 0 .. history_len - 1 : history'[i] = history[i]
    BY <1>3, OpenedHistory
  <2>2. history'[history_len] = id /\ history' \in [Slot -> Slot]
    BY <1>3, OpenedHistory
  <2>3. Stack(history', history_len + 1) = Append(Stack(history, history_len), id)
    BY <2>1, <2>2, StackPush
  <2>4. QED
    BY <1>1, <1>3, <2>3 DEF Nav!Push
<1>4. QED
  BY <1>2, <1>3, OpenedHistory

\* What the client of any run sees is the bounded navigation stack, one stack
\* operation for each open and back, none for the completion of an animation.
THEOREM Navigation == Spec => NavSpec
<1>1. Init => Nav!Init
  BY DEF Init, Nav!Init, Stack
<1>2. TypeOK /\ [Next]_vars => [Nav!Next]_(Stack(history, history_len))
  <2> SUFFICES ASSUME TypeOK, [Next]_vars
               PROVE  Nav!Next \/ UNCHANGED <<history, history_len>>
    OBVIOUS
  <2>1. CASE UNCHANGED vars
    BY <2>1 DEF vars
  <2>2. ASSUME NEW id \in Slot, lv_pm_create_page(id)
        PROVE  UNCHANGED <<history, history_len>>
    BY <2>2 DEF lv_pm_create_page
  <2>3. ASSUME NEW id \in Slot, NEW a \in Anima, NEW t \in Target,
               NEW m \in BOOLEAN, NEW n \in BOOLEAN, lv_pm_open_page(id, a, t, m, n)
        PROVE  Nav!Next
    <3>1. /\ OpenHistory(id, t)
          /\ history_len \in 0 .. PageNum - 1 /\ history \in [Slot -> Slot]
      BY <2>3 DEF lv_pm_open_page, TypeOK
    <3>2. QED
      BY <3>1, OpenNavigates DEF Nav!Next
  <2>4. ASSUME NEW m \in BOOLEAN, NEW n \in BOOLEAN, lv_pm_back(m, n)
        PROVE  Nav!Pop
    <3>1. /\ history_len \in 2 .. PageNum /\ history \in [Slot -> Slot]
          /\ history' = history /\ history_len' = history_len - 1
      BY <2>4 DEF lv_pm_back, TypeOK
    <3>2. Len(Stack(history, history_len)) = history_len
      BY <3>1, StackSeq
    <3>3. Stack(history, history_len - 1)
            = SubSeq(Stack(history, history_len), 1, history_len - 1)
      BY <3>1, StackPop
    <3>4. QED
      BY <3>1, <3>2, <3>3 DEF Nav!Pop
  <2>5. ASSUME NEW p \in Slot, NEW x \in Axis, anima_ready_cb(p, x)
        PROVE  UNCHANGED <<history, history_len>>
    BY <2>5 DEF anima_ready_cb
  <2>6. QED
    BY <2>1, <2>2, <2>3, <2>4, <2>5, NextCases DEF Nav!Next
<1>3. QED
  BY <1>1, <1>2, TypeCorrect, PTL DEF Spec, NavSpec, Nav!Spec
==============================================================================
