------------------------------- MODULE PmGuard -------------------------------
(***************************************************************************)
(* The page manager driven through the checks of _pm_async_cb in           *)
(* src/lvgl_app/lvgl_app.c: a page is opened only if it is not already the *)
(* current one and no animation is running, and a back is made only if     *)
(* there is a previous page and no animation is running.  The client of    *)
(* GuardSpec makes such opens only; PmApp goes back as well.               *)
(***************************************************************************)
EXTENDS PageManager

\* Mutant of GuardedOpen: a running animation does not refuse the request.
GuardedOpenNoBusyCheck(id, a, t) ==
  /\ ~IsCurrent(id)
  /\ \E memLeave, memShow \in Memory(a) : lv_pm_open_page(id, a, t, memLeave, memShow)

GuardedOpen(id, a, t) ==
  /\ ~IsCurrent(id)          \* else "already on page"
  /\ Idle                    \* else "pm_open busy (animation running)"
  /\ \E memLeave, memShow \in Memory(a) : lv_pm_open_page(id, a, t, memLeave, memShow)

GuardedBack ==
  /\ Idle                    \* else "pm_back busy (animation running)"
  /\ Back

GuardNext ==
  \/ \E id \in Pages : lv_pm_create_page(id)
  \/ \E id \in Pages, a \in Styles, t \in Target : GuardedOpen(id, a, t)
  \/ Ready

GuardSpec     == Init /\ [][GuardNext]_vars
GuardFairSpec == GuardSpec /\ Fairness

------------------------------------------------------------------------------
(* Properties                                                              *)

\* The current page is visible, and no transition that began while another
\* page was current is about to hide and unload it.
CurrentVisible ==
  \A p \in Slot : IsCurrent(p) => ~view[p].hidden /\ ~Leaving(p)

\* Under a client that opens pages with the checks, in any order and with any
\* animations, the current page has its widgets too.  (After a back it would
\* not: lv_pm_back shows the page below without calling its onLoad.)
CurrentShown ==
  /\ CurrentVisible
  /\ \A p \in Slot : IsCurrent(p) => view[p].loaded

\* When everything has settled the current page is where it can be seen.  It
\* takes a client that always slides or never does, and memory for every
\* animation: a page that slid out is not moved back by an open without one.
CurrentOnScreen ==
  Idle => \A p \in Slot, x \in Axis : IsCurrent(p) => ~view[p].off[x]

\* "busy" is not for ever: every transition comes to an end, so a request can
\* be refused only while one that was accepted before it is being shown.
BusyClears == ~Idle ~> Idle
==============================================================================
