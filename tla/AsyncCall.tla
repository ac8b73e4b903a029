------------------------------ MODULE AsyncCall ------------------------------
(***************************************************************************)
(* lv_async_call made by the shell thread (cmd_pm_open and cmd_pm_back of  *)
(* lvgl_app.c) while the LVGL thread runs lv_timer_handler.  Both threads  *)
(* have priority 20 (rtconfig.h), so the scheduler switches between them   *)
(* at any point, and neither holds a lock: an action makes one access to   *)
(* what they share, or several reads that have the same outcomes apart.    *)
(* The shell thread makes one call after the other, call c with a timer    *)
(* and an info of its own: the allocator never gives freed memory to a     *)
(* later call, which could only add outcomes to those of freed memory.     *)
(***************************************************************************)
EXTENDS Integers

CONSTANT MaxCalls   \* bound: the calls the shell thread makes

Call == 1 .. MaxCalls
Node == 0 .. MaxCalls   \* nodes of the timer list; 0 is the first of LVGL's own
NULL == -1

\* The fields of a timer in the order they are written.  With a period of 0
\* a timer is due whatever last_run holds.
Field == [period |-> 1, timer_cb |-> 2, repeat_count |-> 3, paused |-> 4, user_data |-> 5]

\* What an lv_async_info_t holds, and so what the LVGL thread may call.
Info == {"none", "blank", "cb", "set", "freed"}

VARIABLES
  shell,    \* where the shell thread is in lv_async_call, and in which call
  lvgl,     \* where the LVGL thread is in lv_timer_handler: its act and next,
            \* original_repeat_count and exec of lv_timer_exec
  head, next, prev,   \* the timer list
  filled,   \* how many fields of each timer have been written
  repeat,   \* the repeat_count of each timer
  freed,    \* the timers that were freed
  info,     \* the lv_async_info_t of each call
  created, deleted,   \* timer_created, timer_deleted
  ran       \* what the LVGL thread has called for each call

list  == <<head, next, prev>>
timer == <<filled, repeat, freed>>
vars  == <<shell, lvgl, list, timer, info, created, deleted, ran>>

Init ==
  /\ shell = [at |-> "idle", call |-> 0]
  /\ lvgl = [at |-> "idle", act |-> 0, next |-> NULL, original |-> 0, exec |-> FALSE]
  /\ head = 0 /\ next = [n \in Node |-> NULL] /\ prev = [n \in Node |-> NULL]
  /\ filled = [c \in Call |-> 0] /\ repeat = [c \in Call |-> 0] /\ freed = {}
  /\ info = [c \in Call |-> "none"]
  /\ created = FALSE /\ deleted = FALSE
  /\ ran = [c \in Call |-> {}]

------------------------------------------------------------------------------
(* lv_async_call in the shell thread                                       *)

ShellAt(pos, to) == shell.at = pos /\ shell' = [shell EXCEPT !.at = to]

\* info = lv_mem_alloc(...): memory holds anything until it is written.
AllocInfo ==
  /\ shell.at = "idle" /\ shell.call < MaxCalls
  /\ shell' = [at |-> "alloc", call |-> shell.call + 1]
  /\ info' = [info EXCEPT ![shell.call + 1] = "blank"]
  /\ UNCHANGED <<lvgl, list, timer, created, deleted, ran>>

\* lv_timer_create, _lv_ll_ins_head: a blank timer points to the old head, ...
AllocTimer ==
  /\ ShellAt("alloc", "prev")
  /\ next' = [next EXCEPT ![shell.call] = head]
  /\ prev' = [prev EXCEPT ![shell.call] = NULL]
  /\ \E blank \in -1 .. 1 : repeat' = [repeat EXCEPT ![shell.call] = blank]
  /\ UNCHANGED <<lvgl, head, filled, freed, info, created, deleted, ran>>

\* ... the old head points back to it, ...
SetPrev ==
  /\ ShellAt("prev", "head")
  /\ prev' = [prev EXCEPT ![head] = shell.call]
  /\ UNCHANGED <<lvgl, head, next, timer, info, created, deleted, ran>>

\* ... and it is the new head, still blank.
SetHead ==
  /\ ShellAt("head", "timer")
  /\ head' = shell.call
  /\ UNCHANGED <<lvgl, next, prev, timer, info, created, deleted, ran>>

\* lv_timer_create writes the next field.
FillTimer ==
  LET c == shell.call
      n == filled[c] + 1 IN
    /\ ShellAt("timer", IF n = Field.user_data THEN "created" ELSE "timer")
    /\ filled' = [filled EXCEPT ![c] = n]
    /\ repeat' = IF n = Field.repeat_count THEN [repeat EXCEPT ![c] = -1] ELSE repeat
    /\ UNCHANGED <<lvgl, list, freed, info, created, deleted, ran>>

SetCreated ==
  /\ ShellAt("created", "info")
  /\ created' = TRUE
  /\ UNCHANGED <<lvgl, list, timer, info, deleted, ran>>

\* info->cb = async_xcb; info->user_data = user_data
FillInfo ==
  LET c == shell.call IN
    /\ \/ ShellAt("info", "data") /\ info' = [info EXCEPT ![c] = IF @ = "freed" THEN @ ELSE "cb"]
       \/ ShellAt("data", "count") /\ info' = [info EXCEPT ![c] = IF @ = "freed" THEN @ ELSE "set"]
    /\ UNCHANGED <<lvgl, list, timer, created, deleted, ran>>

\* lv_timer_set_repeat_count(timer, 1)
SetRepeat ==
  /\ ShellAt("count", "idle")
  /\ repeat' = [repeat EXCEPT ![shell.call] = 1]
  /\ UNCHANGED <<lvgl, list, filled, freed, info, created, deleted, ran>>

------------------------------------------------------------------------------
(* lv_timer_handler in the LVGL thread                                     *)

act == lvgl.act

LvglAt(pos, to) == lvgl.at = pos /\ lvgl' = [lvgl EXCEPT !.at = to]

\* A field of the timer at hand can be relied upon.
Sound(field) == filled[act] >= field /\ act \notin freed

\* A round of the outer loop begins.
Handle ==
  /\ LvglAt("idle", "load")
  /\ created' = FALSE /\ deleted' = FALSE
  /\ UNCHANGED <<shell, list, timer, info, ran>>

Load(n) == [lvgl EXCEPT !.at = "exec", !.act = n, !.next = next[n]]

LoadHead ==
  /\ lvgl.at = "load" /\ lvgl' = Load(head)
  /\ UNCHANGED <<shell, list, timer, info, created, deleted, ran>>

\* LVGL's own timers are the last ones: after them a new round begins.
ExecOwn ==
  /\ act = 0 /\ LvglAt("exec", "idle")
  /\ UNCHANGED <<shell, list, timer, info, created, deleted, ran>>

\* lv_timer_exec: the timer is paused, not due, or due.  A blank one is as its
\* memory happens to say.
ExecTimer ==
  /\ act # 0 /\ lvgl.at = "exec"
  /\ \/ ~Sound(Field.paused) /\ lvgl' = [lvgl EXCEPT !.at = "step", !.exec = FALSE]
     \/ ~Sound(Field.period) /\ lvgl' = [lvgl EXCEPT !.at = "check", !.exec = FALSE]
     \/ lvgl' = [lvgl EXCEPT !.at = "decrement", !.exec = TRUE, !.original = repeat[act]]
  /\ UNCHANGED <<shell, list, timer, info, created, deleted, ran>>

\* if(timer->repeat_count > 0) timer->repeat_count--
Decrement ==
  /\ LvglAt("decrement", IF lvgl.original = 0 THEN "check" ELSE "timer_cb")
  /\ repeat' = IF lvgl.original > 0 THEN [repeat EXCEPT ![act] = lvgl.original - 1] ELSE repeat
  /\ UNCHANGED <<shell, list, filled, freed, info, created, deleted, ran>>

Calls(what) == ran' = [ran EXCEPT ![act] = @ \cup {what}]

\* timer->timer_cb(timer), which may be blank, and NULL then ...
CallTimer ==
  /\ \/ LvglAt("timer_cb", "cb") /\ Sound(Field.timer_cb) /\ UNCHANGED ran
     \/ /\ LvglAt("timer_cb", "check") /\ ~Sound(Field.timer_cb)
        /\ Calls("blank") \/ UNCHANGED ran
  /\ UNCHANGED <<shell, list, timer, info, created, deleted>>

\* ... or lv_async_timer_cb: info->cb(info->user_data), with the info that
\* user_data points to, ...
CallBack ==
  /\ \/ LvglAt("cb", "free") /\ Sound(Field.user_data) /\ Calls(info[act])
     \/ LvglAt("cb", "check") /\ ~Sound(Field.user_data) /\ Calls("blank")
  /\ UNCHANGED <<shell, list, timer, info, created, deleted>>

\* ... which then is freed.
FreeInfo ==
  /\ LvglAt("free", "check")
  /\ info' = [info EXCEPT ![act] = "freed"]
  /\ UNCHANGED <<shell, list, timer, created, deleted, ran>>

\* The timer is deleted if its repeat count is over, and no other one was.
CheckCount ==
  /\ LvglAt("check", IF ~deleted /\ repeat[act] = 0 THEN "remove" ELSE "step")
  /\ UNCHANGED <<shell, list, timer, info, created, deleted, ran>>

\* _lv_ll_remove: the timer is the head of the list, ...
RemoveHead ==
  /\ \/ LvglAt("remove", "head") /\ head = act /\ UNCHANGED <<head, prev>>
     \/ LvglAt("head", "first") /\ head' = next[act] /\ UNCHANGED prev
     \/ LvglAt("first", "delete") /\ prev' = [prev EXCEPT ![head] = NULL] /\ UNCHANGED head
  /\ UNCHANGED <<shell, next, timer, info, created, deleted, ran>>

\* ... or in the middle.
RemoveMiddle ==
  /\ \/ /\ LvglAt("remove", "middle") /\ head # act
        /\ next' = [n \in Node |-> IF n = prev[act] THEN next[act] ELSE next[n]]
        /\ UNCHANGED prev
     \/ LvglAt("middle", "delete") /\ prev' = [prev EXCEPT ![next[act]] = prev[act]] /\ UNCHANGED next
  /\ UNCHANGED <<shell, head, timer, info, created, deleted, ran>>

\* lv_timer_del has unlinked the timer.
DeleteTimer ==
  /\ LvglAt("delete", "step")
  /\ deleted' = TRUE /\ freed' = freed \cup {act}
  /\ UNCHANGED <<shell, list, filled, repeat, info, created, ran>>

\* The list is walked from its head again, or on to the next timer.
NextTimer ==
  /\ lvgl.at = "step"
  /\ lvgl' = IF lvgl.exec /\ (created \/ deleted) THEN [lvgl EXCEPT !.at = "idle"]
             ELSE Load(lvgl.next)
  /\ UNCHANGED <<shell, list, timer, info, created, deleted, ran>>

------------------------------------------------------------------------------
Shell == \/ AllocInfo \/ AllocTimer \/ SetPrev \/ SetHead \/ FillTimer \/ SetCreated
         \/ FillInfo \/ SetRepeat
Lvgl  == \/ Handle \/ LoadHead \/ ExecOwn \/ ExecTimer \/ Decrement \/ CallTimer \/ CallBack
         \/ FreeInfo \/ CheckCount \/ RemoveHead \/ RemoveMiddle \/ DeleteTimer \/ NextTimer

Spec == Init /\ [][Shell \/ Lvgl]_vars

\* The same with the mutex that LVGL asks for around every call (os.md:12):
\* one of the threads is outside.
Locked == shell.at = "idle" \/ lvgl.at = "idle"

LockedSpec == Spec /\ []Locked

------------------------------------------------------------------------------
\* lv_async.h:39 says of lv_async_call "@param async_xcb a callback which is
\* the task itself": all that is ever called for a call is the function it was
\* given, never what blank or freed memory holds.
CallsWhatItWasGiven == \A c \in Call : ran[c] \subseteq {"set"}

\* The call that lv_async_timer_cb is about to carry out was not carried out
\* before, and every later one was: none runs twice, and the newest runs first.
NewestFirst ==
  lvgl.at = "cb" => /\ act \in Call /\ ran[act] = {}
                    /\ \A c \in Call : act < c /\ c <= shell.call => ran[c] # {}
==============================================================================
