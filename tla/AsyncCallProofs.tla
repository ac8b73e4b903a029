---------------------------- MODULE AsyncCallProofs ----------------------------
(***************************************************************************)
(* What the mutex that LVGL asks for would give lv_async_call, for any     *)
(* number of calls: with one of the two threads outside at any time, the   *)
(* timer list, written pointer by pointer, is the stack of the calls not   *)
(* yet carried out, each of them is carried out as it was given and once   *)
(* only, the newest first.  PmApp takes its queue of requests from this.   *)
(***************************************************************************)
EXTENDS AsyncCall, TLAPS

\* The threads' places and what the variables hold; the proof needs no prev.
Places ==
  /\ shell \in [at : {"idle", "alloc", "prev", "head", "timer", "created", "info", "data", "count"},
                call : 0 .. MaxCalls]
  /\ lvgl \in [at : {"idle", "load", "exec", "decrement", "timer_cb", "cb", "free", "check",
                     "remove", "head", "first", "delete", "middle", "step"},
               act : Node, next : -1 .. MaxCalls, original : -1 .. 1, exec : BOOLEAN]

Types ==
  /\ head \in Node /\ next \in [Node -> -1 .. MaxCalls]
  /\ filled \in [Call -> Nat] /\ repeat \in [Call -> -1 .. 1] /\ freed \subseteq Call
  /\ info \in [Call -> Info] /\ ran \in [Call -> SUBSET Info]
  /\ created \in BOOLEAN /\ deleted \in BOOLEAN

\* lv_async_call is making call c.
Making(c) == shell.at # "idle" /\ c = shell.call

\* lv_timer_exec has begun to carry out call c and has not freed its timer.
Active(c) ==
  c = act /\ lvgl.at \in {"timer_cb", "cb", "free", "check", "remove", "head", "first", "delete"}

\* How far call c has come: not begun, being made, waiting, active or done.
Life(c) ==
  /\ c > shell.call => filled[c] = 0 /\ c \notin freed /\ ran[c] = {}
  /\ Making(c) =>
       /\ c \notin freed /\ ran[c] = {} /\ info[c] # "freed"
       /\ shell.at \in {"alloc", "prev", "head"} => filled[c] = 0
       /\ shell.at = "timer" => filled[c] < 5
       /\ shell.at \in {"created", "info", "data", "count"} => filled[c] = 5
       /\ shell.at = "data" => info[c] = "cb"
       /\ shell.at = "count" => info[c] = "set"
  /\ c <= shell.call /\ ~Making(c) =>
       /\ filled[c] = 5
       /\ c \in freed => ran[c] = {"set"}
       /\ c \notin freed /\ ~Active(c) => repeat[c] = 1 /\ info[c] = "set" /\ ran[c] = {}

\* Where the walk is: it never gets past the first call in the list.
Walk ==
  /\ lvgl.at \in {"load", "exec"} => ~deleted
  /\ lvgl.at = "exec" => act = head
  /\ lvgl.at \in {"decrement", "timer_cb", "cb", "free", "check", "remove", "head", "first", "delete"} =>
       /\ act \in Call /\ act <= shell.call /\ act \notin freed /\ lvgl.exec
       /\ lvgl.at \in {"decrement", "timer_cb"} => lvgl.original = 1
       /\ lvgl.at # "decrement" => repeat[act] = 0
       /\ lvgl.at \in {"timer_cb", "cb"} => info[act] = "set" /\ ran[act] = {}
       /\ lvgl.at \in {"free", "check", "remove", "head", "first", "delete"} => ran[act] = {"set"}
       /\ lvgl.at \notin {"first", "delete"} => act = head /\ ~deleted
  /\ lvgl.at # "middle"
  /\ lvgl.at = "step" => lvgl.exec /\ deleted

\* The calls in the list: linked, and not unlinked again.
Linked ==
  {c \in Call : /\ c <= shell.call /\ c \notin freed
                /\ ~(c = shell.call /\ shell.at \in {"alloc", "prev", "head"})
                /\ ~(c = act /\ lvgl.at \in {"first", "delete"})}

\* S is the list, from h along n down to LVGL's own timers, newest call first.
Stack(S, h, n) ==
  /\ h \in S \cup {0}
  /\ \A c \in S : /\ c <= h
                  /\ n[c] \in S \cup {0} /\ n[c] < c
                  /\ \A d \in S : d < c => d <= n[c]

ListIsStack ==
  /\ Stack(Linked, head, next)
  /\ shell.at \in {"prev", "head"} => next[shell.call] = head

\* The inductive invariant, as long as the threads keep each other out.
IInv == Places /\ Types /\ (\A c \in Call : Life(c)) /\ Walk /\ ListIsStack

------------------------------------------------------------------------------
(* Stacks                                                                  *)

\* A new node that points to the old head goes on top, ...
LEMMA Push ==
  ASSUME NEW S, S \subseteq Nat, NEW h \in Nat, NEW n, NEW c \in Nat,
         Stack(S, h, n), n[c] = h, h < c, \A d \in S : d < c
  PROVE  Stack(S \cup {c}, c, n)
BY DEF Stack

\* ... the node on top is taken off by making the next one the head, ...
LEMMA Pop ==
  ASSUME NEW S, S \subseteq Nat, NEW h \in S, NEW n, Stack(S, h, n),
         \A c \in S : n[c] \in Nat
  PROVE  Stack(S \ {h}, n[h], n)
<1>1. n[h] \in (S \ {h}) \cup {0}
  BY DEF Stack
<1>2. ASSUME NEW c \in S \ {h}
      PROVE  /\ c <= n[h]
             /\ n[c] \in (S \ {h}) \cup {0} /\ n[c] < c
             /\ \A d \in S \ {h} : d < c => d <= n[c]
  BY <1>2 DEF Stack
<1>3. QED
  BY <1>1, <1>2 DEF Stack

\* ... and what other nodes point to does not matter.
LEMMA StackSame ==
  ASSUME NEW S, NEW h, NEW n, NEW m, Stack(S, h, n), \A c \in S : m[c] = n[c]
  PROVE  Stack(S, h, m)
BY DEF Stack

------------------------------------------------------------------------------
(* The shell thread, while the LVGL thread is outside                      *)

LEMMA ExceptType ==
  ASSUME NEW D, NEW R, NEW f \in [D -> R], NEW i, NEW v \in R
  PROVE  [f EXCEPT ![i] = v] \in [D -> R]
OBVIOUS

\* What counters and pointers the threads write has its type.
LEMMA Values ==
  ASSUME MaxCalls \in Nat
  PROVE  /\ -1 \in -1 .. 1 /\ 0 \in -1 .. 1 /\ 1 \in -1 .. 1
         /\ Node \subseteq -1 .. MaxCalls /\ NULL \in -1 .. MaxCalls /\ 0 \in Node
         /\ Call \subseteq Node /\ Node \subseteq Nat
BY DEF Node, Call, NULL

LEMMA ShellTypes ==
  ASSUME MaxCalls \in Nat, Places, Types, Shell
  PROVE  Places' /\ Types'
<1>1. CASE AllocInfo
  <2>1. info' \in [Call -> Info]
    <3>1. "blank" \in Info
      BY DEF Info
    <3>2. QED
      BY <1>1, <3>1 DEF AllocInfo, Types
  <2>2. shell' \in [at : {"alloc"}, call : 0 .. MaxCalls]
    BY <1>1 DEF AllocInfo, Places
  <2>3. QED
    BY <1>1, <2>1, <2>2 DEF AllocInfo, Places, Types, list, timer
<1>2. CASE AllocTimer
  <2>1. next' \in [Node -> -1 .. MaxCalls]
    BY <1>2, ExceptType, Values DEF AllocTimer, Types
  <2>2. repeat' \in [Call -> -1 .. 1]
    BY <1>2, ExceptType DEF AllocTimer, Types
  <2>3. shell' \in [at : {"prev"}, call : 0 .. MaxCalls]
    BY <1>2 DEF AllocTimer, ShellAt, Places
  <2>4. QED
    BY <1>2, <2>1, <2>2, <2>3 DEF AllocTimer, Places, Types
<1>3. CASE SetPrev
  BY <1>3 DEF SetPrev, ShellAt, Places, Types, timer
<1>4. CASE SetHead
  BY <1>4 DEF SetHead, ShellAt, Places, Types, timer, Node
<1>5. CASE FillTimer
  <2>1. filled' \in [Call -> Nat]
    <3>1. filled' = [filled EXCEPT ![shell.call] = filled[shell.call] + 1]
      BY <1>5 DEF FillTimer
    <3>2. CASE shell.call \in Call
      BY <3>1, <3>2 DEF Types
    <3>3. CASE shell.call \notin Call
      BY <3>1, <3>3 DEF Types
    <3>4. QED
      BY <3>2, <3>3
  <2>2. repeat' \in [Call -> -1 .. 1]
    BY <1>5, ExceptType, Values DEF FillTimer, Types
  <2>3. shell' \in [at : {"timer", "created"}, call : 0 .. MaxCalls]
    BY <1>5 DEF FillTimer, ShellAt, Places
  <2>4. QED
    BY <1>5, <2>1, <2>2, <2>3 DEF FillTimer, Places, Types, list
<1>6. CASE SetCreated
  BY <1>6 DEF SetCreated, ShellAt, Places, Types, list, timer
<1>7. CASE FillInfo
  <2>1. info' \in [Call -> Info]
    BY <1>7 DEF FillInfo, Types, Info
  <2>2. shell' \in [at : {"data", "count"}, call : 0 .. MaxCalls]
    BY <1>7 DEF FillInfo, ShellAt, Places
  <2>3. QED
    BY <1>7, <2>1, <2>2 DEF FillInfo, Places, Types, list, timer
<1>8. CASE SetRepeat
  <2>1. repeat' \in [Call -> -1 .. 1]
    BY <1>8, ExceptType, Values DEF SetRepeat, Types
  <2>2. shell' \in [at : {"idle"}, call : 0 .. MaxCalls]
    BY <1>8 DEF SetRepeat, ShellAt, Places
  <2>3. QED
    BY <1>8, <2>1, <2>2 DEF SetRepeat, Places, Types, list
<1>9. QED
  BY <1>1, <1>2, <1>3, <1>4, <1>5, <1>6, <1>7, <1>8 DEF Shell

\* Only the call being made changes, and comes one step further.
LEMMA ShellLife ==
  ASSUME MaxCalls \in Nat, IInv, Shell, lvgl.at = "idle", NEW c \in Call
  PROVE  Life(c)'
<1>1. /\ Places /\ Types /\ Life(c) /\ c \in Nat /\ shell.call \in Nat
      /\ lvgl' = lvgl /\ freed' = freed /\ ran' = ran /\ ~Active(c)
  BY DEF IInv, Places, Call, Shell, AllocInfo, AllocTimer, SetPrev, SetHead, FillTimer,
         SetCreated, FillInfo, SetRepeat, timer, Active
<1> USE DEF Life, Making, Active
<1>2. CASE AllocInfo
  BY <1>1, <1>2 DEF AllocInfo, timer, Types
<1>3. CASE AllocTimer
  <2>1. shell.at = "alloc" /\ shell'.at = "prev" /\ shell'.call = shell.call
    BY <1>1, <1>3 DEF AllocTimer, ShellAt, Places
  <2>2. filled' = filled /\ info' = info /\ (c # shell.call => repeat'[c] = repeat[c])
    BY <1>1, <1>3 DEF AllocTimer, Types
  <2>3. QED
    BY <1>1, <2>1, <2>2
<1>4. CASE SetPrev
  <2>1. shell.at = "prev" /\ shell'.at = "head" /\ shell'.call = shell.call
    BY <1>1, <1>4 DEF SetPrev, ShellAt, Places
  <2>2. QED
    BY <1>1, <1>4, <2>1 DEF SetPrev, timer
<1>5. CASE SetHead
  <2>1. shell.at = "head" /\ shell'.at = "timer" /\ shell'.call = shell.call
    BY <1>1, <1>5 DEF SetHead, ShellAt, Places
  <2>2. QED
    BY <1>1, <1>5, <2>1 DEF SetHead, timer
<1>6. CASE FillTimer
  <2>1. /\ shell.at = "timer" /\ shell'.call = shell.call
        /\ shell'.at = IF filled[shell.call] + 1 = 5 THEN "created" ELSE "timer"
    BY <1>1, <1>6 DEF FillTimer, ShellAt, Places, Field
  <2>2. /\ c # shell.call => filled'[c] = filled[c] /\ repeat'[c] = repeat[c]
        /\ c = shell.call => filled'[c] = filled[c] + 1
        /\ filled[c] \in Nat
    BY <1>1, <1>6 DEF FillTimer, Types
  <2>3. info' = info
    BY <1>6 DEF FillTimer
  <2>4. CASE c = shell.call
    BY <1>1, <2>1, <2>2, <2>3, <2>4
  <2>5. CASE c # shell.call
    BY <1>1, <2>1, <2>2, <2>3, <2>5
  <2>6. QED
    BY <2>4, <2>5
<1>7. CASE SetCreated
  <2>1. shell.at = "created" /\ shell'.at = "info" /\ shell'.call = shell.call
    BY <1>1, <1>7 DEF SetCreated, ShellAt, Places
  <2>2. QED
    BY <1>1, <1>7, <2>1 DEF SetCreated, timer
<1>8. CASE FillInfo
  <2>1. shell'.call = shell.call /\ filled' = filled /\ repeat' = repeat
    BY <1>1, <1>8 DEF FillInfo, ShellAt, Places, timer
  <2>2. c # shell.call => info'[c] = info[c]
    BY <1>1, <1>8 DEF FillInfo, Types
  <2>3. CASE shell.at = "info"
    <3>1. shell'.at = "data" /\ info' = [info EXCEPT ![shell.call] = IF @ = "freed" THEN @ ELSE "cb"]
      BY <1>1, <1>8, <2>3 DEF FillInfo, ShellAt, Places
    <3>2. c = shell.call /\ info[c] # "freed" => info'[c] = "cb"
      BY <1>1, <3>1 DEF Types
    <3>3. QED
      BY <1>1, <2>1, <2>2, <2>3, <3>1, <3>2
  <2>4. CASE shell.at = "data"
    <3>1. shell'.at = "count" /\ info' = [info EXCEPT ![shell.call] = IF @ = "freed" THEN @ ELSE "set"]
      BY <1>1, <1>8, <2>4 DEF FillInfo, ShellAt, Places
    <3>2. c = shell.call /\ info[c] # "freed" => info'[c] = "set"
      BY <1>1, <3>1 DEF Types
    <3>3. QED
      BY <1>1, <2>1, <2>2, <2>4, <3>1, <3>2
  <2>5. QED
    BY <1>8, <2>3, <2>4 DEF FillInfo, ShellAt
<1>9. CASE SetRepeat
  <2>1. shell.at = "count" /\ shell'.at = "idle" /\ shell'.call = shell.call
    BY <1>1, <1>9 DEF SetRepeat, ShellAt, Places
  <2>2. /\ filled' = filled /\ info' = info
        /\ c # shell.call => repeat'[c] = repeat[c]
        /\ c = shell.call => repeat'[c] = 1
    BY <1>1, <1>9 DEF SetRepeat, Types
  <2>3. QED
    BY <1>1, <2>1, <2>2
<1>10. QED
  BY <1>2, <1>3, <1>4, <1>5, <1>6, <1>7, <1>8, <1>9 DEF Shell

\* The new timer goes on top of the list when it is complete as a node.
LEMMA ShellList ==
  ASSUME MaxCalls \in Nat, IInv, Shell, lvgl.at = "idle"
  PROVE  ListIsStack'
<1> DEFINE k == shell.call
<1>1. /\ Places /\ Types /\ \A c \in Call : Life(c)
      /\ Stack(Linked, head, next)
      /\ shell.at \in {"prev", "head"} => next[k] = head
      /\ lvgl' = lvgl /\ freed' = freed
      /\ k \in Nat /\ head \in Nat /\ Linked \subseteq Call /\ Call \subseteq Nat
  BY Values DEF IInv, ListIsStack, Linked, Places, Types, Shell, AllocInfo, AllocTimer, SetPrev,
                SetHead, FillTimer, SetCreated, FillInfo, SetRepeat, timer
<1>2. CASE AllocInfo
  <2>1. /\ shell.at = "idle" /\ shell'.at = "alloc" /\ shell'.call = k + 1
        /\ head' = head /\ next' = next
    BY <1>2 DEF AllocInfo, list
  <2>2. \A c \in Call : c <= k <=> c <= k + 1 /\ c # k + 1
    BY <1>1
  <2>3. Linked' = Linked
    BY <1>1, <2>1, <2>2 DEF Linked
  <2>4. QED
    BY <1>1, <2>1, <2>3 DEF ListIsStack
<1>3. CASE AllocTimer
  <2>1. /\ shell.at = "alloc" /\ shell'.at = "prev" /\ shell'.call = k /\ head' = head
        /\ next' = [next EXCEPT ![k] = head]
    BY <1>1, <1>3 DEF AllocTimer, ShellAt, Places
  <2>2. Linked' = Linked /\ k \notin Linked
    BY <1>1, <2>1 DEF Linked
  <2>3. \A c \in Linked : next'[c] = next[c]
    BY <1>1, <2>1, <2>2 DEF Types
  <2>4. next'[k] = head
    BY <2>1, <1>1 DEF Types, Node, Places
  <2>5. Stack(Linked, head, next')
    BY <1>1, <2>3, StackSame
  <2>6. QED
    BY <2>1, <2>2, <2>4, <2>5 DEF ListIsStack
<1>4. CASE SetPrev
  <2>1. /\ shell.at = "prev" /\ shell'.at = "head" /\ shell'.call = k
        /\ head' = head /\ next' = next
    BY <1>1, <1>4 DEF SetPrev, ShellAt, Places
  <2>2. Linked' = Linked
    BY <1>1, <2>1 DEF Linked
  <2>3. QED
    BY <1>1, <2>1, <2>2 DEF ListIsStack
<1>5. CASE SetHead
  <2>1. /\ shell.at = "head" /\ shell'.at = "timer" /\ shell'.call = k
        /\ head' = k /\ next' = next /\ next[k] = head
    BY <1>1, <1>5 DEF SetHead, ShellAt, Places
  <2>2. \A d \in Linked : d < k
    BY <1>1, <2>1 DEF Linked
  <2>3. Stack(Linked, head, next) /\ Linked \subseteq Nat
    BY <1>1
  <2>4. CASE k \in Call
    <3>1. k \notin freed
      BY <1>1, <2>1, <2>4 DEF Life, Making
    <3>2. Linked' = Linked \cup {k}
      BY <1>1, <2>1, <2>4, <3>1 DEF Linked
    <3>3. head < k
      BY <1>1, <2>2, <2>4 DEF Stack, Call
    <3>4. Stack(Linked \cup {k}, k, next)
      BY <1>1, <2>1, <2>2, <2>3, <3>3, Push
    <3>5. QED
      BY <2>1, <3>2, <3>4 DEF ListIsStack
  <2>5. CASE k \notin Call
    <3>1. k = 0 /\ Linked = {} /\ Linked' = {}
      BY <1>1, <2>1, <2>5 DEF Places, Call, Linked
    <3>2. QED
      BY <2>1, <3>1 DEF ListIsStack, Stack
  <2>6. QED
    BY <2>4, <2>5
<1>6. CASE FillTimer \/ SetCreated \/ FillInfo \/ SetRepeat
  <2>1. /\ shell.at \notin {"alloc", "prev", "head"} /\ shell'.at \notin {"alloc", "prev", "head"}
        /\ shell'.call = k /\ head' = head /\ next' = next
    BY <1>1, <1>6 DEF FillTimer, SetCreated, FillInfo, SetRepeat, ShellAt, Places, list
  <2>2. Linked' = Linked
    BY <1>1, <2>1 DEF Linked
  <2>3. QED
    BY <1>1, <2>1, <2>2 DEF ListIsStack
<1>7. QED
  BY <1>2, <1>3, <1>4, <1>5, <1>6 DEF Shell

LEMMA ShellStep ==
  ASSUME MaxCalls \in Nat, IInv, Shell, lvgl.at = "idle"
  PROVE  IInv'
<1>1. Places' /\ Types'
  BY ShellTypes DEF IInv
<1>2. lvgl' = lvgl
  BY DEF Shell, AllocInfo, AllocTimer, SetPrev, SetHead, FillTimer, SetCreated, FillInfo, SetRepeat
<1>3. Walk'
  BY <1>2 DEF Walk
<1>4. QED
  BY <1>1, <1>3, ShellLife, ShellList DEF IInv

------------------------------------------------------------------------------
(* The LVGL thread, while the shell thread is outside                      *)

\* All but the removal of the head leave the list alone.
LEMMA SameList ==
  ASSUME IInv, shell' = shell, shell.at = "idle", head' = head, next' = next, Linked' = Linked
  PROVE  ListIsStack'
BY DEF IInv, ListIsStack

\* A field of the timer at hand is sound, and the timer a call that waits,
\* until it is begun.
LEMMA AtHand ==
  ASSUME MaxCalls \in Nat, IInv, shell.at = "idle",
         lvgl.at \in {"exec", "decrement", "timer_cb", "cb", "free", "check", "remove", "head",
                      "first", "delete"}, act # 0
  PROVE  /\ act \in Call /\ act <= shell.call /\ act \notin freed
         /\ Sound(Field.period) /\ Sound(Field.timer_cb) /\ Sound(Field.paused)
         /\ Sound(Field.user_data)
         /\ lvgl.at \in {"exec", "decrement"} => repeat[act] = 1 /\ info[act] = "set" /\ ran[act] = {}
<1>1. /\ Places /\ Types /\ Walk /\ (\A c \in Call : Life(c)) /\ ListIsStack
  BY DEF IInv
<1>2. act \in Call /\ act <= shell.call /\ act \notin freed
  <2>1. CASE lvgl.at = "exec"
    <3>1. act \in Linked
      BY <1>1, <2>1 DEF Walk, ListIsStack, Stack
    <3>2. QED
      BY <3>1 DEF Linked
  <2>2. CASE lvgl.at # "exec"
    BY <1>1, <2>2 DEF Walk
  <2>3. QED
    BY <2>1, <2>2
<1>3. Life(act) /\ ~Making(act)
  BY <1>1, <1>2 DEF Making
<1>4. filled[act] = 5
  BY <1>2, <1>3 DEF Life
<1>5. lvgl.at \in {"exec", "decrement"} => repeat[act] = 1 /\ info[act] = "set" /\ ran[act] = {}
  BY <1>2, <1>3 DEF Life, Active
<1>6. QED
  BY <1>2, <1>4, <1>5 DEF Sound, Field

\* Nothing has happened to a call but to the one at hand.
LEMMA OthersLive ==
  ASSUME IInv, shell' = shell, shell.at = "idle", NEW c \in Call,
         filled' = filled, c \in freed' <=> c \in freed,
         repeat'[c] = repeat[c], info'[c] = info[c], ran'[c] = ran[c],
         Active(c)' <=> Active(c)
  PROVE  Life(c)'
BY DEF IInv, Life, Making

\* The walk around a call: to the head, and back to the beginning.
LEMMA WalkStep ==
  ASSUME MaxCalls \in Nat, IInv, shell.at = "idle",
         Handle \/ LoadHead \/ ExecOwn \/ NextTimer
  PROVE  IInv'
<1>1. /\ Places /\ Types /\ Walk /\ (\A c \in Call : Life(c)) /\ shell' = shell
      /\ head' = head /\ next' = next /\ filled' = filled /\ freed' = freed
      /\ repeat' = repeat /\ info' = info /\ ran' = ran
  BY DEF IInv, Handle, LoadHead, ExecOwn, NextTimer, list, timer
<1>2. /\ Places' /\ Walk' /\ created' \in BOOLEAN /\ deleted' \in BOOLEAN
      /\ lvgl.at \in {"idle", "load", "exec", "step"}
      /\ lvgl'.at \in {"idle", "load", "exec", "step"}
  <2>1. CASE Handle
    BY <1>1, <2>1 DEF Handle, LvglAt, Places, Walk
  <2>2. CASE LoadHead
    <3>1. lvgl' = [lvgl EXCEPT !.at = "exec", !.act = head, !.next = next[head]] /\ lvgl.at = "load"
          /\ deleted' = deleted /\ created' = created
      BY <2>2 DEF LoadHead, Load
    <3>2. head \in Node /\ next[head] \in -1 .. MaxCalls
      BY <1>1 DEF Types
    <3>3. Places'
      BY <1>1, <3>1, <3>2 DEF Places
    <3>4. lvgl'.at = "exec" /\ lvgl'.act = head
      BY <1>1, <3>1 DEF Places
    <3>5. QED
      BY <1>1, <3>1, <3>3, <3>4 DEF Walk, act, Types
  <2>3. CASE ExecOwn
    BY <1>1, <2>3 DEF ExecOwn, LvglAt, Places, Walk, Types
  <2>4. CASE NextTimer
    <3>1. lvgl.at = "step" /\ lvgl' = [lvgl EXCEPT !.at = "idle"] /\ deleted' = deleted
          /\ created' = created
      BY <1>1, <2>4 DEF NextTimer, Walk
    <3>2. Places' /\ lvgl'.at = "idle"
      BY <1>1, <3>1 DEF Places
    <3>3. QED
      BY <1>1, <3>1, <3>2 DEF Walk, Types
  <2>5. QED
    BY <2>1, <2>2, <2>3, <2>4
<1>3. Types'
  BY <1>1, <1>2 DEF Types
<1>4. Linked' = Linked
  BY <1>1, <1>2 DEF Linked
<1>5. ASSUME NEW c \in Call
      PROVE  Life(c)'
  <2>1. ~Active(c) /\ ~Active(c)'
    BY <1>2 DEF Active
  <2>2. QED
    BY <1>1, <2>1, OthersLive
<1>6. QED
  BY <1>1, <1>2, <1>3, <1>4, <1>5, SameList DEF IInv

\* The call at hand is taken through lv_timer_exec: only it changes.
LEMMA ExecStep ==
  ASSUME MaxCalls \in Nat, IInv, shell.at = "idle",
         ExecTimer \/ Decrement \/ CallTimer \/ CallBack \/ FreeInfo \/ CheckCount \/ DeleteTimer
  PROVE  IInv'
<1>1. /\ Places /\ Types /\ Walk /\ (\A c \in Call : Life(c))
      /\ shell' = shell /\ head' = head /\ next' = next /\ filled' = filled /\ created' = created
  BY DEF IInv, ExecTimer, Decrement, CallTimer, CallBack, FreeInfo, CheckCount, DeleteTimer,
         list, timer
<1>2. /\ lvgl.at \in {"exec", "decrement", "timer_cb", "cb", "free", "check", "delete"}
      /\ act # 0
  BY <1>1, Values DEF ExecTimer, Decrement, CallTimer, CallBack, FreeInfo, CheckCount, DeleteTimer,
                      LvglAt, Walk, Call
<1>3. /\ act \in Call /\ act <= shell.call /\ act \notin freed
      /\ Sound(Field.period) /\ Sound(Field.timer_cb) /\ Sound(Field.paused)
      /\ Sound(Field.user_data)
      /\ lvgl.at \in {"exec", "decrement"} => repeat[act] = 1 /\ info[act] = "set" /\ ran[act] = {}
  BY <1>1, <1>2, AtHand
<1>4. Life(act) /\ ~Making(act)
  BY <1>1, <1>3 DEF Making
<1>5. SUFFICES /\ Places' /\ Types' /\ Walk' /\ act' = act
               /\ lvgl'.at \in {"decrement", "timer_cb", "cb", "free", "check", "remove", "delete", "step"}
               /\ lvgl.at = "delete" <=> lvgl'.at = "step"
               /\ lvgl'.at # "delete"
               /\ \A c \in Call \ {act} : /\ c \in freed' <=> c \in freed
                                          /\ repeat'[c] = repeat[c] /\ info'[c] = info[c]
                                          /\ ran'[c] = ran[c]
               /\ Life(act)'
               /\ act \in freed' <=> lvgl'.at = "step"
  <2>1. Linked' = Linked
    <3>1. ASSUME NEW c \in Call
          PROVE  c \in Linked' <=> c \in Linked
      BY <1>1, <1>2, <1>3, <1>5 DEF Linked
    <3>2. QED
      BY <3>1 DEF Linked
  <2>2. ASSUME NEW c \in Call \ {act}
        PROVE  Life(c)'
    BY <1>1, <1>5, <2>2, OthersLive DEF Active
  <2>3. \A c \in Call : Life(c)'
    BY <1>5, <2>2
  <2>4. QED
    BY <1>1, <1>5, <2>1, <2>3, SameList DEF IInv
<1> DEFINE Rest == \A c \in Call \ {act} : /\ c \in freed' <=> c \in freed
                                           /\ repeat'[c] = repeat[c] /\ info'[c] = info[c]
                                           /\ ran'[c] = ran[c]
<1>6. ASSUME NEW pos, NEW to \in {"decrement", "timer_cb", "cb", "free", "check", "remove", "step"},
             LvglAt(pos, to)
      PROVE  /\ Places' /\ act' = act /\ lvgl.at = pos /\ lvgl'.at = to /\ lvgl'.exec = lvgl.exec
             /\ lvgl'.original = lvgl.original
  BY <1>1, <1>6 DEF LvglAt, Places, act
<1>7. filled[act] = 5
  BY <1>3, <1>4 DEF Life
<1>8. CASE ExecTimer
  <2>1. /\ lvgl' = [lvgl EXCEPT !.at = "decrement", !.exec = TRUE, !.original = repeat[act]]
        /\ freed' = freed /\ repeat' = repeat /\ info' = info /\ ran' = ran /\ deleted' = deleted
        /\ lvgl.at = "exec"
    BY <1>3, <1>8 DEF ExecTimer, timer
  <2>2. repeat[act] \in -1 .. 1
    BY <1>1, <1>3 DEF Types
  <2>3. /\ Places' /\ act' = act /\ lvgl'.at = "decrement" /\ lvgl'.exec = TRUE
        /\ lvgl'.original = 1
    BY <1>1, <1>3, <2>1, <2>2 DEF Places, act
  <2>4. Types'
    BY <1>1, <2>1 DEF Types
  <2>5. Walk'
    BY <1>1, <1>3, <2>1, <2>3 DEF Walk, act
  <2>6. Life(act)'
    BY <1>1, <1>4, <2>1, <2>3 DEF Life, Making, Active, act
  <2>7. QED
    BY <1>3, <2>1, <2>3, <2>4, <2>5, <2>6
<1>9. CASE Decrement
  <2>1. lvgl.at = "decrement" /\ lvgl.original = 1 /\ lvgl.exec /\ act = head /\ ~deleted
    BY <1>1, <1>9 DEF Decrement, LvglAt, Walk
  <2>2. LvglAt("decrement", "timer_cb")
    BY <1>9, <2>1 DEF Decrement
  <2>3. /\ repeat' = [repeat EXCEPT ![act] = 0]
        /\ freed' = freed /\ info' = info /\ ran' = ran /\ deleted' = deleted
    BY <1>9, <2>1 DEF Decrement
  <2>4. Places' /\ act' = act /\ lvgl'.at = "timer_cb" /\ lvgl'.exec /\ lvgl'.original = 1
    BY <1>6, <2>1, <2>2
  <2>5. repeat' \in [Call -> -1 .. 1]
    BY <1>1, <2>3, ExceptType, Values DEF Types
  <2>6. repeat'[act] = 0 /\ Rest
    BY <1>1, <1>3, <2>3 DEF Types
  <2>7. Types'
    BY <1>1, <2>3, <2>5 DEF Types
  <2>8. Walk'
    BY <1>1, <1>3, <2>1, <2>3, <2>4, <2>6 DEF Walk, act
  <2>9. Life(act)'
    BY <1>1, <1>3, <1>4, <1>7, <2>3, <2>4 DEF Life, Making, Active, act
  <2>10. QED
    BY <1>3, <2>1, <2>3, <2>4, <2>6, <2>7, <2>8, <2>9
<1>10. CASE CallTimer
  <2>1. /\ LvglAt("timer_cb", "cb")
        /\ repeat' = repeat /\ freed' = freed /\ info' = info /\ ran' = ran /\ deleted' = deleted
    BY <1>3, <1>10 DEF CallTimer, timer
  <2>2. Places' /\ act' = act /\ lvgl.at = "timer_cb" /\ lvgl'.at = "cb" /\ lvgl'.exec = lvgl.exec
    BY <1>6, <2>1
  <2>3. Types'
    BY <1>1, <2>1 DEF Types
  <2>4. Walk'
    BY <1>1, <1>3, <2>1, <2>2 DEF Walk, act
  <2>5. Life(act)'
    BY <1>1, <1>3, <1>4, <1>7, <2>1, <2>2 DEF Life, Making, Active, act
  <2>6. QED
    BY <1>3, <2>1, <2>2, <2>3, <2>4, <2>5
<1>11. CASE CallBack
  <2>1. /\ LvglAt("cb", "free") /\ ran' = [ran EXCEPT ![act] = @ \cup {info[act]}]
        /\ repeat' = repeat /\ freed' = freed /\ info' = info /\ deleted' = deleted
    BY <1>3, <1>11 DEF CallBack, Calls, timer
  <2>2. Places' /\ act' = act /\ lvgl.at = "cb" /\ lvgl'.at = "free" /\ lvgl'.exec = lvgl.exec
    BY <1>6, <2>1
  <2>3. info[act] = "set" /\ ran[act] = {} /\ "set" \in Info
    BY <1>1, <2>2 DEF Walk, Info
  <2>4. ran' = [ran EXCEPT ![act] = {"set"}]
    BY <2>1, <2>3
  <2>5. ran' \in [Call -> SUBSET Info]
    BY <1>1, <2>3, <2>4, ExceptType DEF Types
  <2>6. ran'[act] = {"set"} /\ Rest
    BY <1>1, <1>3, <2>1, <2>4 DEF Types
  <2>7. Types'
    BY <1>1, <2>1, <2>5 DEF Types
  <2>8. Walk'
    BY <1>1, <1>3, <2>1, <2>2, <2>6 DEF Walk, act
  <2>9. Life(act)'
    BY <1>1, <1>3, <1>4, <1>7, <2>1, <2>2 DEF Life, Making, Active, act
  <2>10. QED
    BY <1>3, <2>1, <2>2, <2>6, <2>7, <2>8, <2>9
<1>12. CASE FreeInfo
  <2>1. /\ LvglAt("free", "check") /\ info' = [info EXCEPT ![act] = "freed"]
        /\ repeat' = repeat /\ freed' = freed /\ ran' = ran /\ deleted' = deleted
    BY <1>12 DEF FreeInfo, timer
  <2>2. Places' /\ act' = act /\ lvgl.at = "free" /\ lvgl'.at = "check" /\ lvgl'.exec = lvgl.exec
    BY <1>6, <2>1
  <2>3. "freed" \in Info
    BY DEF Info
  <2>4. info' \in [Call -> Info]
    BY <1>1, <2>1, <2>3, ExceptType DEF Types
  <2>5. Rest
    BY <1>1, <1>3, <2>1 DEF Types
  <2>6. Types'
    BY <1>1, <2>1, <2>4 DEF Types
  <2>7. Walk'
    BY <1>1, <1>3, <2>1, <2>2 DEF Walk, act
  <2>8. Life(act)'
    BY <1>1, <1>3, <1>4, <1>7, <2>1, <2>2 DEF Life, Making, Active, act
  <2>9. QED
    BY <1>3, <2>1, <2>2, <2>5, <2>6, <2>7, <2>8
<1>13. CASE CheckCount
  <2>1. ~deleted /\ repeat[act] = 0
    BY <1>1, <1>13 DEF CheckCount, LvglAt, Walk
  <2>2. /\ LvglAt("check", "remove") /\ info' = info
        /\ repeat' = repeat /\ freed' = freed /\ ran' = ran /\ deleted' = deleted
    BY <1>13, <2>1 DEF CheckCount, timer
  <2>3. Places' /\ act' = act /\ lvgl.at = "check" /\ lvgl'.at = "remove" /\ lvgl'.exec = lvgl.exec
    BY <1>6, <2>2
  <2>4. Types'
    BY <1>1, <2>2 DEF Types
  <2>5. Walk'
    BY <1>1, <1>3, <2>2, <2>3 DEF Walk, act
  <2>6. Life(act)'
    BY <1>1, <1>3, <1>4, <1>7, <2>2, <2>3 DEF Life, Making, Active, act
  <2>7. QED
    BY <1>3, <2>2, <2>3, <2>4, <2>5, <2>6
<1>14. CASE DeleteTimer
  <2>1. /\ LvglAt("delete", "step") /\ deleted' = TRUE /\ freed' = freed \cup {act}
        /\ repeat' = repeat /\ info' = info /\ ran' = ran
    BY <1>14 DEF DeleteTimer
  <2>2. Places' /\ act' = act /\ lvgl.at = "delete" /\ lvgl'.at = "step" /\ lvgl'.exec = lvgl.exec
    BY <1>6, <2>1
  <2>3. Types'
    BY <1>1, <1>3, <2>1 DEF Types
  <2>4. Walk'
    BY <1>1, <1>3, <2>1, <2>2 DEF Walk
  <2>5. ran[act] = {"set"}
    BY <1>1, <2>2 DEF Walk
  <2>6. Life(act)'
    BY <1>1, <1>3, <1>4, <1>7, <2>1, <2>2, <2>5 DEF Life, Making, Active, act
  <2>7. QED
    BY <1>3, <2>1, <2>2, <2>3, <2>4, <2>6
<1>15. QED
  BY <1>8, <1>9, <1>10, <1>11, <1>12, <1>13, <1>14

\* The timer is taken off the head of the list, in three writes; it is never
\* in the middle.
LEMMA RemoveStep ==
  ASSUME MaxCalls \in Nat, IInv, shell.at = "idle", RemoveHead \/ RemoveMiddle
  PROVE  IInv'
<1>1. /\ Places /\ Types /\ Walk /\ (\A c \in Call : Life(c)) /\ ListIsStack
      /\ shell' = shell /\ filled' = filled /\ freed' = freed /\ repeat' = repeat
      /\ info' = info /\ ran' = ran /\ created' = created /\ deleted' = deleted
  BY DEF IInv, RemoveHead, RemoveMiddle, list, timer
<1>2. lvgl.at \in {"remove", "head", "first"} /\ act \in Call
  BY <1>1 DEF RemoveHead, RemoveMiddle, LvglAt, Walk
<1>3. RemoveHead /\ next' = next
  BY <1>1, <1>2 DEF RemoveHead, RemoveMiddle, LvglAt, Walk
<1>4. ASSUME NEW pos, NEW to \in {"head", "first", "delete"}, LvglAt(pos, to)
      PROVE  /\ Places' /\ act' = act /\ lvgl.at = pos /\ lvgl'.at = to /\ lvgl'.exec = lvgl.exec
  BY <1>1, <1>4 DEF LvglAt, Places, act
<1>5. ASSUME act' = act,
             lvgl'.at \in {"head", "first", "delete"}, NEW c \in Call
      PROVE  Life(c)'
  <2>1. Active(c)' <=> Active(c)
    BY <1>2, <1>5 DEF Active
  <2>2. QED
    BY <1>1, <2>1, OthersLive
<1>6. CASE LvglAt("remove", "head") /\ head' = head
  <2>1. Places' /\ act' = act /\ lvgl.at = "remove" /\ lvgl'.at = "head" /\ lvgl'.exec = lvgl.exec
    BY <1>4, <1>6
  <2>2. Types' /\ Walk'
    BY <1>1, <1>2, <1>3, <1>6, <2>1 DEF Types, Walk, act
  <2>3. Linked' = Linked
    BY <1>1, <2>1 DEF Linked
  <2>4. QED
    BY <1>1, <1>3, <1>5, <1>6, <2>1, <2>2, <2>3, SameList DEF IInv
<1>7. CASE LvglAt("first", "delete") /\ head' = head
  <2>1. Places' /\ act' = act /\ lvgl.at = "first" /\ lvgl'.at = "delete" /\ lvgl'.exec = lvgl.exec
    BY <1>4, <1>7
  <2>2. Types' /\ Walk'
    BY <1>1, <1>2, <1>3, <1>7, <2>1 DEF Types, Walk, act
  <2>3. Linked' = Linked
    BY <1>1, <2>1 DEF Linked
  <2>4. QED
    BY <1>1, <1>3, <1>5, <1>7, <2>1, <2>2, <2>3, SameList DEF IInv
<1>8. CASE LvglAt("head", "first") /\ head' = next[act]
  <2>1. Places' /\ act' = act /\ lvgl.at = "head" /\ lvgl'.at = "first" /\ lvgl'.exec = lvgl.exec
    BY <1>4, <1>8
  <2>2. act = head /\ act \in Linked /\ Stack(Linked, head, next)
    BY <1>1, <1>2, <2>1 DEF Walk, Linked, ListIsStack
  <2>3. Linked \subseteq Nat /\ \A c \in Linked : next[c] \in Nat
    BY <2>2, Values DEF Linked, Stack
  <2>4. Stack(Linked \ {act}, next[act], next)
    BY <2>2, <2>3, Pop
  <2>5. Linked' = Linked \ {act}
    BY <1>1, <2>1 DEF Linked
  <2>6. next[act] \in Node
    BY <2>2, Values DEF Stack, Linked
  <2>7. Types' /\ Walk'
    BY <1>1, <1>2, <1>3, <1>8, <2>1, <2>6 DEF Types, Walk, act
  <2>8. ListIsStack'
    BY <1>1, <1>3, <1>8, <2>4, <2>5 DEF ListIsStack
  <2>9. QED
    BY <1>5, <2>1, <2>7, <2>8 DEF IInv
<1>9. QED
  BY <1>3, <1>6, <1>7, <1>8 DEF RemoveHead

------------------------------------------------------------------------------
(* The theorems                                                            *)

LEMMA InitIInv ==
  ASSUME MaxCalls \in Nat, Init
  PROVE  IInv
<1>1. NULL \in -1 .. MaxCalls /\ 0 \in Node /\ 0 \in -1 .. 1 /\ 0 \in 0 .. MaxCalls
  BY Values
<1>2. Places
  BY <1>1 DEF Init, Places
<1>3. Types
  BY <1>1 DEF Init, Types, Info
<1>4. ASSUME NEW c \in Call
      PROVE  Life(c)
  <2>1. c > 0 /\ ~(c <= 0) /\ c # 0
    BY DEF Call
  <2>2. QED
    BY <2>1 DEF Init, Life, Making
<1>5. Linked = {}
  <2>1. \A c \in Call : ~(c <= 0)
    BY DEF Call
  <2>2. QED
    BY <2>1 DEF Init, Linked
<1>6. QED
  BY <1>2, <1>3, <1>4, <1>5 DEF Init, IInv, Walk, ListIsStack, Stack

LEMMA StepIInv ==
  ASSUME MaxCalls \in Nat, IInv, Locked, Locked', [Shell \/ Lvgl]_vars
  PROVE  IInv'
<1>1. CASE Shell
  <2>1. lvgl.at = "idle"
    BY <1>1 DEF Locked, Shell, AllocInfo, AllocTimer, SetPrev, SetHead, FillTimer, SetCreated,
                FillInfo, SetRepeat, ShellAt
  <2>2. QED
    BY <1>1, <2>1, ShellStep
<1>2. CASE Lvgl
  <2>1. shell.at = "idle"
    <3>1. CASE Handle
      <4>1. lvgl'.at = "load" /\ shell' = shell
        BY <3>1 DEF Handle, LvglAt, IInv, Places
      <4>2. QED
        BY <4>1 DEF Locked
    <3>2. CASE ~Handle
      BY <1>2, <3>2 DEF Locked, Lvgl, LoadHead, ExecOwn, ExecTimer, Decrement, CallTimer, CallBack,
                        FreeInfo, CheckCount, RemoveHead, RemoveMiddle, DeleteTimer, NextTimer,
                        LvglAt
    <3>3. QED
      BY <3>1, <3>2
  <2>2. QED
    BY <1>2, <2>1, WalkStep, ExecStep, RemoveStep DEF Lvgl
<1>3. CASE UNCHANGED vars
  BY <1>3 DEF vars, list, timer, IInv, Places, Types, Life, Making, Active, Walk, Linked,
              ListIsStack, Stack, act
<1>4. QED
  BY <1>1, <1>2, <1>3

\* With the mutex the list is a stack after every lv_async_call and every
\* round of lv_timer_handler, and nothing blank or freed is in it.
THEOREM LockedInvariant ==
  ASSUME MaxCalls \in Nat
  PROVE  LockedSpec => []IInv
<1>1. Init => IInv
  BY InitIInv
<1>2. IInv /\ Locked /\ Locked' /\ [Shell \/ Lvgl]_vars => IInv'
  BY StepIInv
<1>3. QED
  BY <1>1, <1>2, PTL DEF LockedSpec, Spec

\* With the mutex all that lv_async_timer_cb calls for a call is the function
\* that lv_async_call was given.
THEOREM LockedCalls ==
  ASSUME MaxCalls \in Nat
  PROVE  LockedSpec => []CallsWhatItWasGiven
<1>1. IInv => CallsWhatItWasGiven
  <2> SUFFICES ASSUME IInv, NEW c \in Call
               PROVE  ran[c] \subseteq {"set"}
    BY DEF CallsWhatItWasGiven
  <2>1. /\ Life(c) /\ Walk
        /\ c > shell.call \/ c <= shell.call
    BY DEF IInv, Places, Call
  <2>2. CASE Active(c)
    BY <2>1, <2>2 DEF Active, Walk
  <2>3. CASE ~Active(c)
    BY <2>1, <2>3 DEF Life
  <2>4. QED
    BY <2>2, <2>3
<1>2. QED
  BY <1>1, LockedInvariant, PTL

\* With the mutex no call is carried out twice, and of those waiting the newest
\* comes first, as the requests of PmApp do.
THEOREM LockedNewestFirst ==
  ASSUME MaxCalls \in Nat
  PROVE  LockedSpec => []NewestFirst
<1>1. IInv /\ Locked => NewestFirst
  <2> SUFFICES ASSUME IInv, Locked, lvgl.at = "cb"
               PROVE  /\ act \in Call /\ ran[act] = {}
                      /\ \A c \in Call : act < c /\ c <= shell.call => ran[c] # {}
    BY DEF NewestFirst
  <2>1. /\ Walk /\ Stack(Linked, head, next) /\ shell.at = "idle" /\ act \in Call /\ act = head
        /\ ran[act] = {}
    BY DEF IInv, Walk, ListIsStack, Locked
  <2>2. ASSUME NEW c \in Call, act < c, c <= shell.call
        PROVE  ran[c] # {}
    <3>1. ~(c <= head)
      BY <2>1, <2>2 DEF Call
    <3>2. c \notin Linked
      BY <2>1, <3>1 DEF Stack
    <3>3. c \in freed
      BY <2>1, <2>2, <3>2 DEF Linked
    <3>4. Life(c)
      BY DEF IInv
    <3>5. QED
      BY <2>1, <2>2, <3>3, <3>4 DEF Life, Making
  <2>3. QED
    BY <2>1, <2>2
<1>2. QED
  BY <1>1, LockedInvariant, PTL DEF LockedSpec
================================================================================
