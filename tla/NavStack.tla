------------------------------- MODULE NavStack -------------------------------
(***************************************************************************)
(* What the page manager of src/middleware/lvgl_pm promises its client     *)
(* about navigation: a bounded stack of pages whose last element is the    *)
(* page on show.  Opening puts a page on the stack or in place of its top; *)
(* going back takes the top off and never empties the stack.               *)
(***************************************************************************)
EXTENDS Naturals, Sequences

CONSTANTS
  Page,   \* the pages
  Depth   \* the greatest length of the stack, not 0

VARIABLE stack

\* The stack is within its bound.
TypeOK == stack \in Seq(Page) /\ Len(stack) \in 0 .. Depth

Init == stack = <<>>

Push(p) ==
  /\ Len(stack) < Depth
  /\ stack' = Append(stack, p)

\* The manager refuses every open on a full stack, a replacement included.
Replace(p) ==
  /\ Len(stack) \in 1 .. Depth - 1
  /\ stack' = [stack EXCEPT ![Len(stack)] = p]

Pop ==
  /\ Len(stack) >= 2
  /\ stack' = SubSeq(stack, 1, Len(stack) - 1)

Next ==
  \/ \E p \in Page : Push(p) \/ Replace(p)
  \/ Pop

Spec == Init /\ [][Next]_stack
===============================================================================
