---------------------------- MODULE PinIrqProofs ----------------------------
(***************************************************************************)
(* What does hold of the shared interrupt routine, for any number of ports  *)
(* and pins: the port that filled the table is served completely, and so is *)
(* every port when the firmware uses the interrupts of one port only, as    *)
(* pin_sample (applications/main.c) does.                                   *)
(***************************************************************************)
EXTENDS PinIrq, TLAPS

\* The port whose pins are in the table.
OwnPortRuns ==
  isr # NoPort /\ isr = table /\ index = Pins => due \subseteq ran

\* Half-way through the loop: a request of the served port that is due has had
\* its handler called, or is still latched with its handler in place.
Progress ==
  /\ isr # NoPort => table # NoPort
  /\ isr # NoPort =>
       \A p \in due : /\ PortOf(p) = isr
                      /\ isr = table =>
                           \/ p \in ran
                           \/ p[2] >= index /\ p \in intstat /\ tab[p].hdr

IInv == TypeOK /\ Progress

LEMMA PinShape ==
  ASSUME NEW p \in Pin
  PROVE  /\ p = <<p[1], p[2]>>
         /\ PortOf(p) \in Port
         /\ p[2] \in 0..Pins - 1
BY DEF Pin, PortOf

LEMMA InitIInv ==
  ASSUME Init, Pins \in Nat
  PROVE  IInv
BY SMT DEF Init, IInv, TypeOK, Progress, Mode

\* A thread step happens only while no interrupt is being served.
LEMMA ThreadIInv ==
  ASSUME IInv, Pins \in Nat, Thread
  PROVE  IInv'
<1>1. PICK q \in Pin :
        \/ \E m \in Mode : swm_pin_attach_irq(q, m)
        \/ swm_pin_detach_irq(q)
        \/ irq_enable_init(q)
        \/ irq_enable_open(q)
        \/ irq_disable(q)
  BY DEF Thread
<1>2. isr = NoPort /\ UNCHANGED <<table, isr, index, due, ran>>
  BY <1>1 DEF swm_pin_attach_irq, swm_pin_detach_irq, irq_enable_init,
              irq_enable_open, irq_disable, Idle, routine
<1>3. Progress'
  BY <1>2 DEF Progress
<1>4. TypeOK'
  <2>1. ASSUME NEW m \in Mode, swm_pin_attach_irq(q, m)
        PROVE  TypeOK'
    BY <2>1 DEF swm_pin_attach_irq, IInv, TypeOK, routine
  <2>2. CASE swm_pin_detach_irq(q)
    BY <2>2 DEF swm_pin_detach_irq, IInv, TypeOK, Mode, routine
  <2>3. CASE irq_enable_init(q)
    <3>1. Edges(tab[q].mode) \in SUBSET {"rising", "falling"}
      BY DEF Edges, IInv, TypeOK, Mode
    <3>2. QED
      BY <2>3, <3>1 DEF irq_enable_init, IInv, TypeOK, routine
  <2>4. CASE irq_enable_open(q)
    BY <2>4, PinShape DEF irq_enable_open, IInv, TypeOK, routine
  <2>5. CASE irq_disable(q)
    BY <2>5 DEF irq_disable, IInv, TypeOK, routine
  <2>6. QED
    BY <1>1, <2>1, <2>2, <2>3, <2>4, <2>5
<1>5. QED
  BY <1>3, <1>4 DEF IInv

\* An edge only adds requests.
LEMMA EdgeIInv ==
  ASSUME IInv, Pins \in Nat, NEW q \in Pin, Edge(q)
  PROVE  IInv'
<1>1. /\ UNCHANGED <<tab, trigger, inten, nvic, arming, table, isr, index, due, ran>>
      /\ raw \subseteq raw' /\ raw' \subseteq raw \cup {q}
      /\ level' \subseteq level \cup {q}
  BY DEF Edge, thread, routine
<1>2. intstat \subseteq intstat'
  BY <1>1 DEF intstat
<1>3. QED
  BY <1>1, <1>2 DEF IInv, TypeOK, Progress

LEMMA EnterIInv ==
  ASSUME IInv, Pins \in Nat, NoPort \notin Port, NEW g \in Port, EnterIsr(g)
  PROVE  IInv'
<1>1. TypeOK'
  BY DEF EnterIsr, IInv, TypeOK, thread, intstat
<1>2. /\ isr' = g /\ index' = 0
      /\ UNCHANGED <<tab, inten, raw>>
      /\ table' # NoPort
      /\ due' = {p \in intstat : PortOf(p) = g /\ tab[p].hdr}
  BY DEF EnterIsr, thread
<1>3. ASSUME NEW p \in due'
      PROVE  PortOf(p) = isr' /\ p[2] >= index' /\ p \in intstat' /\ tab'[p].hdr
  <2>1. p \in Pin
    BY <1>1, <1>3 DEF TypeOK
  <2>2. QED
    BY <1>2, <1>3, <2>1, PinShape DEF intstat
<1>4. QED
  BY <1>1, <1>2, <1>3 DEF IInv, Progress

\* One turn of the loop calls the handler of the pin it looks at, when that pin
\* is due, and leaves the others alone.
LEMMA ServeIInv ==
  ASSUME IInv, Pins \in Nat, ServePin
  PROVE  IInv'
<1> DEFINE q == <<table, index>>
<1>0. /\ isr # NoPort /\ index < Pins /\ index \in Nat
      /\ index' = index + 1
      /\ UNCHANGED <<tab, trigger, inten, nvic, arming, level, table, isr, due>>
      /\ raw' = IF q \in intstat THEN raw \ {q} ELSE raw
      /\ ran' = IF q \in intstat /\ tab[q].hdr THEN ran \cup {q} ELSE ran
  BY DEF ServePin, IInv, TypeOK, thread
<1>1. TypeOK'
  <2>1. q \in intstat => q \in Pin
    BY DEF IInv, TypeOK, intstat
  <2>2. ran' \subseteq Pin /\ raw' \subseteq Pin
    BY <1>0, <2>1 DEF IInv, TypeOK
  <2>3. index' \in 0..Pins
    BY <1>0
  <2>4. QED
    BY <1>0, <2>2, <2>3 DEF IInv, TypeOK
<1>2. ASSUME NEW p \in due, isr = table
      PROVE  \/ p \in ran'
             \/ p[2] >= index' /\ p \in intstat' /\ tab'[p].hdr
  <2>1. PortOf(p) = isr /\ (p \in ran \/ (p[2] >= index /\ p \in intstat /\ tab[p].hdr))
    BY <1>0, <1>2 DEF IInv, Progress
  <2>2. p = <<p[1], p[2]>> /\ p[2] \in Int /\ p[1] = table
    <3>1. p \in Pin
      BY DEF IInv, TypeOK
    <3>2. QED
      BY <2>1, <3>1, <1>2, PinShape DEF PortOf
  <2>3. CASE p \in ran
    BY <1>0, <2>3
  <2>4. CASE p # q /\ p[2] >= index /\ p \in intstat /\ tab[p].hdr
    <3>1. p[2] # index
      BY <2>2, <2>4
    <3>2. p[2] >= index'
      BY <1>0, <2>2, <2>4, <3>1
    <3>3. p \in intstat'
      BY <1>0, <2>4 DEF intstat
    <3>4. QED
      BY <1>0, <2>4, <3>2, <3>3
  <2>5. CASE p = q /\ p \in intstat /\ tab[p].hdr
    BY <1>0, <2>5
  <2>6. QED
    BY <2>1, <2>3, <2>4, <2>5
<1>3. Progress'
  <2>1. ASSUME NEW p \in due
        PROVE  PortOf(p) = isr
    BY <1>0 DEF IInv, Progress
  <2>2. table # NoPort
    BY <1>0 DEF IInv, Progress
  <2>3. QED
    BY <1>0, <1>2, <2>1, <2>2 DEF Progress
<1>4. QED
  BY <1>1, <1>3 DEF IInv

LEMMA LeaveIInv ==
  ASSUME IInv, Pins \in Nat, LeaveIsr
  PROVE  IInv'
BY DEF LeaveIsr, IInv, TypeOK, Progress, thread

LEMMA StepIInv ==
  ASSUME IInv, Pins \in Nat, NoPort \notin Port, [Next]_vars
  PROVE  IInv'
<1>1. CASE Thread
  BY <1>1, ThreadIInv
<1>2. ASSUME NEW g \in Port, EnterIsr(g)
      PROVE  IInv'
  BY <1>2, EnterIInv
<1>3. CASE ServePin
  BY <1>3, ServeIInv
<1>4. CASE LeaveIsr
  BY <1>4, LeaveIInv
<1>5. ASSUME NEW p \in Pin, Edge(p)
      PROVE  IInv'
  BY <1>5, EdgeIInv
<1>6. CASE UNCHANGED vars
  BY <1>6 DEF vars, thread, routine, IInv, TypeOK, Progress, intstat
<1>7. QED
  BY <1>1, <1>2, <1>3, <1>4, <1>5, <1>6 DEF Next, Routine

\* The routine has looked at every pin of the table when its loop has ended.
LEMMA ProgressEnds ==
  ASSUME IInv, Pins \in Nat
  PROVE  OwnPortRuns
<1> SUFFICES ASSUME isr # NoPort, isr = table, index = Pins, NEW p \in due
             PROVE  p \in ran
  BY DEF OwnPortRuns
<1>1. p[2] \in 0..Pins - 1
  BY PinShape DEF IInv, TypeOK
<1>2. ~(p[2] >= index)
  BY <1>1
<1>3. QED
  BY <1>2 DEF IInv, Progress

\* The port whose interrupt came first, and whose pins the static table of
\* swm_pin_isr therefore holds, never loses a handler call: each of its pins
\* that had a request and a handler on entry has had the handler called.
THEOREM FirstPortServed ==
  ASSUME Pins \in Nat, NoPort \notin Port
  PROVE  Spec => []OwnPortRuns
<1>1. Init => IInv
  BY InitIInv
<1>2. IInv /\ [Next]_vars => IInv'
  BY StepIInv
<1>3. IInv => OwnPortRuns
  BY ProgressEnds
<1>4. QED
  BY <1>1, <1>2, <1>3, PTL DEF Spec

\* With the interrupts of a single port in use, as in pin_sample, the routine
\* keeps its promise: HandlerRuns is an invariant.
THEOREM OnePortServed ==
  ASSUME Pins \in Nat, NoPort \notin Port, NEW g, Port = {g}
  PROVE  Spec => []HandlerRuns
<1>1. Init => IInv
  BY InitIInv
<1>2. IInv /\ [Next]_vars => IInv'
  BY StepIInv
<1>3. IInv => HandlerRuns
  <2> SUFFICES ASSUME IInv, isr # NoPort, index = Pins
               PROVE  due \subseteq ran
    BY DEF HandlerRuns
  <2>1. isr = g /\ table = g
    BY DEF IInv, TypeOK, Progress
  <2>2. OwnPortRuns
    BY ProgressEnds
  <2>3. QED
    BY <2>1, <2>2 DEF OwnPortRuns
<1>4. QED
  BY <1>1, <1>2, <1>3, PTL DEF Spec

=============================================================================
