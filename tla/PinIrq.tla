------------------------------- MODULE PinIrq -------------------------------
(***************************************************************************)
(* The pin interrupts of the SWM341 GPIO driver (drv_gpio.c): the handlers  *)
(* a thread attaches to pins, the enable and the latched request of each   *)
(* pin, and the interrupt service routine swm_pin_isr that all ports share. *)
(* One processor: while the routine runs no thread does, and the port       *)
(* interrupts have one priority, so that they do not nest.  Edges come at   *)
(* any time.                                                               *)
(*                                                                         *)
(* The routine keeps in a static table the indices of the pins it looks at; *)
(* the table is filled once, at the first interrupt of any port, with the   *)
(* pins of that port.                                                      *)
(***************************************************************************)
EXTENDS Integers

CONSTANTS
  Port,   \* the GPIO ports whose interrupts are used
  NoPort, \* no port
  Pins    \* the pins of a port (16 on the chip)

Pin     == Port \X (0..Pins - 1)
PortOf(p) == p[1]
Mode    == {"rising", "falling", "both"}   \* the edge modes; level modes are left out

VARIABLES
  tab,      \* pin_irq_hdr_tab: the mode of each pin and whether it has a hdr
  trigger,  \* the edges the port is programmed to latch, per pin (EXTI_Init)
  inten,    \* the pins whose interrupt is open (INTEN)
  raw,      \* the pins that latched a request (INTRAWSTAT)
  nvic,     \* the ports whose interrupt the NVIC lets through
  level,    \* the pins that are high
  arming,   \* the pin (if any) between EXTI_Init and EXTI_Open in its enabling
  table,    \* the port whose pins `gpio` holds; NoPort while init = 0
  isr,      \* the port whose interrupt is being served, or NoPort
  index,    \* the loop counter of swm_pin_isr
  due,      \* pins that had a request and a handler when the routine started
  ran       \* pins whose handler this run of the routine has called

thread == <<tab, trigger, inten, nvic, arming>>
routine == <<table, isr, index, due, ran>>
vars == <<thread, raw, level, routine>>

intstat == raw \cap inten   \* INTSTAT: the latched requests of the open pins

TypeOK ==
  /\ tab \in [Pin -> [mode : Mode, hdr : BOOLEAN]]
  /\ trigger \in [Pin -> SUBSET {"rising", "falling"}]
  /\ inten \subseteq Pin
  /\ raw \subseteq Pin
  /\ nvic \subseteq Port
  /\ level \subseteq Pin
  /\ arming \subseteq Pin
  /\ table \in Port \cup {NoPort}
  /\ isr \in Port \cup {NoPort}
  /\ index \in 0..Pins
  /\ due \subseteq Pin
  /\ ran \subseteq Pin

Init ==
  /\ tab = [p \in Pin |-> [mode |-> "rising", hdr |-> FALSE]]
  /\ trigger = [p \in Pin |-> {}]
  /\ inten = {} /\ raw = {} /\ nvic = {} /\ level = {}
  /\ arming = {}
  /\ table = NoPort
  /\ isr = NoPort /\ index = 0 /\ due = {} /\ ran = {}

-----------------------------------------------------------------------------
(* The thread that uses the pins.                                           *)

Idle == isr = NoPort /\ arming = {}

swm_pin_attach_irq(p, m) ==
  /\ Idle
  /\ tab' = [tab EXCEPT ![p] = [mode |-> m, hdr |-> TRUE]]
  /\ UNCHANGED <<trigger, inten, nvic, arming, raw, level, routine>>

\* The pin's interrupt stays open: only its handler goes, and its mode reads 0,
\* which is the rising edge.
swm_pin_detach_irq(p) ==
  /\ Idle
  /\ tab' = [tab EXCEPT ![p] = [mode |-> "rising", hdr |-> FALSE]]
  /\ UNCHANGED <<trigger, inten, nvic, arming, raw, level, routine>>

Edges(m) == IF m = "both" THEN {"rising", "falling"} ELSE {m}

\* EXTI_Init closes the interrupt, programs the edge and drops the request.
irq_enable_init(p) ==
  /\ Idle
  /\ trigger' = [trigger EXCEPT ![p] = Edges(tab[p].mode)]
  /\ inten' = inten \ {p}
  /\ raw' = raw \ {p}
  /\ arming' = {p}
  /\ UNCHANGED <<tab, nvic, level, routine>>

\* With interrupts masked: NVIC_EnableIRQ and EXTI_Open.
irq_enable_open(p) ==
  /\ isr = NoPort /\ p \in arming
  /\ nvic' = nvic \cup {PortOf(p)}
  /\ inten' = inten \cup {p}
  /\ arming' = {}
  /\ UNCHANGED <<tab, trigger, raw, level, routine>>

\* NVIC_DisableIRQ is commented out: the other pins of the port go on.
irq_disable(p) ==
  /\ Idle
  /\ inten' = inten \ {p}
  /\ UNCHANGED <<tab, trigger, nvic, arming, raw, level, routine>>

-----------------------------------------------------------------------------
(* The pins and the interrupt service routine.                              *)

\* A pin changes its level; the port latches the edges it is programmed for.
Edge(p) ==
  LET rise == p \notin level
      latched == (IF rise THEN "rising" ELSE "falling") \in trigger[p]
  IN /\ level' = IF rise THEN level \cup {p} ELSE level \ {p}
     /\ raw' = IF latched THEN raw \cup {p} ELSE raw
     /\ UNCHANGED <<thread, routine>>

\* The NVIC enters GPIOx_Handler; swm_pin_isr fills the table if it is empty.
EnterIsr(g) ==
  LET asked == {p \in intstat : PortOf(p) = g}
  IN /\ isr = NoPort
     /\ g \in nvic /\ asked # {}
     /\ isr' = g
     /\ table' = IF table = NoPort THEN g ELSE table
     /\ index' = 0
     /\ due' = {p \in asked : tab[p].hdr}
     /\ ran' = {}
     /\ UNCHANGED <<thread, raw, level>>

\* One turn of the loop: the pin the table holds, whatever port is served.
ServePin ==
  LET p == <<table, index>>
  IN /\ isr # NoPort /\ index < Pins
     /\ index' = index + 1
     /\ raw' = IF p \in intstat THEN raw \ {p} ELSE raw
     /\ ran' = IF p \in intstat /\ tab[p].hdr THEN ran \cup {p} ELSE ran
     /\ UNCHANGED <<thread, level, table, isr, due>>

LeaveIsr ==
  /\ isr # NoPort /\ index = Pins
  /\ isr' = NoPort
  /\ index' = 0 /\ due' = {} /\ ran' = {}
  /\ UNCHANGED <<thread, raw, level, table>>

Thread ==
  \E p \in Pin :
    \/ \E m \in Mode : swm_pin_attach_irq(p, m)
    \/ swm_pin_detach_irq(p)
    \/ irq_enable_init(p)
    \/ irq_enable_open(p)
    \/ irq_disable(p)

Routine == (\E g \in Port : EnterIsr(g)) \/ ServePin \/ LeaveIsr

Next == Thread \/ Routine \/ \E p \in Pin : Edge(p)

Spec == Init /\ [][Next]_vars

-----------------------------------------------------------------------------
\* Every handler whose pin had a request when the interrupt of its port was
\* entered has been called when swm_pin_isr ends: rt_pin_attach_irq binds a
\* callback to the interrupt of any pin, of any port.
HandlerRuns == isr # NoPort /\ index = Pins => due \subseteq ran

=============================================================================
