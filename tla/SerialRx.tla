------------------------------ MODULE SerialRx ------------------------------
(***************************************************************************)
(* How a typed byte reaches the shell: the UART and its interrupt          *)
(* (drv_uart.c), the receive ring of the serial framework (dev_serial.c)   *)
(* and the thread "tshell", which opens the console, reads the ring and    *)
(* sleeps on a semaphore when it finds it empty (shell.c).  The interrupt  *)
(* is let in when the board opens the console for output (board.c), before *)
(* there is a ring.  It runs over the thread, which goes on only after it; *)
(* the sections that hold the spinlock disable interrupts and are one      *)
(* action each.  A byte is the number of bytes sent before it and itself.  *)
(***************************************************************************)
EXTENDS Integers, Sequences

CONSTANTS
  BufSz,     \* serial->config.bufsz, RT_SERIAL_RB_BUFSZ (64)
  FifoSz,    \* the receive FIFO of the UART
  SemMax,    \* RT_SEM_VALUE_MAX (65535)
  MaxSent    \* bound: the bytes that are sent

ASSUME BufSzAssumption   == BufSz \in Nat /\ BufSz >= 2
ASSUME BoundsAssumption  == FifoSz \in Nat \ {0} /\ SemMax \in Nat \ {0} /\ MaxSent \in Nat

Index == 0 .. BufSz - 1
Byte  == 1 .. MaxSent

VARIABLES
  sent,         \* how many bytes have been sent
  fifo,         \* the receive FIFO
  isr,          \* UART0_Handler: "idle", in its loop, or in rt_assert_handler
  serial_rx,    \* whether serial->serial_rx points to a ring
  buffer, put_index, get_index, is_full,   \* struct rt_serial_rx_fifo
  rx_indicate,  \* whether finsh_rx_ind is set
  rx_sem,       \* the value of shell->rx_sem
  tshell,       \* where the shell thread is
  ch            \* the byte finsh_getchar returned last

ring   == <<buffer, put_index, get_index, is_full>>
vars   == <<sent, fifo, isr, serial_rx, ring, rx_indicate, rx_sem, tshell, ch>>

\* rt_hw_board_init has opened the console without INT_RX: rt_serial_init has
\* set serial_rx to NULL, and UART_Init has enabled the interrupt.
Init ==
  /\ sent = 0 /\ fifo = <<>> /\ isr = "idle" /\ serial_rx = FALSE
  /\ buffer = [i \in Index |-> 0]
  /\ put_index = 0 /\ get_index = 0 /\ is_full = FALSE
  /\ rx_indicate = FALSE /\ rx_sem = 0
  /\ tshell = "start" /\ ch = 0

\* The line: a byte that finds the FIFO full is lost.
Send ==
  /\ sent < MaxSent
  /\ sent' = sent + 1
  /\ fifo' = IF Len(fifo) < FifoSz THEN Append(fifo, sent') ELSE fifo
  /\ UNCHANGED <<isr, serial_rx, ring, rx_indicate, rx_sem, tshell, ch>>

------------------------------------------------------------------------------
(* The ring                                                                *)

\* Mutant of Wrap: the comparison is off by one.
WrapLate(i) == IF i > BufSz THEN i - BufSz ELSE i

\* An index after the last one is the first one.
Wrap(i) == IF i >= BufSz THEN i - BufSz ELSE i

rx_length == IF put_index >= get_index THEN put_index - get_index
             ELSE BufSz - (get_index - put_index)

\* Mutant of StoreByte: the oldest byte is kept when the ring is full.
StoreByteNoDrop(b) ==
  /\ buffer' = [buffer EXCEPT ![put_index] = b]
  /\ put_index' = Wrap(put_index + 1)
  /\ is_full' = (is_full \/ put_index' = get_index)
  /\ UNCHANGED get_index

\* RX_IND in rt_hw_serial_isr: if the next position is the read index, the
\* oldest byte is discarded.
StoreByte(b) ==
  /\ buffer' = [buffer EXCEPT ![put_index] = b]
  /\ put_index' = Wrap(put_index + 1)
  /\ IF put_index' = get_index
     THEN get_index' = Wrap(get_index + 1) /\ is_full' = TRUE
     ELSE UNCHANGED <<get_index, is_full>>

NoData == get_index = put_index /\ is_full = FALSE

\* Mutant of TakeByte: is_full is not reset.
TakeByteStaysFull ==
  /\ ~NoData
  /\ ch' = buffer[get_index]
  /\ get_index' = Wrap(get_index + 1)
  /\ UNCHANGED <<buffer, put_index, is_full>>

\* _serial_int_rx with a length of 1.
TakeByte ==
  /\ ~NoData
  /\ ch' = buffer[get_index]
  /\ get_index' = Wrap(get_index + 1)
  /\ is_full' = FALSE
  /\ UNCHANGED <<buffer, put_index>>

------------------------------------------------------------------------------
(* The interrupt: with a threshold of 0 it is pending while a byte waits.  *)

\* rt_hw_serial_isr asserts that there is a ring.  If there is none,
\* rt_assert_handler loops for ever, and with it all below the interrupt.
EnterIsr ==
  /\ isr = "idle" /\ fifo # <<>>
  /\ isr' = IF serial_rx THEN "drain" ELSE "assert"
  /\ UNCHANGED <<sent, fifo, serial_rx, ring, rx_indicate, rx_sem, tshell, ch>>

\* swm_uart_getc takes the bytes one by one; more may arrive meanwhile.
IsrStore ==
  /\ isr = "drain" /\ fifo # <<>>
  /\ fifo' = Tail(fifo)
  /\ StoreByte(Head(fifo))
  /\ UNCHANGED <<sent, isr, serial_rx, rx_indicate, rx_sem, tshell, ch>>

\* Mutant of IsrIndicate: only the first byte in an empty ring is told.
IsrIndicateFirst ==
  /\ isr = "drain" /\ fifo = <<>>
  /\ isr' = "idle"
  /\ rx_sem' = IF rx_indicate /\ rx_length = 1 /\ rx_sem < SemMax THEN rx_sem + 1 ELSE rx_sem
  /\ UNCHANGED <<sent, fifo, serial_rx, ring, rx_indicate, tshell, ch>>

\* The FIFO is empty: finsh_rx_ind releases the semaphore once, however many
\* bytes came.  At its largest value rt_sem_release fails.
IsrIndicate ==
  /\ isr = "drain" /\ fifo = <<>>
  /\ isr' = "idle"
  /\ rx_sem' = IF rx_indicate /\ rx_length # 0 /\ rx_sem < SemMax THEN rx_sem + 1 ELSE rx_sem
  /\ UNCHANGED <<sent, fifo, serial_rx, ring, rx_indicate, tshell, ch>>

------------------------------------------------------------------------------
(* The shell thread                                                        *)

\* The thread runs only while the interrupt does not.
At(pos, next) == isr = "idle" /\ tshell = pos /\ tshell' = next

\* finsh_set_device: rt_serial_open makes an empty ring ...
Open ==
  /\ At("start", "opened")
  /\ serial_rx' = TRUE
  /\ put_index' = 0 /\ get_index' = 0 /\ is_full' = FALSE
  /\ buffer' = [i \in Index |-> 0]
  /\ UNCHANGED <<sent, fifo, isr, rx_indicate, rx_sem, ch>>

\* Mutant of SetRxIndicate: the call is forgotten.
SetNoRxIndicate ==
  /\ At("opened", "read")
  /\ UNCHANGED <<sent, fifo, isr, serial_rx, ring, rx_indicate, rx_sem, ch>>

\* ... and only then the callback is set: bytes may have come without it.
SetRxIndicate ==
  /\ At("opened", "read")
  /\ rx_indicate' = TRUE
  /\ UNCHANGED <<sent, fifo, isr, serial_rx, ring, rx_sem, ch>>

\* finsh_getchar: a byte is read, or the thread goes to sleep.
Read ==
  /\ At("read", "work")
  /\ TakeByte
  /\ UNCHANGED <<sent, fifo, isr, serial_rx, rx_indicate, rx_sem>>

ReadNothing ==
  /\ At("read", "take") /\ NoData
  /\ UNCHANGED <<sent, fifo, isr, serial_rx, ring, rx_indicate, rx_sem, ch>>

\* rt_sem_take for ever, and the loop tries again.
TakeSem ==
  /\ At("take", "read") /\ rx_sem > 0
  /\ rx_sem' = rx_sem - 1
  /\ UNCHANGED <<sent, fifo, isr, serial_rx, ring, rx_indicate, ch>>

\* finsh_thread_entry edits its line or runs a command, for any time.
Work ==
  /\ At("work", "read")
  /\ UNCHANGED <<sent, fifo, isr, serial_rx, ring, rx_indicate, rx_sem, ch>>

Isr    == EnterIsr \/ IsrStore \/ IsrIndicate
Thread == Open \/ SetRxIndicate \/ Read \/ ReadNothing \/ TakeSem \/ Work
Next   == Send \/ Isr \/ Thread

Spec == Init /\ [][Next]_vars

\* A pending interrupt is served, and the thread is scheduled when ready.
FairSpec == Spec /\ WF_vars(Isr) /\ WF_vars(Thread)

------------------------------------------------------------------------------
(* Properties                                                              *)

\* What the variables hold; in particular both indices stay in the buffer.
TypeOK ==
  /\ sent \in 0 .. MaxSent /\ fifo \in Seq(Byte)
  /\ isr \in {"idle", "drain", "assert"} /\ serial_rx \in BOOLEAN
  /\ buffer \in [Index -> 0 .. MaxSent]
  /\ put_index \in Index /\ get_index \in Index /\ is_full \in BOOLEAN
  /\ rx_indicate \in BOOLEAN /\ rx_sem \in 0 .. SemMax
  /\ tshell \in {"start", "opened", "read", "take", "work"}
  /\ ch \in 0 .. MaxSent

\* The reader takes is_full for "there is data" even if the indices are equal,
\* and the writer sets it when it has just moved them apart: the flag is up
\* only while the ring holds all it can, so no byte is read from an empty one.
FullMeansFull == is_full => rx_length = BufSz - 1

\* A byte in the ring never finds the shell asleep without a wake-up: the
\* semaphore has a unit left for it, or the interrupt is about to release it.
\* This is so although bytes get into the ring before the callback is set, one
\* release stands for many bytes, and releases can fail.
NoLostWakeUp ==
  (tshell = "take" /\ rx_length > 0) => (rx_sem > 0 \/ isr = "drain")

\* The ring as the reader sees it, oldest byte first.
Contents == [i \in 1 .. rx_length |-> buffer[Wrap(get_index + i - 1)]]

\* The ring behind the interrupt and the lock is the queue DropQueue of
\* capacity bufsz - 1: bytes in order, none twice, the oldest lost if any.
Queue == INSTANCE DropQueue WITH queue <- Contents, last <- ch, Capacity <- BufSz - 1

QueueSpec == Queue!Spec

\* Byte b is in the FIFO or in the ring.
OnItsWay(b) == \/ \E i \in 1 .. Len(fifo) : fifo[i] = b
               \/ \E i \in 1 .. rx_length : Contents[i] = b

\* Every byte that gets into the FIFO leaves the ring: it is read, unless later
\* ones push it out, or the failed assertion has stopped the system.
EveryByteLeaves ==
  \A b \in Byte : OnItsWay(b) ~> (~OnItsWay(b) \/ isr = "assert")

\* dev_serial.c:1427 asserts in the interrupt routine "rx_fifo != RT_NULL": the
\* interrupt never finds the console without a ring.
RxFifoThere == isr # "assert"
==============================================================================
