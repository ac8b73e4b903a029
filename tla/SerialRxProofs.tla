--------------------------- MODULE SerialRxProofs ---------------------------
(***************************************************************************)
(* For every size of the ring, the FIFO and the semaphore: the indices     *)
(* stay in the buffer, is_full is up only when the ring is full, no byte   *)
(* finds the shell asleep without a wake-up, and the ring with its two     *)
(* indices is the queue DropQueue.                                         *)
(***************************************************************************)
EXTENDS SerialRx, SequenceTheorems, TLAPS

\* The shell thread makes the ring and sets the callback on its way to its
\* loop.  Until there is a ring no byte is stored: the interrupt that takes one
\* from the FIFO stops at its assertion, and the thread with it.
Started ==
  /\ tshell = "start" <=> ~serial_rx
  /\ tshell = "start" => (isr # "drain" /\ put_index = get_index /\ is_full = FALSE)
  /\ isr = "assert" => tshell = "start"
  /\ tshell \in {"read", "take", "work"} => rx_indicate

\* The inductive invariant.
IInv == TypeOK /\ Started /\ FullMeansFull /\ NoLostWakeUp

USE BufSzAssumption, BoundsAssumption

------------------------------------------------------------------------------
(* The ring                                                                *)

\* What Wrap and rx_length return for indices in the buffer.
LEMMA WrapIndex ==
  ASSUME NEW i \in Index
  PROVE  /\ Wrap(i + 1) \in Index
         /\ Wrap(i + 1) = IF i = BufSz - 1 THEN 0 ELSE i + 1
BY DEF Wrap, Index

LEMMA ZeroIndex == 0 \in Index
BY DEF Index

LEMMA LengthRange ==
  ASSUME put_index \in Index, get_index \in Index
  PROVE  /\ rx_length \in 0 .. BufSz - 1
         /\ rx_length = 0 <=> put_index = get_index
BY DEF rx_length, Index

\* A byte is stored: the ring gets longer by one unless it was full.
LEMMA StoreLength ==
  ASSUME TypeOK, NEW b \in Byte, StoreByte(b)
  PROVE  /\ buffer' \in [Index -> 0 .. MaxSent]
         /\ put_index' \in Index /\ get_index' \in Index /\ is_full' \in BOOLEAN
         /\ rx_length' = IF rx_length = BufSz - 1 THEN BufSz - 1 ELSE rx_length + 1
         /\ rx_length < BufSz - 1 => (get_index' = get_index /\ is_full' = is_full)
         /\ rx_length = BufSz - 1 => (get_index' = Wrap(get_index + 1) /\ is_full' = TRUE)
<1>1. buffer' = [buffer EXCEPT ![put_index] = b] /\ b \in 0 .. MaxSent
  BY DEF StoreByte, Byte
<1>2. put_index' = IF put_index = BufSz - 1 THEN 0 ELSE put_index + 1
  BY WrapIndex DEF StoreByte, TypeOK
<1>3. Wrap(get_index + 1) = IF get_index = BufSz - 1 THEN 0 ELSE get_index + 1
  BY WrapIndex DEF TypeOK
<1>4. IF put_index' = get_index
      THEN get_index' = Wrap(get_index + 1) /\ is_full' = TRUE
      ELSE get_index' = get_index /\ is_full' = is_full
  BY DEF StoreByte
<1>5. put_index' = get_index <=> rx_length = BufSz - 1
  BY <1>2 DEF rx_length, TypeOK, Index
<1>6. rx_length' = IF rx_length = BufSz - 1 THEN BufSz - 1 ELSE rx_length + 1
  BY <1>2, <1>3, <1>4, <1>5, SMTT(30) DEF rx_length, TypeOK, Index
<1>7. buffer' \in [Index -> 0 .. MaxSent]
  BY <1>1 DEF TypeOK
<1>8. put_index' \in Index /\ get_index' \in Index
  BY <1>2, <1>3, <1>4 DEF TypeOK, Index
<1>9. is_full' \in BOOLEAN
  BY <1>4 DEF TypeOK
<1> QED
  BY <1>4, <1>5, <1>6, <1>7, <1>8, <1>9, LengthRange DEF TypeOK

\* A byte is taken: under FullMeansFull there is one, and the ring gets
\* shorter by one.
LEMMA TakeLength ==
  ASSUME TypeOK, FullMeansFull, TakeByte
  PROVE  /\ ch' \in 0 .. MaxSent
         /\ get_index' \in Index
         /\ rx_length > 0
         /\ rx_length' = rx_length - 1
BY DEF TypeOK, FullMeansFull, TakeByte, NoData, Wrap, rx_length, Index

------------------------------------------------------------------------------
(* The invariant                                                           *)

LEMMA InitIInv == Init => IInv
<1> SUFFICES ASSUME Init PROVE IInv
  OBVIOUS
<1>1. buffer \in [Index -> 0 .. MaxSent] /\ fifo \in Seq(Byte)
  BY DEF Init
<1>2. TypeOK
  <2>1. 0 \in 0 .. MaxSent /\ 0 \in 0 .. SemMax
    OBVIOUS
  <2> QED
    BY <1>1, <2>1, ZeroIndex DEF Init, TypeOK
<1> QED
  BY <1>2 DEF Init, IInv, Started, FullMeansFull, NoLostWakeUp

LEMMA StepIInv == IInv /\ [Next]_vars => IInv'
<1> SUFFICES ASSUME IInv, [Next]_vars
             PROVE  IInv'
  OBVIOUS
<1> USE DEF IInv
<1>1. CASE Send
  <2>1. sent' \in 0 .. MaxSent /\ sent' \in Byte
    BY <1>1 DEF Send, TypeOK, Byte
  <2>2. fifo' \in Seq(Byte)
    BY <1>1, <2>1 DEF Send, TypeOK
  <2>3. TypeOK'
    BY <1>1, <2>1, <2>2 DEF Send, TypeOK, ring
  <2> QED
    BY <1>1, <2>3 DEF Send, ring, Started, FullMeansFull, NoLostWakeUp, rx_length
<1>2. CASE EnterIsr
  BY <1>2 DEF EnterIsr, ring, TypeOK, Started, FullMeansFull, NoLostWakeUp, rx_length
<1>3. CASE IsrStore
  <2>1. Head(fifo) \in Byte /\ fifo' \in Seq(Byte)
    BY <1>3 DEF IsrStore, TypeOK
  <2>2. StoreByte(Head(fifo))
    BY <1>3 DEF IsrStore
  <2>3. TypeOK'
    BY <1>3, <2>1, <2>2, StoreLength DEF IsrStore, TypeOK
  <2>4. FullMeansFull'
    <3>1. rx_length \in 0 .. BufSz - 1
      BY LengthRange DEF TypeOK
    <3>2. /\ rx_length' = IF rx_length = BufSz - 1 THEN BufSz - 1 ELSE rx_length + 1
          /\ rx_length < BufSz - 1 => is_full' = is_full
      BY <2>1, <2>2, StoreLength
    <3>3. CASE rx_length = BufSz - 1
      BY <3>2, <3>3 DEF FullMeansFull
    <3>4. CASE rx_length < BufSz - 1
      <4>1. ~is_full
        BY <3>1, <3>4 DEF FullMeansFull
      <4>2. is_full' = is_full
        BY <3>2, <3>4
      <4> QED
        BY <4>1, <4>2 DEF FullMeansFull
    <3> QED
      BY <3>1, <3>3, <3>4
  <2> QED
    BY <1>3, <2>3, <2>4 DEF IsrStore, Started, NoLostWakeUp
<1>4. CASE IsrIndicate
  <2>1. TypeOK'
    BY <1>4 DEF IsrIndicate, TypeOK, ring
  <2>2. NoLostWakeUp'
    BY <1>4 DEF IsrIndicate, TypeOK, ring, Started, NoLostWakeUp, rx_length
  <2> QED
    BY <1>4, <2>1, <2>2 DEF IsrIndicate, ring, Started, FullMeansFull, rx_length
<1>5. CASE Open
  <2>1. buffer' \in [Index -> 0 .. MaxSent]
    BY <1>5 DEF Open
  <2>2. TypeOK'
    BY <1>5, <2>1, ZeroIndex DEF Open, At, TypeOK
  <2> QED
    BY <1>5, <2>2 DEF Open, At, Started, FullMeansFull, NoLostWakeUp
<1>6. CASE SetRxIndicate
  BY <1>6 DEF SetRxIndicate, At, ring, TypeOK, Started, FullMeansFull, NoLostWakeUp, rx_length
<1>7. CASE Read
  <2>1. TakeByte
    BY <1>7 DEF Read
  <2>2. TypeOK'
    BY <1>7, <2>1, TakeLength DEF Read, At, TypeOK, TakeByte
  <2> QED
    BY <1>7, <2>1, <2>2 DEF Read, At, TakeByte, Started, FullMeansFull, NoLostWakeUp
<1>8. CASE ReadNothing
  BY <1>8 DEF ReadNothing, NoData, At, ring, TypeOK, Started, FullMeansFull, NoLostWakeUp,
              rx_length, Index
<1>9. CASE TakeSem
  BY <1>9 DEF TakeSem, At, ring, TypeOK, Started, FullMeansFull, NoLostWakeUp, rx_length
<1>10. CASE Work
  BY <1>10 DEF Work, At, ring, TypeOK, Started, FullMeansFull, NoLostWakeUp, rx_length
<1>11. CASE UNCHANGED vars
  BY <1>11 DEF vars, ring, TypeOK, Started, FullMeansFull, NoLostWakeUp, rx_length
<1> QED
  BY <1>1, <1>2, <1>3, <1>4, <1>5, <1>6, <1>7, <1>8, <1>9, <1>10, <1>11
  DEF Next, Isr, Thread

LEMMA Invariant == Spec => []IInv
BY InitIInv, StepIInv, PTL DEF Spec

\* The variables keep their types: no store and no read is outside the buffer
\* (StoreByte and TakeByte, dev_serial.c).
THEOREM TypeCorrect == Spec => []TypeOK
BY Invariant, PTL DEF IInv

\* is_full is up only while the ring holds bufsz - 1 bytes.
THEOREM FullCorrect == Spec => []FullMeansFull
BY Invariant, PTL DEF IInv

\* No byte in the ring finds the shell asleep without a wake-up on its way.
THEOREM WakeUpCorrect == Spec => []NoLostWakeUp
BY Invariant, PTL DEF IInv

------------------------------------------------------------------------------
(* The ring is a queue                                                     *)

\* The n bytes of a buffer b from index g on, in the order of reading.
From(b, g, n) == [i \in 1 .. n |-> b[Wrap(g + i - 1)]]

LEMMA FromSeq ==
  ASSUME NEW b \in [Index -> 0 .. MaxSent], NEW g \in Index, NEW n \in 0 .. BufSz - 1
  PROVE  /\ From(b, g, n) \in Seq(0 .. MaxSent)
         /\ Len(From(b, g, n)) = n
         /\ \A i \in 1 .. n : From(b, g, n)[i] = b[Wrap(g + i - 1)]
<1>1. \A i \in 1 .. n : Wrap(g + i - 1) \in Index
  BY DEF Wrap, Index
<1>2. From(b, g, n) \in [1 .. n -> 0 .. MaxSent]
  BY <1>1 DEF From
<1>3. From(b, g, n) \in Seq(0 .. MaxSent)
  BY <1>2, SeqDef
<1>4. DOMAIN From(b, g, n) = 1 .. n /\ DOMAIN From(b, g, n) = 1 .. Len(From(b, g, n))
  BY <1>3, LenProperties DEF From
<1>5. Len(From(b, g, n)) = n
  BY <1>3, <1>4, LenProperties
<1> QED
  BY <1>3, <1>5 DEF From

\* Without its first byte.
LEMMA FromTail ==
  ASSUME NEW b \in [Index -> 0 .. MaxSent], NEW g \in Index, NEW n \in 1 .. BufSz - 1
  PROVE  /\ From(b, g, n) # <<>>
         /\ Head(From(b, g, n)) = b[g]
         /\ Tail(From(b, g, n)) = From(b, Wrap(g + 1), n - 1)
<1> DEFINE s == From(b, g, n)
           t == From(b, Wrap(g + 1), n - 1)
<1>1. n \in 0 .. BufSz - 1 /\ n - 1 \in 0 .. BufSz - 1 /\ Wrap(g + 1) \in Index
  BY WrapIndex
<1>2. /\ s \in Seq(0 .. MaxSent) /\ Len(s) = n
      /\ \A i \in 1 .. n : s[i] = b[Wrap(g + i - 1)]
  BY <1>1, FromSeq
<1>3. /\ t \in Seq(0 .. MaxSent) /\ Len(t) = n - 1
      /\ \A i \in 1 .. n - 1 : t[i] = b[Wrap(Wrap(g + 1) + i - 1)]
  BY <1>1, FromSeq
<1> HIDE DEF s, t
<1>4. s # <<>>
  BY <1>2, EmptySeq
<1>5. /\ Tail(s) \in Seq(0 .. MaxSent) /\ Len(Tail(s)) = n - 1
      /\ \A i \in 1 .. n - 1 : Tail(s)[i] = s[i + 1]
  BY <1>2, <1>4, HeadTailProperties
<1>6. ASSUME NEW i \in 1 .. n - 1
      PROVE  Tail(s)[i] = t[i]
  <2>1. Wrap(Wrap(g + 1) + i - 1) = Wrap(g + (i + 1) - 1)
    BY DEF Wrap, Index
  <2>2. s[i + 1] = b[Wrap(g + (i + 1) - 1)]
    BY <1>2
  <2> QED
    BY <1>3, <1>5, <2>1, <2>2
<1>7. Tail(s) = t
  BY <1>3, <1>5, <1>6, SeqEqual
<1>8. Head(s) = s[1]
  BY <1>2, <1>4
<1>9. s[1] = b[Wrap(g + 1 - 1)] /\ Wrap(g + 1 - 1) = g
  BY <1>2 DEF Wrap, Index
<1> QED
  BY <1>4, <1>7, <1>8, <1>9 DEF s, t

\* With one more byte after its last.
LEMMA FromAppend ==
  ASSUME NEW b \in [Index -> 0 .. MaxSent], NEW g \in Index, NEW n \in 0 .. BufSz - 2,
         NEW e \in 0 .. MaxSent
  PROVE  From([b EXCEPT ![Wrap(g + n)] = e], g, n + 1) = Append(From(b, g, n), e)
<1> DEFINE c == [b EXCEPT ![Wrap(g + n)] = e]
           s == From(b, g, n)
           t == From(c, g, n + 1)
<1>1. /\ Wrap(g + n) \in Index
      /\ \A i \in 1 .. n : Wrap(g + i - 1) \in Index \ {Wrap(g + n)}
      /\ Wrap(g + (n + 1) - 1) = Wrap(g + n)
  BY DEF Wrap, Index
<1>2. c \in [Index -> 0 .. MaxSent] /\ n \in 0 .. BufSz - 1 /\ n + 1 \in 0 .. BufSz - 1
  <2>1. c \in [Index -> 0 .. MaxSent]
    OBVIOUS
  <2>2. n \in 0 .. BufSz - 1 /\ n + 1 \in 0 .. BufSz - 1
    OBVIOUS
  <2> QED
    BY <2>1, <2>2
<1>3. /\ s \in Seq(0 .. MaxSent) /\ Len(s) = n
      /\ \A i \in 1 .. n : s[i] = b[Wrap(g + i - 1)]
  BY <1>2, FromSeq
<1>4. /\ t \in Seq(0 .. MaxSent) /\ Len(t) = n + 1
      /\ \A i \in 1 .. n + 1 : t[i] = c[Wrap(g + i - 1)]
  BY <1>2, FromSeq
<1>5. \A i \in 1 .. n : c[Wrap(g + i - 1)] = b[Wrap(g + i - 1)]
  BY <1>1
<1>6. c[Wrap(g + (n + 1) - 1)] = e
  BY <1>1
<1> HIDE DEF c, s, t
<1>7. /\ Append(s, e) \in Seq(0 .. MaxSent) /\ Len(Append(s, e)) = n + 1
      /\ \A i \in 1 .. n : Append(s, e)[i] = s[i]
      /\ Append(s, e)[n + 1] = e
  BY <1>3, AppendProperties
<1>8. ASSUME NEW i \in 1 .. n + 1
      PROVE  t[i] = Append(s, e)[i]
  <2>1. CASE i = n + 1
    BY <1>4, <1>6, <1>7, <2>1
  <2>2. CASE i \in 1 .. n
    BY <1>3, <1>4, <1>5, <1>7, <2>2
  <2>3. i = n + 1 \/ i \in 1 .. n
    OBVIOUS
  <2> QED
    BY <2>1, <2>2, <2>3
<1>9. t = Append(s, e)
  BY <1>4, <1>7, <1>8, SeqEqual
<1> QED
  BY <1>9 DEF c, s, t

\* The next byte goes behind the last one.
LEMMA PutPlace ==
  ASSUME put_index \in Index, get_index \in Index
  PROVE  put_index = Wrap(get_index + rx_length)
BY DEF Wrap, Index, rx_length

\* Storing a byte puts it at the end of the queue, and drops the head of a
\* full one.
LEMMA StorePuts ==
  ASSUME TypeOK, NEW e \in Byte, StoreByte(e)
  PROVE  Contents' =
           Append(IF Len(Contents) = BufSz - 1 THEN Tail(Contents) ELSE Contents, e)
<1>1. /\ Contents = From(buffer, get_index, rx_length)
      /\ Contents' = From(buffer', get_index', rx_length')
  BY DEF Contents, From
<1>2. /\ buffer \in [Index -> 0 .. MaxSent] /\ get_index \in Index /\ put_index \in Index
      /\ e \in 0 .. MaxSent
  BY DEF TypeOK, Byte
<1>3. rx_length \in 0 .. BufSz - 1
  BY <1>2, LengthRange
<1>4. buffer' = [buffer EXCEPT ![Wrap(get_index + rx_length)] = e]
  BY <1>2, PutPlace DEF StoreByte
<1>5. Len(Contents) = rx_length
  BY <1>1, <1>2, <1>3, FromSeq
<1>6. CASE rx_length = BufSz - 1
  <2>1. /\ rx_length' = BufSz - 1 /\ get_index' = Wrap(get_index + 1)
        /\ Wrap(get_index + 1) \in Index
    BY <1>2, <1>6, StoreLength, WrapIndex
  <2>2. Tail(Contents) = From(buffer, Wrap(get_index + 1), BufSz - 2)
    <3>1. BufSz - 1 \in 1 .. BufSz - 1 /\ (BufSz - 1) - 1 = BufSz - 2
      OBVIOUS
    <3> QED
      BY <1>1, <1>2, <1>6, <3>1, FromTail, SMTT(30)
  <2>3. Wrap(get_index + rx_length) = Wrap(Wrap(get_index + 1) + (BufSz - 2))
    BY <1>2, <1>6 DEF Wrap, Index
  <2>4. From(buffer', Wrap(get_index + 1), (BufSz - 2) + 1)
          = Append(From(buffer, Wrap(get_index + 1), BufSz - 2), e)
    <3>1. BufSz - 2 \in 0 .. BufSz - 2
      OBVIOUS
    <3>2. buffer' = [buffer EXCEPT ![Wrap(Wrap(get_index + 1) + (BufSz - 2))] = e]
      BY <1>4, <2>3
    <3> HIDE BufSzAssumption
    <3> QED
      BY <1>2, <2>1, <3>1, <3>2, FromAppend
  <2>5. (BufSz - 2) + 1 = BufSz - 1
    OBVIOUS
  <2> QED
    BY <1>1, <1>5, <1>6, <2>1, <2>2, <2>4, <2>5
<1>7. CASE rx_length < BufSz - 1
  <2>1. rx_length' = rx_length + 1 /\ get_index' = get_index /\ rx_length \in 0 .. BufSz - 2
    <3>1. rx_length \in 0 .. BufSz - 2 /\ rx_length # BufSz - 1
      BY <1>3, <1>7
    <3>2. /\ rx_length' = IF rx_length = BufSz - 1 THEN BufSz - 1 ELSE rx_length + 1
          /\ rx_length < BufSz - 1 => get_index' = get_index
      BY StoreLength
    <3> QED
      BY <1>7, <3>1, <3>2
  <2>2. From(buffer', get_index, rx_length + 1) = Append(From(buffer, get_index, rx_length), e)
    BY <1>2, <1>4, <2>1, FromAppend
  <2>3. Len(Contents) # BufSz - 1
    BY <1>3, <1>5, <1>7
  <2> QED
    BY <1>1, <2>1, <2>2, <2>3
<1> QED
  BY <1>3, <1>6, <1>7

\* Taking a byte takes the head of the queue.
LEMMA TakeGets ==
  ASSUME TypeOK, FullMeansFull, TakeByte
  PROVE  Contents # <<>> /\ ch' = Head(Contents) /\ Contents' = Tail(Contents)
<1>1. /\ Contents = From(buffer, get_index, rx_length)
      /\ Contents' = From(buffer', get_index', rx_length')
  BY DEF Contents, From
<1>2. /\ buffer \in [Index -> 0 .. MaxSent] /\ get_index \in Index /\ put_index \in Index
      /\ buffer' = buffer /\ get_index' = Wrap(get_index + 1) /\ ch' = buffer[get_index]
  BY DEF TypeOK, TakeByte
<1>3. rx_length > 0 /\ rx_length' = rx_length - 1
  BY TakeLength
<1>4. rx_length \in 1 .. BufSz - 1
  BY <1>2, <1>3, LengthRange
<1> QED
  BY <1>1, <1>2, <1>3, <1>4, FromTail

\* The indices, the flag and the buffer together are the queue of capacity
\* bufsz - 1 that DropQueue describes.
THEOREM RingIsQueue == Spec => QueueSpec
<1>1. Init => Queue!Init
  BY DEF Init, Queue!Init, Contents, rx_length
<1>2. IInv /\ [Next]_vars => [Queue!Next]_<<Contents, ch>>
  <2> SUFFICES ASSUME IInv, [Next]_vars
               PROVE  Queue!Next \/ UNCHANGED <<Contents, ch>>
    OBVIOUS
  <2>1. CASE IsrStore
    <3>1. Head(fifo) \in Byte /\ StoreByte(Head(fifo)) /\ ch' = ch
      BY <2>1 DEF IInv, TypeOK, IsrStore
    <3> QED
      BY <3>1, StorePuts DEF IInv, Queue!Next, Queue!Put
  <2>2. CASE Read
    <3>1. TakeByte
      BY <2>2 DEF Read
    <3> QED
      BY <3>1, TakeGets DEF IInv, Queue!Next, Queue!Get
  <2>3. CASE Open
    <3>1. put_index = get_index /\ put_index' = get_index' /\ ch' = ch
      BY <2>3 DEF Open, At, IInv, Started
    <3>2. rx_length = 0 /\ rx_length' = 0
      BY <3>1, <2>3 DEF rx_length, IInv, TypeOK, Index, Open
    <3>3. Contents = <<>> /\ Contents' = <<>>
      BY <3>2 DEF Contents
    <3> QED
      BY <3>1, <3>3
  <2>4. CASE UNCHANGED <<ring, ch>>
    BY <2>4 DEF ring, Contents, rx_length
  <2> QED
    BY <2>1, <2>2, <2>3, <2>4
    DEF Next, Isr, Thread, vars, Send, EnterIsr, IsrIndicate, SetRxIndicate, ReadNothing,
        TakeSem, Work
<1> QED
  BY <1>1, <1>2, Invariant, PTL DEF Spec, QueueSpec, Queue!Spec
==============================================================================
