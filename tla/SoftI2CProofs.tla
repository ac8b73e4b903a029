---------------------------- MODULE SoftI2CProofs ----------------------------
(***************************************************************************)
(* Proofs about the software I2C bus, for every size of a byte, number of   *)
(* retries and length of the messages: a transfer reported as done was      *)
(* delivered, a transfer that never waited too long gives the bus back, and *)
(* a failed one has a cause.  The argument is that master and slave stay in *)
(* step clock by clock, see InStep.                                         *)
(***************************************************************************)
EXTENDS SoftI2C, TLAPS

------------------------------------------------------------------------------
(* The inductive invariant                                                 *)

Slave == [mode : {"off", "address", "write", "read"}, n : 0 .. Bits + 1, byte : Seq(Bit),
          sda : Bit, hold : BOOLEAN, refused : BOOLEAN,
          written : Seq(Seq(Bit)), served : Seq(Seq(Bit))]

\* What the slave has of the byte: while it takes one the bits of the clocks
\* that rose, while it serves one the bit on the line as well.
SlaveShape ==
  /\ scl \in Bit /\ sda \in Bit /\ slave \in Slave
  /\ slave.mode = "off" => slave.n = 0 /\ slave.byte = <<>>
  /\ SCL = 0 => slave.n <= Bits
  /\ slave.mode \in {"address", "write"} =>
       Len(slave.byte) = IF slave.n <= Bits THEN slave.n ELSE Bits
  /\ slave.mode = "read" /\ SCL = 0 =>
       Len(slave.byte) = IF slave.n < Bits THEN slave.n + 1 ELSE Bits
  /\ slave.mode = "read" /\ SCL = 1 =>
       slave.n >= 1 /\ Len(slave.byte) = IF slave.n <= Bits THEN slave.n ELSE 1

\* What may be left of a clock.
StartLeft == {<<"SDA_H", "SCL_H", "wait", "SDA_L", "SCL_L">>, <<"SCL_H", "wait", "SDA_L", "SCL_L">>,
              <<"wait", "SDA_L", "SCL_L">>, <<"SDA_L", "SCL_L">>, <<"SCL_L">>, <<>>}
StopLeft  == {<<"SDA_L", "SCL_H", "wait", "SDA_H">>, <<"SCL_H", "wait", "SDA_H">>,
              <<"wait", "SDA_H">>, <<"SDA_H">>, <<>>}
BitLeft   == {<<"SCL_H", "wait", "SCL_L">>, <<"wait", "SCL_L">>, <<"SCL_L">>}
AckLeft   == {<<"SCL_H", "wait", "GET_SDA", "SCL_L">>, <<"wait", "GET_SDA", "SCL_L">>,
              <<"GET_SDA", "SCL_L">>, <<"SCL_L">>}

\* The byte that is being sent.
Sent == IF at = "address" THEN Addr(msg) ELSE req.write[count + 1]

\* The master's variables and what it left of its routine.
IdleOK  == req = NoRequest /\ msg = 1 /\ count = 0 /\ tries = 0 /\ buf = <<>> /\ todo = <<>>
StartOK == /\ todo \in StartLeft /\ count = 0 /\ buf = <<>>
           /\ todo # <<>> /\ Head(todo) \in {"SDA_H", "SCL_H"} => scl = 0
           /\ todo # <<>> /\ Head(todo) = "wait" => scl = 1
           /\ todo = <<>> => scl = 0
StopOK  == todo \in StopLeft
\* A bit on the line is the bit of the byte that is sent.
SendOK  == /\ clock \in 1 .. Bits + 2
           /\ clock <= Bits => /\ todo \in {WriteBit(Sent[clock])} \cup BitLeft
                               /\ todo \in BitLeft => sda = Sent[clock]
                               /\ in = <<>>
           /\ clock = Bits + 1 => /\ todo \in {i2c_waitack} \cup AckLeft
                                  /\ todo \in AckLeft => sda = 1
                                  /\ Len(in) = IF todo = <<"SCL_L">> THEN 1 ELSE 0
           /\ clock = Bits + 2 => todo = <<>> /\ Len(in) = 1
RecvOK  == /\ clock \in 1 .. Bits + 1
           /\ clock <= Bits => /\ todo \in {i2c_waitack} \cup AckLeft
                               /\ clock > 1 => todo \in AckLeft
                               /\ todo \in AckLeft => sda = 1
                               /\ Len(in) = IF todo = <<"SCL_L">> THEN clock ELSE clock - 1
           /\ clock = Bits + 1 => todo = <<>> /\ Len(in) = Bits /\ sda = 1
ReplyOK == /\ todo \in {<<"SDA_L", "SCL_H", "wait", "SCL_L">>} \cup BitLeft \cup {<<>>}
           /\ todo \notin BitLeft \cup {<<>>} => count < req.read
           /\ todo \in BitLeft => sda = IF count < req.read THEN 0 ELSE 1
\* In a clock of a byte the line is low until SCL_H, and high after its wait.
ClockOK == /\ todo = <<>> => scl = 0
           /\ todo # <<>> /\ Head(todo) \in {"SDA_H", "SDA_L", "SCL_H"} => scl = 0
           /\ todo # <<>> /\ Head(todo) = "wait" => scl = 1
           /\ todo # <<>> /\ Head(todo) \in {"GET_SDA", "SCL_L"} => SCL = 1
\* The lines in i2c_stop, unless a wait in it or before it timed out.
BusOK   == /\ todo # <<>> /\ Head(todo) \in {"SDA_L", "SCL_H"} => scl = 0
           /\ todo # <<>> /\ Head(todo) = "wait" => scl = 1
           /\ todo # <<>> /\ Head(todo) \in {"SCL_H", "wait", "SDA_H"} => sda = 0

MasterOK ==
  /\ at \in {"idle", "start", "address", "retry", "send", "recv", "reply", "stop"}
  /\ clock \in Nat /\ in \in Seq(Bit) /\ Len(in) <= Bits /\ buf \in Seq(Seq(Bit)) /\ Len(buf) <= MaxLen
  /\ late \in BOOLEAN /\ heard \in BOOLEAN /\ waited \in BOOLEAN
  /\ msg \in {1, 2} /\ count \in 0 .. MaxLen /\ tries \in 0 .. Retries /\ ret \in {"ok", "error"}
  /\ late => waited /\ todo = <<>> /\ at \in {"address", "send", "recv", "reply"}
  /\ at # "idle" => req \in Request
  /\ at # "idle" /\ msg = 2 => req.read > 0
  /\ at # "stop" => ret = "ok"
  /\ at = "idle" => IdleOK
  /\ at = "start" => StartOK
  /\ at = "retry" => StopOK /\ count = 0 /\ buf = <<>>
  /\ at = "stop"  => StopOK
  /\ at \in {"address", "send"} => (~late => SendOK) /\ buf = <<>>
  /\ at = "address" => count = 0
  /\ at = "send" => msg = 1 /\ count < Len(req.write)
  /\ at = "recv"  => (~late => RecvOK) /\ msg = 2 /\ count < req.read /\ Len(buf) = count
  /\ at = "reply" => (~late => ReplyOK) /\ msg = 2 /\ count \in 1 .. req.read /\ Len(buf) = count
  /\ at \in {"address", "send", "recv", "reply"} /\ ~late => ClockOK
  /\ at = "stop" /\ (ret = "ok" \/ ~waited) => BusOK
  /\ at = "stop" /\ ~waited => /\ todo = <<"SDA_H">> => SCL = 1
                               /\ todo = <<>> => SCL = 1 /\ sda = 1

\* The slave has taken exactly the first c bytes of the first message.
Taken(c) == Len(slave.written) = c /\ \A i \in 1 .. c : slave.written[i] = req.write[i]
Whole    == Len(req.write)
Before   == IF msg = 1 THEN 0 ELSE Whole

\* The slave waits between two bytes, at most one clock into the next.
Between == slave.mode = "write" /\ slave.n <= SCL
Quiet   == slave.sda = 1 /\ (slave.mode = "off" \/ Between)

\* It has heard a START, and the address is to come.
Opened  == slave.mode = "address" /\ slave.n = 0 /\ slave.sda = 1
\* It is ready for a byte of the first message, it serves one of the second.
Takes   == slave.mode = "write" /\ slave.n = 0 /\ slave.sda = 1
Serves  == slave.mode = "read" /\ slave.n = 0 /\ slave.sda = slave.byte[1]
Refused == slave.mode = "off" /\ slave.sda = 1 /\ slave.refused

InStart ==
  IF todo \in {<<"SCL_L">>, <<>>}
  THEN Opened /\ Taken(Before) /\ slave.served = <<>> /\ (todo = <<"SCL_L">> => SCL = 1)
  ELSE msg = 2 => /\ Taken(Whole) /\ slave.served = <<>>
                  /\ slave.mode \in {"off", "address"} \/ Between
InRetry == msg = 2 => Taken(Whole) /\ slave.served = <<>> /\ slave.mode \in {"off", "address"}

\* A byte is on its way to the slave, clock by clock.
InByte ==
  /\ slave.n = clock - 1 + SCL
  /\ \A i \in 1 .. Len(slave.byte) : slave.byte[i] = Sent[i]
  /\ clock <= Bits => slave.sda = 1
  /\ clock = Bits + 1 => /\ slave.sda = 1 => slave.refused
                         /\ todo = <<"SCL_L">> => in = <<slave.sda>>

InAddress ==
  IF late THEN msg = 2 => Taken(Whole) /\ slave.served = <<>> /\ slave.mode = "address"
  ELSE /\ Taken(Before) /\ slave.served = <<>>
       /\ clock <= Bits + 1 => slave.mode = "address" /\ InByte
       /\ clock = Bits + 2 => /\ in = <<0>> => IF msg = 1 THEN Takes ELSE Serves
                              /\ in # <<0>> => Refused
InSend ==
  ~late => /\ slave.served = <<>>
           /\ clock <= Bits + 1 =>
                /\ slave.mode = "write" /\ InByte
                /\ Taken(IF slave.n = Bits + 1 /\ slave.sda = 0 THEN count + 1 ELSE count)
           /\ clock = Bits + 2 => /\ in = <<0>> => Takes /\ Taken(count + 1)
                                  /\ in # <<0>> => Refused
InRecv ==
  ~late => /\ Taken(Whole) /\ slave.served = buf /\ slave.mode = "read"
           /\ \A i \in 1 .. Len(in) : in[i] = slave.byte[i]
           /\ clock <= Bits => slave.n = clock - 1 + SCL /\ slave.sda = slave.byte[clock]
           /\ clock = Bits + 1 => slave.n = Bits /\ slave.sda = 1
InReply ==
  ~late => /\ Taken(Whole)
           /\ todo # <<>> =>
                /\ slave.mode = "read" /\ slave.n = Bits + SCL /\ slave.sda = 1
                /\ SCL = 0 => buf = Append(slave.served, slave.byte)
                /\ SCL = 1 => buf = slave.served /\ slave.byte = <<sda>>
           /\ todo = <<>> => /\ slave.served = buf
                             /\ IF count < req.read THEN Serves ELSE slave.mode = "off" /\ slave.sda = 1
InStop ==
  /\ ret = "ok" => Taken(Whole) /\ slave.served = buf
  /\ ret = "ok" \/ ~waited => Quiet
  /\ ret = "error" /\ ~waited => slave.refused
  /\ ~waited /\ todo = <<>> => slave.mode = "off"

InStep ==
  heard => /\ at = "start" => InStart
           /\ at = "retry" => InRetry
           /\ at = "address" => InAddress
           /\ at = "send" => InSend
           /\ at = "recv" => InRecv
           /\ at = "reply" => InReply
           /\ at = "stop" => InStop

IInv == SlaveShape /\ MasterOK /\ InStep

USE BitsAssumption, RetriesAssumption

------------------------------------------------------------------------------
(* The operations left of a clock, one by one                              *)

\* The operations of i2c_start and i2c_restart.
LEMMA StartOps ==
  ASSUME at = "start", todo \in StartLeft, NEW op, Op(op)
  PROVE  \/ op = "SDA_H" /\ todo = i2c_restart /\ todo' = <<"SCL_H", "wait", "SDA_L", "SCL_L">>
         \/ op = "SCL_H" /\ todo = <<"SCL_H", "wait", "SDA_L", "SCL_L">> /\ todo' = <<"wait", "SDA_L", "SCL_L">>
         \/ op = "wait" /\ todo = <<"wait", "SDA_L", "SCL_L">> /\ todo' = i2c_start
         \/ op = "SDA_L" /\ todo = i2c_start /\ todo' = <<"SCL_L">>
         \/ op = "SCL_L" /\ todo = <<"SCL_L">> /\ todo' = <<>>
<1> USE DEF Op, i2c_start, i2c_restart
<1>1. CASE todo = <<"SDA_H", "SCL_H", "wait", "SDA_L", "SCL_L">>
  BY <1>1
<1>2. CASE todo = <<"SCL_H", "wait", "SDA_L", "SCL_L">>
  BY <1>2
<1>3. CASE todo = <<"wait", "SDA_L", "SCL_L">>
  BY <1>3
<1>4. CASE todo = <<"SDA_L", "SCL_L">>
  BY <1>4
<1>5. CASE todo = <<"SCL_L">>
  BY <1>5 DEF Clock
<1>6. QED
  BY <1>1, <1>2, <1>3, <1>4, <1>5 DEF StartLeft

\* The operations of i2c_stop.
LEMMA StopOps ==
  ASSUME at \in {"retry", "stop"}, todo \in StopLeft, NEW op, Op(op)
  PROVE  \/ op = "SDA_L" /\ todo = i2c_stop /\ todo' = <<"SCL_H", "wait", "SDA_H">>
         \/ op = "SCL_H" /\ todo = <<"SCL_H", "wait", "SDA_H">> /\ todo' = <<"wait", "SDA_H">>
         \/ op = "wait" /\ todo = <<"wait", "SDA_H">> /\ todo' = <<"SDA_H">>
         \/ op = "SDA_H" /\ todo = <<"SDA_H">> /\ todo' = <<>>
<1> USE DEF Op, i2c_stop
<1>1. CASE todo = <<"SDA_L", "SCL_H", "wait", "SDA_H">>
  BY <1>1
<1>2. CASE todo = <<"SCL_H", "wait", "SDA_H">>
  BY <1>2
<1>3. CASE todo = <<"wait", "SDA_H">>
  BY <1>3
<1>4. CASE todo = <<"SDA_H">>
  BY <1>4 DEF Clock
<1>5. QED
  BY <1>1, <1>2, <1>3, <1>4 DEF StopLeft

\* A clock of a bit sent or of the answer to a byte read.
LEMMA BitOps ==
  ASSUME NEW first \in {"SDA_H", "SDA_L"}, NEW op, Op(op),
         todo \in {<<first, "SCL_H", "wait", "SCL_L">>} \cup BitLeft
  PROVE  \/ /\ op = first /\ todo = <<first, "SCL_H", "wait", "SCL_L">>
            /\ todo' = <<"SCL_H", "wait", "SCL_L">> /\ clock' = clock
         \/ /\ op = "SCL_H" /\ todo = <<"SCL_H", "wait", "SCL_L">>
            /\ todo' = <<"wait", "SCL_L">> /\ clock' = clock
         \/ op = "wait" /\ todo = <<"wait", "SCL_L">> /\ todo' = <<"SCL_L">> /\ clock' = clock
         \/ op = "SCL_L" /\ todo = <<"SCL_L">> /\ todo' = Clock(clock + 1) /\ clock' = clock + 1
<1> USE DEF Op
<1>1. CASE todo = <<first, "SCL_H", "wait", "SCL_L">>
  BY <1>1
<1>2. CASE todo = <<"SCL_H", "wait", "SCL_L">>
  BY <1>2
<1>3. CASE todo = <<"wait", "SCL_L">>
  BY <1>3
<1>4. CASE todo = <<"SCL_L">>
  BY <1>4
<1>5. QED
  BY <1>1, <1>2, <1>3, <1>4 DEF BitLeft

\* A clock in which the master looks at the data line.
LEMMA AckOps ==
  ASSUME NEW op, Op(op), todo \in {i2c_waitack} \cup AckLeft
  PROVE  \/ /\ op = "SDA_H" /\ todo = i2c_waitack
            /\ todo' = <<"SCL_H", "wait", "GET_SDA", "SCL_L">> /\ clock' = clock
         \/ /\ op = "SCL_H" /\ todo = <<"SCL_H", "wait", "GET_SDA", "SCL_L">>
            /\ todo' = <<"wait", "GET_SDA", "SCL_L">> /\ clock' = clock
         \/ /\ op = "wait" /\ todo = <<"wait", "GET_SDA", "SCL_L">>
            /\ todo' = <<"GET_SDA", "SCL_L">> /\ clock' = clock
         \/ op = "GET_SDA" /\ todo = <<"GET_SDA", "SCL_L">> /\ todo' = <<"SCL_L">> /\ clock' = clock
         \/ op = "SCL_L" /\ todo = <<"SCL_L">> /\ todo' = Clock(clock + 1) /\ clock' = clock + 1
<1> USE DEF Op, i2c_waitack
<1>1. CASE todo = <<"SDA_H", "SCL_H", "wait", "GET_SDA", "SCL_L">>
  BY <1>1
<1>2. CASE todo = <<"SCL_H", "wait", "GET_SDA", "SCL_L">>
  BY <1>2
<1>3. CASE todo = <<"wait", "GET_SDA", "SCL_L">>
  BY <1>3
<1>4. CASE todo = <<"GET_SDA", "SCL_L">>
  BY <1>4
<1>5. CASE todo = <<"SCL_L">>
  BY <1>5
<1>6. QED
  BY <1>1, <1>2, <1>3, <1>4, <1>5 DEF AckLeft

\* Before the end of such a clock.
LEMMA AckSteps ==
  ASSUME NEW op, Op(op), todo \in {i2c_waitack} \cup AckLeft, op # "SCL_L"
  PROVE  /\ clock' = clock /\ todo' \in AckLeft /\ todo # <<"SCL_L">>
         /\ op \in {"SDA_H", "SCL_H", "wait", "GET_SDA"}
         /\ op # "SDA_H" => todo \in AckLeft
         /\ todo' = <<"SCL_L">> <=> op = "GET_SDA"
<1> USE DEF AckLeft, i2c_waitack
<1>1. CASE op = "SDA_H"
  BY <1>1, AckOps
<1>2. CASE op = "SCL_H"
  BY <1>2, AckOps
<1>3. CASE op = "wait"
  BY <1>3, AckOps
<1>4. CASE op = "GET_SDA"
  BY <1>4, AckOps
<1>5. QED
  BY <1>1, <1>2, <1>3, <1>4, AckOps

------------------------------------------------------------------------------
(* What an edge does to the slave                                          *)

\* All of the slave but its hold of the clock.
Same(s) ==
  /\ slave'.mode = s.mode /\ slave'.n = s.n /\ slave'.byte = s.byte /\ slave'.sda = s.sda
  /\ slave'.refused = s.refused /\ slave'.written = s.written /\ slave'.served = s.served

\* The slave is r after the clock rose on s, with v on the data line.
Risen(r, s, v) ==
  /\ r.mode = s.mode /\ r.sda = s.sda /\ r.refused = s.refused
  /\ r.n = IF s.mode = "off" THEN s.n ELSE s.n + 1
  /\ r.byte = IF s.mode \in {"address", "write"} /\ s.n < Bits THEN Append(s.byte, v)
              ELSE IF s.mode = "read" /\ s.n = Bits THEN <<v>> ELSE s.byte
  /\ r.written = IF s.mode = "write" /\ s.n = Bits /\ s.sda = 0
                 THEN Log(s.written, s.byte) ELSE s.written
  /\ r.served = IF s.mode = "read" /\ s.n = Bits THEN Log(s.served, s.byte) ELSE s.served

\* The lines keep their level, the clock rises, or it falls.
Still == SCL' = SCL /\ slave' \in Slave /\ Same(slave)
Rose  == SCL = 0 /\ SCL' = 1 /\ slave' \in Slave /\ Risen(slave', slave, SDA)
Fell  == SCL = 1 /\ SCL' = 0 /\ slave' \in Slave /\ \E s \in Fall(slave) : Same(s)

\* The history grows by one byte while it is not full.
LEMMA LogType ==
  ASSUME NEW bytes \in Seq(Seq(Bit)), NEW b \in Seq(Bit)
  PROVE  /\ Log(bytes, b) \in Seq(Seq(Bit))
         /\ Len(bytes) <= MaxLen => Log(bytes, b) = Append(bytes, b)
BY DEF Log

\* Rise, case by case.
LEMMA RiseCases ==
  ASSUME NEW s \in Slave, NEW v \in Bit
  PROVE  /\ s.mode \in {"address", "write"} /\ s.n < Bits =>
              Rise(s, v) = [s EXCEPT !.byte = Append(@, v), !.n = @ + 1]
         /\ s.mode = "write" /\ s.n = Bits /\ s.sda = 0 =>
              Rise(s, v) = [s EXCEPT !.written = Log(@, s.byte), !.n = @ + 1]
         /\ s.mode = "read" /\ s.n = Bits =>
              Rise(s, v) = [s EXCEPT !.served = Log(@, s.byte), !.byte = <<v>>, !.n = @ + 1]
         /\ s.mode = "off" => Rise(s, v) = s
         /\ \/ s.mode = "address" /\ s.n >= Bits
            \/ s.mode = "write" /\ s.n >= Bits /\ ~(s.n = Bits /\ s.sda = 0)
            \/ s.mode = "read" /\ s.n # Bits
            => Rise(s, v) = [s EXCEPT !.n = @ + 1]
<1> s.n \in Int
  BY DEF Slave
<1> QED
  BY DEF Rise

\* A clock that rises keeps the slave a slave.
LEMMA RiseType ==
  ASSUME NEW s \in Slave, NEW v \in Bit, s.mode # "off" => s.n <= Bits
  PROVE  Rise(s, v) \in Slave /\ Rise(s, v).hold = s.hold
<1>1. /\ s.n \in 0 .. Bits + 1 /\ s.byte \in Seq(Bit) /\ s.sda \in Bit
      /\ s.mode \in {"off", "address", "write", "read"}
      /\ s.written \in Seq(Seq(Bit)) /\ s.served \in Seq(Seq(Bit))
  BY DEF Slave
<1>2. /\ Append(s.byte, v) \in Seq(Bit) /\ <<v>> \in Seq(Bit)
      /\ Log(s.written, s.byte) \in Seq(Seq(Bit)) /\ Log(s.served, s.byte) \in Seq(Seq(Bit))
  BY <1>1, LogType, SMTT(30)
<1>3. s.mode # "off" => s.n + 1 \in 0 .. Bits + 1
  BY <1>1
<1>4. CASE s.mode \in {"address", "write"} /\ s.n < Bits
  <2>1. Rise(s, v) = [s EXCEPT !.byte = Append(@, v), !.n = @ + 1]
    BY <1>4, RiseCases
  <2>2. QED
    BY <1>2, <1>3, <1>4, <2>1 DEF Slave
<1>5. CASE s.mode = "write" /\ s.n = Bits /\ s.sda = 0
  <2>1. Rise(s, v) = [s EXCEPT !.written = Log(@, s.byte), !.n = @ + 1]
    BY <1>5, RiseCases
  <2>2. QED
    BY <1>2, <1>3, <1>5, <2>1 DEF Slave
<1>6. CASE s.mode = "read" /\ s.n = Bits
  <2>1. Rise(s, v) = [s EXCEPT !.served = Log(@, s.byte), !.byte = <<v>>, !.n = @ + 1]
    BY <1>6, RiseCases
  <2>2. QED
    BY <1>2, <1>3, <1>6, <2>1 DEF Slave
<1>7. CASE s.mode = "off"
  BY <1>7, RiseCases
<1>8. CASE \/ s.mode = "address" /\ s.n = Bits
           \/ s.mode = "write" /\ s.n = Bits /\ s.sda # 0
           \/ s.mode = "read" /\ s.n < Bits
  <2>1. \/ s.mode = "address" /\ s.n >= Bits
        \/ s.mode = "write" /\ s.n >= Bits /\ ~(s.n = Bits /\ s.sda = 0)
        \/ s.mode = "read" /\ s.n # Bits
    BY <1>1, <1>8
  <2>2. Rise(s, v) = [s EXCEPT !.n = @ + 1]
    BY <2>1, RiseCases, Zenon
  <2>3. QED
    BY <1>3, <1>8, <2>2 DEF Slave
<1>9. QED
  BY <1>1, <1>4, <1>5, <1>6, <1>7, <1>8

\* What the slave is after the clock rose.
LEMMA RiseFields ==
  ASSUME NEW s \in Slave, NEW v \in Bit, s.mode # "off" => s.n <= Bits
  PROVE  Risen(Rise(s, v), s, v)
<1> USE DEF Risen
<1>1. s.n \in 0 .. Bits + 1 /\ s.mode \in {"off", "address", "write", "read"}
  BY DEF Slave
<1>2. CASE s.mode \in {"address", "write"} /\ s.n < Bits
  <2>1. Rise(s, v) = [s EXCEPT !.byte = Append(@, v), !.n = @ + 1]
    BY <1>2, RiseCases
  <2>2. QED
    BY <1>1, <1>2, <2>1 DEF Slave
<1>3. CASE s.mode = "write" /\ s.n = Bits /\ s.sda = 0
  <2>1. Rise(s, v) = [s EXCEPT !.written = Log(@, s.byte), !.n = @ + 1]
    BY <1>3, RiseCases
  <2>2. QED
    BY <1>1, <1>3, <2>1 DEF Slave
<1>4. CASE s.mode = "read" /\ s.n = Bits
  <2>1. Rise(s, v) = [s EXCEPT !.served = Log(@, s.byte), !.byte = <<v>>, !.n = @ + 1]
    BY <1>4, RiseCases
  <2>2. QED
    BY <1>1, <1>4, <2>1 DEF Slave
<1>5. CASE s.mode = "off"
  BY <1>5, RiseCases
<1>6. CASE \/ s.mode = "address" /\ s.n = Bits
           \/ s.mode = "write" /\ s.n = Bits /\ s.sda # 0
           \/ s.mode = "read" /\ s.n < Bits
  <2>1. \/ s.mode = "address" /\ s.n >= Bits
        \/ s.mode = "write" /\ s.n >= Bits /\ ~(s.n = Bits /\ s.sda = 0)
        \/ s.mode = "read" /\ s.n # Bits
    BY <1>1, <1>6
  <2>2. Rise(s, v) = [s EXCEPT !.n = @ + 1]
    BY <2>1, RiseCases, Zenon
  <2>3. QED
    BY <1>1, <1>6, <2>2 DEF Slave
<1>7. QED
  BY <1>1, <1>2, <1>3, <1>4, <1>5, <1>6

\* The fields of t are those of s, but for the four that a fall may change.
Becomes(t, s, m, k, b, d) ==
  /\ t \in Slave /\ t.mode = m /\ t.n = k /\ t.byte = b /\ t.sda = d
  /\ t.refused = s.refused /\ t.written = s.written /\ t.served = s.served

\* The slave puts one bit on the line.
LEMMA ServeCases ==
  ASSUME NEW s \in Slave, NEW t \in Serve(s)
  PROVE  \E v \in Bit : Becomes(t, s, s.mode, s.n, Append(s.byte, v), v)
<1>1. PICK v \in Bit : t = [s EXCEPT !.byte = Append(@, v), !.sda = v]
  BY DEF Serve
<1>2. Append(s.byte, v) \in Seq(Bit)
  BY DEF Slave
<1>3. t \in Slave
  BY <1>1, <1>2 DEF Slave
<1>4. QED
  BY <1>1, <1>3 DEF Becomes, Slave

\* What the acknowledge of a byte decides, case by case.
LEMMA NextByteCases ==
  ASSUME NEW s \in Slave, s.mode # "off"
  PROVE  /\ s.mode = "read" /\ s.byte = <<0>> => Becomes(NextByte(s), s, "read", 0, <<>>, 1)
         /\ s.mode = "read" /\ s.byte # <<0>> => Becomes(NextByte(s), s, "off", 0, <<>>, 1)
         /\ s.mode # "read" /\ s.sda # 0 => Becomes(NextByte(s), s, "off", 0, <<>>, 1)
         /\ s.mode = "write" /\ s.sda = 0 => Becomes(NextByte(s), s, "write", 0, <<>>, 1)
         /\ s.mode = "address" /\ s.sda = 0 /\ s.byte[Bits] = 1 =>
              Becomes(NextByte(s), s, "read", 0, <<>>, 1)
         /\ s.mode = "address" /\ s.sda = 0 /\ s.byte[Bits] # 1 =>
              Becomes(NextByte(s), s, "write", 0, <<>>, 1)
<1> DEFINE m == NextByte(s).mode
<1>1. s.mode \in {"address", "write", "read"}
  BY DEF Slave
<1>2. m \in {"off", "address", "write", "read"} => Becomes(NextByte(s), s, m, 0, <<>>, 1)
  <2> SUFFICES ASSUME m \in {"off", "address", "write", "read"}
               PROVE  Becomes(NextByte(s), s, m, 0, <<>>, 1)
    OBVIOUS
  <2>1. PICK x : NextByte(s) = [s EXCEPT !.mode = x, !.n = 0, !.byte = <<>>, !.sda = 1]
    BY DEF NextByte
  <2> DEFINE t == [s EXCEPT !.mode = x, !.n = 0, !.byte = <<>>, !.sda = 1]
  <2>2. m = x /\ x \in {"off", "address", "write", "read"}
    BY <2>1 DEF Slave
  <2>3. t \in Slave
    <3>1. <<>> \in Seq(Bit) /\ 1 \in Bit /\ 0 \in 0 .. Bits + 1
      BY DEF Bit
    <3>2. QED
      BY <2>2, <3>1 DEF Slave
  <2>4. /\ t.mode = x /\ t.n = 0 /\ t.byte = <<>> /\ t.sda = 1
        /\ t.refused = s.refused /\ t.written = s.written /\ t.served = s.served
    BY DEF Slave
  <2> HIDE DEF t
  <2>5. QED
    BY <2>1, <2>2, <2>3, <2>4 DEF Becomes, t
<1>3. m = LET go == IF s.mode = "read" THEN s.byte = <<0>> ELSE s.sda = 0
          IN  IF ~go THEN "off" ELSE IF s.mode # "address" THEN s.mode
              ELSE IF s.byte[Bits] = 1 THEN "read" ELSE "write"
  BY DEF NextByte, Slave
<1> HIDE DEF m
<1>4. QED
  BY <1>1, <1>2, <1>3

\* Fall, case by case, when the slave has seen a clock of a byte.
LEMMA FallCases ==
  ASSUME NEW s \in Slave, NEW t \in Fall(s), s.mode = "off" => s.n = 0, s.mode = "read" => s.n >= 1
  PROVE  /\ s.mode = "off" \/ (s.mode \in {"address", "write"} /\ s.n < Bits) => t = s
         /\ s.mode \in {"address", "write"} /\ s.n = Bits =>
              t = [s EXCEPT !.sda = 0] \/ t = [s EXCEPT !.refused = TRUE]
         /\ s.mode = "read" /\ s.n < Bits =>
              \E v \in Bit : Becomes(t, s, "read", s.n, Append(s.byte, v), v)
         /\ s.mode = "read" /\ s.n = Bits => t = [s EXCEPT !.sda = 1]
         /\ s.mode = "read" /\ s.n = Bits + 1 =>
              IF s.byte = <<0>> THEN \E v \in Bit : Becomes(t, s, "read", 0, <<v>>, v)
                               ELSE Becomes(t, s, "off", 0, <<>>, 1)
         /\ s.mode = "write" /\ s.n = Bits + 1 =>
              Becomes(t, s, IF s.sda = 0 THEN "write" ELSE "off", 0, <<>>, 1)
         /\ s.mode = "address" /\ s.n = Bits + 1 =>
              IF s.sda = 0 /\ s.byte[Bits] = 1
              THEN \E v \in Bit : Becomes(t, s, "read", 0, <<v>>, v)
              ELSE Becomes(t, s, IF s.sda = 0 THEN "write" ELSE "off", 0, <<>>, 1)
<1>1. s.n \in 0 .. Bits + 1 /\ s.mode \in {"off", "address", "write", "read"}
  BY DEF Slave
<1>2. CASE s.mode = "off" \/ (s.mode \in {"address", "write"} /\ s.n < Bits)
  BY <1>1, <1>2 DEF Fall
<1>3. CASE s.mode \in {"address", "write"} /\ s.n = Bits
  BY <1>1, <1>3 DEF Fall
<1>4. CASE s.mode = "read" /\ s.n < Bits
  <2>1. t \in Serve(s)
    BY <1>1, <1>4 DEF Fall
  <2>2. QED
    BY <1>1, <1>4, <2>1, ServeCases
<1>5. CASE s.mode = "read" /\ s.n = Bits
  BY <1>1, <1>5 DEF Fall
<1>6. CASE s.mode # "off" /\ s.n = Bits + 1
  <2>1. t \in IF NextByte(s).mode = "read" THEN Serve(NextByte(s)) ELSE {NextByte(s)}
    BY <1>1, <1>6 DEF Fall
  <2>2. ASSUME Becomes(NextByte(s), s, "read", 0, <<>>, 1)
        PROVE  \E v \in Bit : Becomes(t, s, "read", 0, <<v>>, v)
    <3>1. NextByte(s) \in Slave /\ NextByte(s).mode = "read" /\ NextByte(s).byte = <<>>
      BY <2>2 DEF Becomes
    <3>2. PICK v \in Bit : Becomes(t, NextByte(s), "read", NextByte(s).n, Append(<<>>, v), v)
      BY <2>1, <3>1, ServeCases
    <3>3. Append(<<>>, v) = <<v>>
      OBVIOUS
    <3>4. QED
      BY <2>2, <3>2, <3>3 DEF Becomes
  <2>3. ASSUME NEW x \in {"off", "write"}, Becomes(NextByte(s), s, x, 0, <<>>, 1)
        PROVE  Becomes(t, s, x, 0, <<>>, 1)
    BY <2>1, <2>3 DEF Becomes
  <2>4. QED
    BY <1>1, <1>6, <2>2, <2>3, NextByteCases
<1>7. QED
  BY <1>1, <1>2, <1>3, <1>4, <1>5, <1>6

\* The types of the lines and of the slave's fields.
LEMMA LineTypes ==
  ASSUME SlaveShape
  PROVE  SCL \in Bit /\ SDA \in Bit /\ slave \in Slave /\ slave.mode \in {"off", "address", "write", "read"}
         /\ slave.n \in 0 .. Bits + 1 /\ slave.byte \in Seq(Bit) /\ slave.sda \in Bit /\ slave.hold \in BOOLEAN
         /\ slave.refused \in BOOLEAN /\ slave.written \in Seq(Seq(Bit)) /\ slave.served \in Seq(Seq(Bit))
BY DEF SlaveShape, SCL, SDA, Bit, Slave

\* The master releases the clock: it rises unless the slave holds it.
LEMMA ClockUp ==
  ASSUME SlaveShape, SetSCL(1)
  PROVE  (Still \/ Rose) /\ sda' = sda /\ scl' = 1
<1>1. sda' = sda /\ scl' = 1
  BY DEF SetSCL
<1>2. CASE 1 = SCL \/ slave.hold
  BY <1>1, <1>2, LineTypes DEF SetSCL, Still, Same, SCL
<1>3. CASE ~(1 = SCL \/ slave.hold)
  <2>1. slave' = Rise(slave, SDA) /\ SCL = 0 /\ slave.n <= Bits
    BY <1>3, LineTypes DEF SetSCL, SlaveShape, Bit
  <2>2. slave' \in Slave /\ slave'.hold = slave.hold
    BY <2>1, LineTypes, RiseType
  <2>3. SCL' = 1
    BY <1>1, <1>3, <2>2 DEF SCL
  <2>4. Risen(slave', slave, SDA)
    BY <2>1, LineTypes, RiseFields
  <2>5. QED
    BY <1>1, <2>1, <2>2, <2>3, <2>4 DEF Rose
<1>4. QED
  BY <1>2, <1>3

\* A clock that falls keeps the slave a slave.
LEMMA FallType ==
  ASSUME SlaveShape, SCL = 1, NEW s \in Fall(slave)
  PROVE  s \in Slave
<1>1. /\ slave.mode = "off" => slave.n = 0
      /\ slave.mode = "read" => slave.n >= 1
  BY DEF SlaveShape
<1>2. CASE slave.mode \in {"address", "write"} /\ slave.n = Bits
  <2>1. s = [slave EXCEPT !.sda = 0] \/ s = [slave EXCEPT !.refused = TRUE]
    BY <1>1, <1>2, LineTypes, FallCases
  <2>2. 0 \in Bit
    BY DEF Bit
  <2>3. QED
    BY <2>1, <2>2, LineTypes DEF Slave
<1>3. CASE slave.mode = "read" /\ slave.n = Bits
  <2>1. s = [slave EXCEPT !.sda = 1]
    BY <1>1, <1>3, LineTypes, FallCases
  <2>2. 1 \in Bit
    BY DEF Bit
  <2>3. QED
    BY <2>1, <2>2, LineTypes DEF Slave
<1>4. CASE slave.mode = "off" \/ (slave.mode \in {"address", "write"} /\ slave.n < Bits)
  BY <1>1, <1>4, LineTypes, FallCases
<1>5. CASE slave.mode = "read" /\ slave.n < Bits
  BY <1>1, <1>5, LineTypes, FallCases DEF Becomes
<1>6. CASE slave.mode # "off" /\ slave.n = Bits + 1
  BY <1>1, <1>6, LineTypes, FallCases DEF Becomes
<1>7. QED
  BY <1>2, <1>3, <1>4, <1>5, <1>6, LineTypes

\* The master pulls the clock: it falls unless it is low already.
LEMMA ClockDown ==
  ASSUME SlaveShape, SetSCL(0)
  PROVE  (IF SCL = 1 THEN Fell ELSE Still) /\ SCL' = 0 /\ sda' = sda /\ scl' = 0
<1>1. sda' = sda /\ scl' = 0
  BY DEF SetSCL
<1>2. SCL' = 0
  BY <1>1 DEF SCL
<1>3. CASE SCL = 0
  BY <1>1, <1>2, <1>3, LineTypes DEF SetSCL, Still, Same
<1>4. CASE SCL = 1
  <2>1. ~slave.hold
    BY <1>4 DEF SCL
  <2>2. PICK s \in Fall(slave), h \in BOOLEAN : slave' = [s EXCEPT !.hold = h /\ s.mode # "off"]
    BY <1>4, <2>1 DEF SetSCL
  <2>3. s \in Slave
    BY <1>4, FallType
  <2>4. slave' \in Slave /\ Same(s)
    BY <2>2, <2>3 DEF Slave, Same
  <2>5. QED
    BY <1>1, <1>2, <1>4, <2>4 DEF Fell
<1>5. QED
  BY <1>1, <1>2, <1>3, <1>4, LineTypes DEF Bit

\* The slave ends its stretch.
LEMMA Released ==
  ASSUME SlaveShape, Release
  PROVE  (Still \/ (Rose /\ scl = 1)) /\ sda' = sda /\ scl' = scl
<1> DEFINE s == [slave EXCEPT !.hold = FALSE]
<1>1. sda' = sda /\ scl' = scl /\ SCL = 0 /\ slave.n <= Bits
  BY DEF Release, SCL, SlaveShape
<1>2. /\ s \in Slave /\ s.mode = slave.mode /\ s.n = slave.n /\ s.byte = slave.byte /\ s.sda = slave.sda
      /\ s.refused = slave.refused /\ s.written = slave.written /\ s.served = slave.served /\ ~s.hold
  BY LineTypes DEF Slave
<1> HIDE DEF s
<1>3. CASE scl = 1
  <2>1. slave' = Rise(s, SDA)
    BY <1>3 DEF Release, s
  <2>2. slave' \in Slave /\ ~slave'.hold
    BY <1>1, <1>2, <2>1, LineTypes, RiseType
  <2>3. Risen(slave', s, SDA)
    BY <1>1, <1>2, <2>1, LineTypes, RiseFields
  <2>4. Risen(slave', slave, SDA)
    BY <1>2, <2>3 DEF Risen
  <2>5. QED
    BY <1>1, <1>3, <2>2, <2>4 DEF Rose, SCL
<1>4. CASE scl = 0
  <2>1. slave' = s
    BY <1>4 DEF Release, s
  <2>2. QED
    BY <1>1, <1>2, <1>4, <2>1 DEF Still, Same, SCL
<1>5. QED
  BY <1>1, <1>3, <1>4 DEF SlaveShape, Bit

\* A START, a STOP, or a bit.
LEMMA DataMoves ==
  ASSUME SlaveShape, NEW v \in Bit, SetSDA(v)
  PROVE  /\ scl' = scl /\ sda' = v /\ SCL' = SCL
         /\ SeesStart(v) =>
              /\ slave' \in Slave /\ slave'.mode = "address" /\ slave'.n = 0 /\ slave'.byte = <<>>
              /\ slave'.sda = slave.sda /\ slave'.refused = slave.refused
              /\ slave'.written = IF msg = 1 THEN <<>> ELSE slave.written
              /\ slave'.served = IF msg = 1 THEN <<>> ELSE slave.served
         /\ SeesStop(v) => Becomes(slave', slave, "off", 0, <<>>, slave.sda)
         /\ ~SeesStart(v) /\ ~SeesStop(v) => Still
<1>1. scl' = scl /\ sda' = v /\ ~(SeesStart(v) /\ SeesStop(v))
  BY DEF SetSDA, SeesStart, SeesStop
<1>2. <<>> \in Seq(Bit) /\ <<>> \in Seq(Seq(Bit)) /\ 0 \in 0 .. Bits + 1
  OBVIOUS
<1>3. CASE SeesStart(v)
  <2>1. slave' = Listening
    BY <1>3 DEF SetSDA
  <2>2. CASE msg = 1
    <3>1. slave' = [slave EXCEPT !.mode = "address", !.n = 0, !.byte = <<>>, !.written = <<>>, !.served = <<>>]
      BY <2>1, <2>2, LineTypes DEF Listening, Slave
    <3>2. QED
      BY <1>1, <1>2, <1>3, <2>2, <3>1, LineTypes DEF Slave, SCL
  <2>3. CASE msg # 1
    <3>1. slave' = [slave EXCEPT !.mode = "address", !.n = 0, !.byte = <<>>]
      BY <2>1, <2>3 DEF Listening
    <3>2. QED
      BY <1>1, <1>2, <1>3, <2>3, <3>1, LineTypes DEF Slave, SCL
  <2>4. QED
    BY <2>2, <2>3
<1>4. CASE SeesStop(v)
  <2>1. slave' = [slave EXCEPT !.mode = "off", !.n = 0, !.byte = <<>>]
    BY <1>1, <1>4 DEF SetSDA
  <2>2. slave'.hold = slave.hold /\ Becomes(slave', slave, "off", 0, <<>>, slave.sda)
    BY <1>2, <2>1, LineTypes DEF Slave, Becomes
  <2>3. QED
    BY <1>1, <1>4, <2>2 DEF SCL
<1>5. CASE ~SeesStart(v) /\ ~SeesStop(v)
  <2>1. slave' = slave
    BY <1>5 DEF SetSDA
  <2>2. QED
    BY <1>1, <1>5, <2>1, LineTypes DEF Still, Same, SCL
<1>6. QED
  BY <1>3, <1>4, <1>5

------------------------------------------------------------------------------
(* The shape of the slave                                                  *)

\* The lines keep their level.
LEMMA StillShape ==
  ASSUME SlaveShape, Still, scl' \in Bit, sda' \in Bit
  PROVE  SlaveShape'
BY DEF SlaveShape, Still, Same

\* The clock rises.
LEMMA RoseShape ==
  ASSUME SlaveShape, Rose, scl' \in Bit, sda' \in Bit
  PROVE  SlaveShape'
<1>1. /\ slave' \in Slave /\ SCL' = 1 /\ SCL = 0
      /\ slave'.mode = slave.mode
      /\ slave'.n = IF slave.mode = "off" THEN slave.n ELSE slave.n + 1
      /\ slave'.byte = IF slave.mode \in {"address", "write"} /\ slave.n < Bits
                       THEN Append(slave.byte, SDA)
                       ELSE IF slave.mode = "read" /\ slave.n = Bits THEN <<SDA>> ELSE slave.byte
  BY DEF Rose, Risen
<1>2. /\ slave.n \in 0 .. Bits /\ SDA \in Bit /\ slave.byte \in Seq(Bit)
      /\ slave.mode \in {"off", "address", "write", "read"}
  BY <1>1, LineTypes DEF SlaveShape
<1>3. Len(Append(slave.byte, SDA)) = Len(slave.byte) + 1 /\ Len(<<SDA>>) = 1
  BY <1>2
<1>4. CASE slave.mode = "off"
  BY <1>1, <1>4 DEF SlaveShape
<1>5. CASE slave.mode \in {"address", "write"}
  BY <1>1, <1>2, <1>3, <1>5 DEF SlaveShape
<1>6. CASE slave.mode = "read"
  <2>1. Len(slave.byte) = IF slave.n < Bits THEN slave.n + 1 ELSE Bits
    BY <1>1, <1>6 DEF SlaveShape
  <2>2. slave'.n >= 1 /\ Len(slave'.byte) = IF slave'.n <= Bits THEN slave'.n ELSE 1
    BY <1>1, <1>2, <1>3, <1>6, <2>1
  <2>3. QED
    BY <1>1, <1>6, <2>2 DEF SlaveShape
<1>7. QED
  BY <1>2, <1>4, <1>5, <1>6

\* The clock falls.
LEMMA FellShape ==
  ASSUME SlaveShape, Fell, scl' \in Bit, sda' \in Bit
  PROVE  SlaveShape'
<1>1. PICK s \in Fall(slave) : Same(s)
  BY DEF Fell
<1>2. /\ slave' \in Slave /\ SCL' = 0 /\ SCL = 1 /\ slave \in Slave
      /\ slave.mode = "off" => slave.n = 0 /\ slave.byte = <<>>
      /\ slave.mode = "read" => slave.n >= 1
  BY DEF Fell, SlaveShape
<1>3. slave'.mode = s.mode /\ slave'.n = s.n /\ slave'.byte = s.byte
  BY <1>1 DEF Same
<1>4. /\ slave.n \in 0 .. Bits + 1 /\ slave.byte \in Seq(Bit)
      /\ slave.mode \in {"off", "address", "write", "read"}
  BY LineTypes
<1>5. CASE slave.mode = "off" \/ (slave.mode \in {"address", "write"} /\ slave.n < Bits)
  <2>1. s = slave
    BY <1>2, <1>5, FallCases
  <2>2. QED
    BY <1>2, <1>3, <1>4, <1>5, <2>1 DEF SlaveShape
<1>6. CASE slave.mode \in {"address", "write"} /\ slave.n = Bits
  <2>1. s = [slave EXCEPT !.sda = 0] \/ s = [slave EXCEPT !.refused = TRUE]
    BY <1>2, <1>6, FallCases
  <2>2. s.mode = slave.mode /\ s.n = slave.n /\ s.byte = slave.byte
    BY <1>2, <2>1 DEF Slave
  <2>3. QED
    BY <1>2, <1>3, <1>4, <1>6, <2>2 DEF SlaveShape
<1>7. CASE slave.mode = "read" /\ slave.n < Bits
  <2>1. PICK v \in Bit : Becomes(s, slave, "read", slave.n, Append(slave.byte, v), v)
    BY <1>2, <1>7, FallCases
  <2>2. Len(Append(slave.byte, v)) = Len(slave.byte) + 1
    BY <1>4
  <2>3. slave'.mode = "read" /\ slave'.n = slave.n /\ Len(slave'.byte) = Len(slave.byte) + 1
    BY <1>3, <2>1, <2>2 DEF Becomes
  <2>4. QED
    BY <1>2, <1>4, <1>7, <2>3 DEF SlaveShape
<1>8. CASE slave.mode = "read" /\ slave.n = Bits
  <2>1. s = [slave EXCEPT !.sda = 1]
    BY <1>2, <1>8, FallCases
  <2>2. s.mode = slave.mode /\ s.n = slave.n /\ s.byte = slave.byte
    BY <1>2, <2>1 DEF Slave
  <2>3. QED
    BY <1>2, <1>3, <1>4, <1>8, <2>2 DEF SlaveShape
<1>9. CASE slave.mode # "off" /\ slave.n = Bits + 1
  <2>1. \/ \E v \in Bit : Becomes(s, slave, "read", 0, <<v>>, v)
        \/ \E x \in {"off", "write"} : Becomes(s, slave, x, 0, <<>>, 1)
    BY <1>2, <1>4, <1>9, FallCases
  <2>2. CASE \E v \in Bit : Becomes(s, slave, "read", 0, <<v>>, v)
    <3>1. PICK v \in Bit : Becomes(s, slave, "read", 0, <<v>>, v)
      BY <2>2
    <3>2. slave'.mode = "read" /\ slave'.n = 0 /\ Len(slave'.byte) = 1
      BY <1>3, <3>1 DEF Becomes
    <3>3. QED
      BY <1>2, <3>2 DEF SlaveShape
  <2>3. CASE \E x \in {"off", "write"} : Becomes(s, slave, x, 0, <<>>, 1)
    <3>1. slave'.mode \in {"off", "write"} /\ slave'.n = 0 /\ slave'.byte = <<>>
      BY <1>3, <2>3 DEF Becomes
    <3>2. Len(slave'.byte) = 0
      BY <3>1
    <3>3. QED
      BY <1>2, <3>1, <3>2 DEF SlaveShape
  <2>4. QED
    BY <2>1, <2>2, <2>3
<1>10. QED
  BY <1>4, <1>5, <1>6, <1>7, <1>8, <1>9

\* The master moves the data line.
LEMMA DataShape ==
  ASSUME SlaveShape, NEW v \in Bit, SetSDA(v)
  PROVE  SlaveShape'
<1>1. scl' \in Bit /\ sda' \in Bit
  BY DataMoves DEF SlaveShape
<1>2. CASE SeesStart(v)
  BY <1>1, <1>2, DataMoves DEF SlaveShape
<1>3. CASE SeesStop(v)
  BY <1>1, <1>3, DataMoves DEF SlaveShape, Becomes
<1>4. CASE ~SeesStart(v) /\ ~SeesStop(v)
  BY <1>1, <1>4, DataMoves, StillShape
<1>5. QED
  BY <1>2, <1>3, <1>4

\* A master's step that is no operation on a line leaves the lines alone.
LEMMA LineSteps ==
  ASSUME [Next]_vars
  PROVE  LineOp \/ Release \/ Return \/ UNCHANGED <<scl, sda, slave>>
<1>1. ASSUME NEW r \in Request, Transfer(r)
      PROVE  UNCHANGED <<scl, sda, slave>>
  BY <1>1 DEF Transfer
<1>2. CASE WaitHigh \/ WaitTimesOut \/ GetSDA
  BY <1>2 DEF WaitHigh, WaitTimesOut, GetSDA
<1>3. CASE SendAddress \/ AddressSent \/ TryAgain \/ ByteSent \/ ByteRead \/ Replied
  BY <1>3 DEF SendAddress, AddressSent, TryAgain, ByteSent, ByteRead, Replied, Ended
<1>4. CASE UNCHANGED vars
  BY <1>4 DEF vars
<1>5. QED
  BY <1>1, <1>2, <1>3, <1>4 DEF Next, Master

\* SlaveShape is inductive.
LEMMA StepShape ==
  ASSUME SlaveShape, [Next]_vars
  PROVE  SlaveShape'
<1> USE DEF Bit
<1>1. CASE LineOp
  <2>1. CASE SetSDA(0) \/ SetSDA(1)
    BY <2>1, DataShape
  <2>2. CASE SetSCL(1)
    BY <2>2, ClockUp, StillShape, RoseShape DEF SlaveShape
  <2>3. CASE SetSCL(0)
    BY <2>3, ClockDown, StillShape, FellShape DEF SlaveShape
  <2>4. QED
    BY <1>1, <2>1, <2>2, <2>3 DEF LineOp
<1>2. CASE Release
  BY <1>2, Released, StillShape, RoseShape DEF SlaveShape
<1>3. CASE Return
  <2>1. /\ UNCHANGED <<scl, sda>>
        /\ slave' = [slave EXCEPT !.refused = FALSE, !.written = <<>>, !.served = <<>>]
    BY <1>3 DEF Return
  <2>2. <<>> \in Seq(Seq(Bit))
    OBVIOUS
  <2>3. /\ slave' \in Slave /\ slave'.mode = slave.mode /\ slave'.n = slave.n
        /\ slave'.byte = slave.byte /\ slave'.hold = slave.hold
    BY <2>1, <2>2, LineTypes DEF Slave
  <2>4. SCL' = SCL
    BY <2>1, <2>3 DEF SCL
  <2>5. QED
    BY <2>1, <2>3, <2>4 DEF SlaveShape
<1>4. CASE UNCHANGED <<scl, sda, slave>>
  BY <1>4 DEF SlaveShape, SCL
<1>5. QED
  BY <1>1, <1>2, <1>3, <1>4, LineSteps

------------------------------------------------------------------------------
(* The master's routines                                                   *)

\* The messages of a request.
LEMMA RequestType ==
  ASSUME NEW r \in Request
  PROVE  /\ r.read \in 0 .. MaxLen
         /\ r.write \in Seq(Octet) /\ Len(r.write) \in 1 .. MaxLen
<1>1. r.write \in Data /\ r.read \in 0 .. MaxLen
  BY DEF Request
<1>2. PICK n \in 1 .. MaxLen : r.write \in [1 .. n -> Payload]
  BY <1>1 DEF Data
<1>3. Payload \subseteq Octet
  BY DEF Payload
<1>4. n \in Nat /\ r.write \in [1 .. n -> Octet]
  BY <1>2, <1>3
<1>5. r.write \in Seq(Octet) /\ Len(r.write) = n
  BY <1>4
<1>6. QED
  BY <1>1, <1>2, <1>5

\* A byte that is sent has all its bits.
LEMMA SentType ==
  ASSUME MasterOK, at \in {"address", "send"}
  PROVE  Sent \in [1 .. Bits -> Bit]
<1>1. CASE at = "address"
  BY <1>1 DEF Sent, Addr, Bit
<1>2. CASE at = "send"
  <2>1. req \in Request /\ count \in Nat /\ count < Len(req.write)
    BY <1>2 DEF MasterOK
  <2>2. count + 1 \in 1 .. Len(req.write) /\ req.write \in Seq(Octet)
    BY <2>1, RequestType
  <2>3. QED
    BY <1>2, <2>2 DEF Sent, Octet
<1>3. QED
  BY <1>1, <1>2

\* One operation of the master: what it does to the lines and to in.
Effect(op) ==
  /\ UNCHANGED <<at, late, req, msg, count, tries, buf, ret>>
  /\ op = "GET_SDA" => in' = Append(in, SDA)
  /\ op # "GET_SDA" => in' = in
  /\ op \in {"SDA_L", "SDA_H"} => scl' = scl /\ SCL' = SCL /\ sda' = IF op = "SDA_H" THEN 1 ELSE 0
  /\ op = "SCL_L" => scl' = 0 /\ SCL' = 0 /\ sda' = sda
  /\ op = "SCL_H" => scl' = 1 /\ sda' = sda
  /\ op \in {"wait", "GET_SDA"} => UNCHANGED <<scl, sda, slave>> /\ SCL' = SCL
  /\ op = "wait" => (waited' = waited /\ SCL = 1) \/ (waited' /\ Unchecked)
  /\ op # "wait" => waited' = waited

\* What an operation does to the slave, and to the history of its START.
Moves(op) ==
  /\ op \in {"wait", "GET_SDA"} => slave' = slave
  /\ op = "SDA_L" => SetSDA(0)
  /\ op = "SDA_H" => SetSDA(1)
  /\ op = "SCL_H" => Still \/ Rose
  /\ op = "SCL_L" => IF SCL = 1 THEN Fell ELSE Still
  /\ heard' = IF at = "start" /\ todo = i2c_start THEN SeesStart(0) /\ (msg = 2 => heard) ELSE heard

\* Each operation of the master does what Effect and Moves say.
LEMMA OpMoves ==
  ASSUME SlaveShape, LineOp \/ WaitHigh \/ GetSDA \/ (WaitTimesOut /\ Unchecked)
  PROVE  \E op : Op(op) /\ Effect(op) /\ Moves(op)
<1> USE DEF Effect, Moves
<1>1. CASE LineOp
  <2>1. 0 \in Bit /\ 1 \in Bit
    BY DEF Bit
  <2>2. CASE Op("SDA_L") /\ SetSDA(0)
    BY <1>1, <2>1, <2>2, DataMoves DEF LineOp
  <2>3. CASE Op("SDA_H") /\ SetSDA(1)
    BY <1>1, <2>1, <2>3, DataMoves DEF LineOp
  <2>4. CASE Op("SCL_L") /\ SetSCL(0)
    BY <1>1, <2>4, ClockDown DEF LineOp
  <2>5. CASE Op("SCL_H") /\ SetSCL(1)
    BY <1>1, <2>5, ClockUp DEF LineOp
  <2>6. QED
    BY <1>1, <2>2, <2>3, <2>4, <2>5 DEF LineOp
<1>2. i2c_start # <<>> /\ Head(i2c_start) = "SDA_L"
  BY DEF i2c_start
<1>3. CASE WaitHigh
  BY <1>2, <1>3 DEF WaitHigh, SCL, Op
<1>4. CASE GetSDA
  BY <1>2, <1>4 DEF GetSDA, SCL, Op
<1>5. CASE WaitTimesOut /\ Unchecked
  BY <1>2, <1>5 DEF WaitTimesOut, SCL, Op
<1>6. QED
  BY <1>1, <1>3, <1>4, <1>5

\* What an operation does to what is left of i2c_start.
LEMMA OpInStart ==
  ASSUME at = "start", StartOK, NEW op, Op(op), Effect(op)
  PROVE  StartOK'
<1>1. /\ todo \in StartLeft /\ count' = 0 /\ buf' = <<>>
      /\ todo # <<>> /\ Head(todo) = op
  BY DEF StartOK, Effect, Op
<1>2. CASE op = "SDA_H"
  BY <1>1, <1>2, StartOps DEF StartOK, StartLeft, Effect
<1>3. CASE op = "SCL_H"
  BY <1>1, <1>3, StartOps DEF StartOK, StartLeft, Effect
<1>4. CASE op = "wait"
  BY <1>1, <1>4, StartOps DEF StartOK, StartLeft, Effect, i2c_start
<1>5. CASE op = "SDA_L"
  BY <1>1, <1>5, StartOps DEF StartOK, StartLeft, Effect
<1>6. CASE op = "SCL_L"
  BY <1>1, <1>6, StartOps DEF StartOK, StartLeft, Effect
<1>7. QED
  BY <1>1, <1>2, <1>3, <1>4, <1>5, <1>6, StartOps

\* What it does to the operations left of i2c_stop.
LEMMA OpInStop ==
  ASSUME at \in {"retry", "stop"}, StopOK, NEW op, Op(op), Effect(op)
  PROVE  /\ StopOK'
         /\ BusOK => BusOK'
         /\ (BusOK /\ ~waited' /\ (todo = <<"SDA_H">> => SCL = 1)) =>
              /\ todo' = <<"SDA_H">> => SCL' = 1
              /\ todo' = <<>> => SCL' = 1 /\ sda' = 1
<1>1. todo \in StopLeft /\ todo # <<>> /\ Head(todo) = op
  BY DEF StopOK, Op
<1>2. CASE op = "SDA_L"
  BY <1>1, <1>2, StopOps DEF StopOK, StopLeft, BusOK, Effect
<1>3. CASE op = "SCL_H"
  <2>1. /\ todo = <<"SCL_H", "wait", "SDA_H">> /\ todo' = <<"wait", "SDA_H">>
        /\ scl' = 1 /\ sda' = sda
    BY <1>1, <1>3, StopOps DEF Effect
  <2>2. QED
    BY <2>1 DEF StopOK, StopLeft, BusOK
<1>4. CASE op = "wait"
  <2>1. /\ todo = <<"wait", "SDA_H">> /\ todo' = <<"SDA_H">>
        /\ UNCHANGED <<scl, sda>> /\ SCL' = SCL
    BY <1>1, <1>4, StopOps DEF Effect
  <2>2. SCL = 1 \/ waited'
    BY <1>4 DEF Effect
  <2>3. StopOK' /\ (BusOK => BusOK')
    BY <2>1 DEF StopOK, StopLeft, BusOK
  <2>4. todo' # <<>>
    BY <2>1
  <2>5. QED
    BY <2>1, <2>2, <2>3, <2>4
<1>5. CASE op = "SDA_H"
  <2>1. todo = <<"SDA_H">> /\ todo' = <<>> /\ SCL' = SCL /\ sda' = 1
    BY <1>1, <1>5, StopOps DEF Effect
  <2>2. QED
    BY <2>1 DEF StopOK, StopLeft, BusOK
<1>6. QED
  BY <1>1, <1>2, <1>3, <1>4, <1>5, StopOps

\* The operations left of a clock of a byte, and the level of the clock.
LEMMA OpInClock ==
  ASSUME ClockOK, SlaveShape, NEW op, Op(op), Effect(op), ~Unchecked,
         NEW first \in {"SDA_H", "SDA_L"},
         todo \in {<<first, "SCL_H", "wait", "SCL_L">>, i2c_waitack} \cup BitLeft \cup AckLeft
  PROVE  todo # <<"SCL_L">> => ClockOK'
<1>1. /\ todo # <<>> /\ Head(todo) = op
      /\ op \in {"SDA_L", "SDA_H"} => scl' = 0
      /\ op = "SCL_H" => scl' = 1
      /\ op \in {"wait", "GET_SDA"} => SCL' = 1
  BY DEF Op, Effect, ClockOK
<1>2. CASE todo \in {<<first, "SCL_H", "wait", "SCL_L">>} \cup BitLeft
  <2>1. CASE op = first
    BY <1>1, <1>2, <2>1, BitOps DEF ClockOK
  <2>2. CASE op = "SCL_H"
    BY <1>1, <1>2, <2>2, BitOps DEF ClockOK
  <2>3. CASE op = "wait"
    BY <1>1, <1>2, <2>3, BitOps, SMTT(30) DEF ClockOK
  <2>4. QED
    BY <1>2, <2>1, <2>2, <2>3, BitOps
<1>3. CASE todo \in {i2c_waitack} \cup AckLeft
  <2>1. CASE op = "SDA_H"
    BY <1>1, <1>3, <2>1, AckOps DEF ClockOK
  <2>2. CASE op = "SCL_H"
    BY <1>1, <1>3, <2>2, AckOps DEF ClockOK
  <2>3. CASE op = "wait"
    <3>1. todo' = <<"GET_SDA", "SCL_L">> /\ SCL' = 1
      BY <1>1, <1>3, <2>3, AckOps
    <3>2. QED
      BY <3>1 DEF ClockOK
  <2>4. CASE op = "GET_SDA"
    <3>1. todo' = <<"SCL_L">> /\ SCL' = 1
      BY <1>1, <1>3, <2>4, AckOps
    <3>2. QED
      BY <3>1 DEF ClockOK
  <2>5. QED
    BY <1>3, <2>1, <2>2, <2>3, <2>4, AckOps
<1>4. QED
  BY <1>2, <1>3

\* The clocks of the address and of a byte of data are those of i2c_writeb.
LEMMA ClockSent ==
  ASSUME at \in {"address", "send"}, NEW k
  PROVE  Clock(k) = i2c_writeb(Sent, k)
BY DEF Clock, Sent

\* What it does in a clock of a byte that is sent.
LEMMA OpInSend ==
  ASSUME SlaveShape, MasterOK, at \in {"address", "send"}, ~late, NEW op, Op(op), Effect(op)
  PROVE  SendOK' /\ ClockOK' /\ in' \in Seq(Bit) /\ Len(in') <= Bits /\ clock' \in Nat
<1>1. SendOK /\ ClockOK /\ clock \in Nat /\ in \in Seq(Bit) /\ ~Unchecked
  BY DEF MasterOK, Unchecked
<1>2. todo # <<>> /\ Head(todo) = op /\ clock \in 1 .. Bits + 1
  BY <1>1 DEF Op, SendOK
<1>3. Sent' = Sent /\ Sent \in [1 .. Bits -> Bit]
  BY SentType DEF Effect, Sent, Addr
<1>4. CASE clock <= Bits
  <2> DEFINE first == IF Sent[clock] = 1 THEN "SDA_H" ELSE "SDA_L"
  <2>1. first \in {"SDA_H", "SDA_L"} /\ Sent[clock] \in Bit
    BY <1>2, <1>3, <1>4
  <2>2. /\ todo \in {<<first, "SCL_H", "wait", "SCL_L">>} \cup BitLeft
        /\ todo \in BitLeft => sda = Sent[clock]
        /\ in = <<>>
    BY <1>1, <1>4 DEF SendOK, WriteBit
  <2>3. Sent[clock] = IF first = "SDA_H" THEN 1 ELSE 0
    BY <2>1 DEF Bit
  <2> HIDE DEF first
  <2>4. CASE op # "SCL_L"
    <3>1. clock' = clock /\ todo' \in BitLeft /\ todo # <<"SCL_L">> /\ op \in {first, "SCL_H", "wait"}
      BY <2>1, <2>2, <2>4, BitOps DEF BitLeft
    <3>2. ClockOK'
      BY <1>1, <2>1, <2>2, <3>1, OpInClock
    <3>3. sda' = Sent[clock]
      <4>1. CASE op = first
        BY <2>1, <2>3, <4>1 DEF Effect
      <4>2. CASE op \in {"SCL_H", "wait"}
        <5>1. todo \in BitLeft
          BY <2>1, <2>2, <4>2, BitOps DEF BitLeft
        <5>2. QED
          BY <2>2, <4>2, <5>1 DEF Effect
      <4>3. QED
        BY <3>1, <4>1, <4>2
    <3>4. in' = <<>>
      BY <2>1, <2>2, <3>1 DEF Effect
    <3>5. SendOK'
      BY <1>2, <1>3, <1>4, <3>1, <3>3, <3>4 DEF SendOK
    <3>6. QED
      BY <1>1, <3>1, <3>2, <3>4, <3>5
  <2>5. CASE op = "SCL_L"
    <3>1. clock' = clock + 1 /\ todo' = i2c_writeb(Sent, clock + 1) /\ in' = <<>> /\ scl' = 0
      BY <2>1, <2>2, <2>5, BitOps, ClockSent DEF Effect
    <3>2. CASE clock < Bits
      <4>1. clock + 1 <= Bits /\ Sent[clock + 1] \in Bit
        BY <1>2, <1>3, <3>2
      <4>2. todo' = WriteBit(Sent[clock + 1])
        BY <3>1, <4>1 DEF i2c_writeb
      <4>3. todo' \notin BitLeft /\ todo' # <<>> /\ Head(todo') \in {"SDA_H", "SDA_L"}
        BY <4>2 DEF WriteBit, BitLeft
      <4>4. SendOK' /\ ClockOK'
        BY <1>2, <1>3, <3>1, <4>1, <4>2, <4>3 DEF SendOK, ClockOK
      <4>5. QED
        BY <1>1, <1>2, <3>1, <4>4
    <3>3. CASE clock = Bits
      <4>1. todo' = i2c_waitack
        BY <3>1, <3>3 DEF i2c_writeb
      <4>2. todo' \notin AckLeft /\ todo' # <<>> /\ Head(todo') = "SDA_H" /\ todo' # <<"SCL_L">>
        BY <4>1 DEF i2c_waitack, AckLeft
      <4>3. Len(in') = 0
        BY <3>1
      <4>4. SendOK' /\ ClockOK'
        BY <1>2, <1>3, <3>1, <3>3, <4>1, <4>2, <4>3 DEF SendOK, ClockOK
      <4>5. QED
        BY <1>1, <1>2, <3>1, <4>4
    <3>4. QED
      BY <1>2, <1>4, <3>2, <3>3
  <2>6. QED
    BY <2>4, <2>5
<1>5. CASE clock = Bits + 1
  <2>1. /\ todo \in {i2c_waitack} \cup AckLeft
        /\ todo \in AckLeft => sda = 1
        /\ Len(in) = IF todo = <<"SCL_L">> THEN 1 ELSE 0
    BY <1>1, <1>5 DEF SendOK
  <2>2. CASE op # "SCL_L"
    <3>1. /\ clock' = clock /\ todo' \in AckLeft /\ todo # <<"SCL_L">>
          /\ op \in {"SDA_H", "SCL_H", "wait", "GET_SDA"}
          /\ todo' = <<"SCL_L">> <=> op = "GET_SDA"
      BY <2>1, <2>2, AckSteps
    <3>2. ClockOK'
      BY <1>1, <2>1, <3>1, OpInClock
    <3>3. sda' = 1
      <4>1. CASE op = "SDA_H"
        BY <4>1 DEF Effect
      <4>2. CASE op # "SDA_H"
        BY <2>1, <3>1, <4>2, AckOps DEF Effect, AckLeft
      <4>3. QED
        BY <4>1, <4>2
    <3>4. in' \in Seq(Bit) /\ Len(in') = IF todo' = <<"SCL_L">> THEN 1 ELSE 0
      BY <1>1, <2>1, <3>1, LineTypes DEF Effect
    <3>5. SendOK'
      BY <1>5, <3>1, <3>3, <3>4 DEF SendOK
    <3>6. QED
      BY <1>1, <3>1, <3>2, <3>4, <3>5
  <2>3. CASE op = "SCL_L"
    <3>1. clock' = Bits + 2 /\ todo = <<"SCL_L">> /\ todo' = <<>> /\ in' = in /\ scl' = 0
      BY <1>5, <2>1, <2>3, AckOps, ClockSent DEF Effect, i2c_writeb
    <3>2. SendOK' /\ ClockOK'
      BY <2>1, <3>1 DEF SendOK, ClockOK
    <3>3. QED
      BY <1>1, <2>1, <3>1, <3>2
  <2>4. QED
    BY <2>2, <2>3
<1>6. QED
  BY <1>2, <1>4, <1>5

\* What it does in a clock of a byte that is received.
LEMMA OpInRecv ==
  ASSUME SlaveShape, MasterOK, at = "recv", ~late, NEW op, Op(op), Effect(op)
  PROVE  RecvOK' /\ ClockOK' /\ in' \in Seq(Bit) /\ Len(in') <= Bits /\ clock' \in Nat
<1>1. RecvOK /\ ClockOK /\ clock \in Nat /\ in \in Seq(Bit) /\ ~Unchecked
  BY DEF MasterOK, Unchecked
<1>2. todo # <<>> /\ Head(todo) = op /\ clock \in 1 .. Bits
  BY <1>1 DEF Op, RecvOK
<1>3. /\ todo \in {i2c_waitack} \cup AckLeft
      /\ todo \in AckLeft => sda = 1
      /\ Len(in) = IF todo = <<"SCL_L">> THEN clock ELSE clock - 1
  BY <1>1, <1>2 DEF RecvOK
<1>4. CASE op # "SCL_L"
  <2>1. /\ clock' = clock /\ todo' \in AckLeft /\ todo # <<"SCL_L">>
        /\ op \in {"SDA_H", "SCL_H", "wait", "GET_SDA"}
        /\ op # "SDA_H" => todo \in AckLeft
        /\ todo' = <<"SCL_L">> <=> op = "GET_SDA"
    BY <1>3, <1>4, AckSteps
  <2>2. ClockOK'
    BY <1>1, <1>3, <2>1, OpInClock
  <2>3. sda' = 1
    BY <1>3, <2>1 DEF Effect
  <2>4. in' \in Seq(Bit) /\ Len(in') = IF todo' = <<"SCL_L">> THEN clock ELSE clock - 1
    <3>1. CASE op = "GET_SDA"
      <4>1. in' = Append(in, SDA) /\ SDA \in Bit /\ Len(in) = clock - 1
        BY <1>3, <2>1, <3>1, LineTypes DEF Effect
      <4>2. in' \in Seq(Bit) /\ Len(in') = Len(in) + 1
        BY <1>1, <4>1
      <4>3. QED
        BY <1>2, <2>1, <3>1, <4>1, <4>2
    <3>2. CASE op # "GET_SDA"
      BY <1>1, <1>3, <2>1, <3>2 DEF Effect
    <3>3. QED
      BY <3>1, <3>2
  <2>5. RecvOK'
    BY <1>2, <2>1, <2>3, <2>4 DEF RecvOK
  <2>6. QED
    BY <1>1, <1>2, <2>1, <2>2, <2>4, <2>5
<1>5. CASE op = "SCL_L"
  <2>1. /\ clock' = clock + 1 /\ todo = <<"SCL_L">> /\ todo' = i2c_readb(clock + 1)
        /\ in' = in /\ scl' = 0 /\ sda' = 1
    <3>1. clock' = clock + 1 /\ todo = <<"SCL_L">> /\ todo' = i2c_readb(clock + 1)
      BY <1>3, <1>5, AckOps DEF Clock
    <3>2. todo \in AckLeft
      BY <3>1 DEF AckLeft
    <3>3. QED
      BY <1>3, <1>5, <3>1, <3>2 DEF Effect
  <2>2. CASE clock < Bits
    <3>1. todo' = ReadBit
      BY <1>2, <2>1, <2>2 DEF i2c_readb
    <3>2. todo' \in AckLeft /\ todo' # <<"SCL_L">> /\ todo' # <<>> /\ Head(todo') = "SCL_H"
      BY <3>1 DEF ReadBit, AckLeft
    <3>3. RecvOK' /\ ClockOK'
      BY <1>2, <1>3, <2>1, <2>2, <3>2 DEF RecvOK, ClockOK
    <3>4. QED
      BY <1>1, <1>2, <1>3, <2>1, <2>2, <3>3
  <2>3. CASE clock = Bits
    <3>1. todo' = <<>>
      BY <2>1, <2>3 DEF i2c_readb
    <3>2. RecvOK' /\ ClockOK'
      BY <1>2, <1>3, <2>1, <2>3, <3>1 DEF RecvOK, ClockOK
    <3>3. QED
      BY <1>1, <1>2, <1>3, <2>1, <2>3, <3>2
  <2>4. QED
    BY <1>2, <2>2, <2>3
<1>6. QED
  BY <1>4, <1>5

\* What it does in the clock of the answer to a byte read.
LEMMA OpInReply ==
  ASSUME SlaveShape, MasterOK, at = "reply", ~late, NEW op, Op(op), Effect(op)
  PROVE  ReplyOK' /\ ClockOK' /\ in' = in /\ clock' \in Nat
<1>1. ReplyOK /\ ClockOK /\ clock \in Nat /\ ~Unchecked
  BY DEF MasterOK, Unchecked
<1>2. /\ todo \in {<<"SDA_L", "SCL_H", "wait", "SCL_L">>} \cup BitLeft
      /\ todo \notin BitLeft => count < req.read
      /\ todo \in BitLeft => sda = IF count < req.read THEN 0 ELSE 1
  BY <1>1 DEF ReplyOK, Op
<1>3. /\ clock' \in Nat /\ op \in {"SDA_L", "SCL_H", "wait", "SCL_L"}
      /\ op = "SDA_L" => todo = <<"SDA_L", "SCL_H", "wait", "SCL_L">> /\ todo' = <<"SCL_H", "wait", "SCL_L">>
      /\ op = "SCL_H" => todo = <<"SCL_H", "wait", "SCL_L">> /\ todo' = <<"wait", "SCL_L">>
      /\ op = "wait" => todo = <<"wait", "SCL_L">> /\ todo' = <<"SCL_L">>
      /\ op = "SCL_L" => todo = <<"SCL_L">> /\ todo' = Clock(clock + 1)
  BY <1>1, <1>2, BitOps
<1>4. in' = in /\ UNCHANGED <<count, req>>
  BY <1>3 DEF Effect
<1>5. CASE op = "SDA_L"
  <2>1. todo \notin BitLeft /\ todo' \in BitLeft /\ sda' = 0 /\ todo # <<"SCL_L">>
    BY <1>3, <1>5 DEF BitLeft, Effect
  <2>2. ReplyOK'
    BY <1>2, <1>4, <2>1 DEF ReplyOK
  <2>3. QED
    BY <1>1, <1>2, <1>3, <1>4, <2>1, <2>2, OpInClock
<1>6. CASE op \in {"SCL_H", "wait"}
  <2>1. todo \in BitLeft /\ todo' \in BitLeft /\ sda' = sda /\ todo # <<"SCL_L">>
    BY <1>3, <1>6 DEF BitLeft, Effect
  <2>2. ReplyOK'
    BY <1>2, <1>4, <2>1 DEF ReplyOK
  <2>3. QED
    BY <1>1, <1>2, <1>3, <1>4, <2>1, <2>2, OpInClock
<1>7. CASE op = "SCL_L"
  <2>1. todo' = <<>> /\ scl' = 0
    BY <1>3, <1>7 DEF Clock, Effect
  <2>2. todo' \notin BitLeft
    BY <2>1 DEF BitLeft
  <2>3. ReplyOK' /\ ClockOK'
    BY <2>1, <2>2 DEF ReplyOK, ClockOK
  <2>4. QED
    BY <1>3, <1>4, <2>3
<1>8. QED
  BY <1>3, <1>5, <1>6, <1>7

\* An operation keeps the master's variables as they should be.
LEMMA OpMasterOK ==
  ASSUME SlaveShape, MasterOK, heard' \in BOOLEAN, waited' \in BOOLEAN, NEW op, Op(op), Effect(op)
  PROVE  MasterOK'
<1>1. /\ todo # <<>> /\ ~late /\ ~late'
      /\ UNCHANGED <<at, late, req, msg, count, tries, buf, ret>>
  BY DEF Op, MasterOK, Effect
<1>2. at # "idle"
  BY <1>1 DEF MasterOK, IdleOK
<1>3. op # "GET_SDA" => in' = in
  BY DEF Effect
<1>4. clock \in Nat /\ in \in Seq(Bit) /\ Len(in) <= Bits /\ (clock' = clock \/ clock' = clock + 1)
  BY DEF MasterOK, Op
<1>5. CASE at = "start"
  <2>1. StartOK' /\ op # "GET_SDA"
    BY <1>5, OpInStart, StartOps DEF MasterOK, StartOK
  <2>2. QED
    BY <1>1, <1>3, <1>4, <1>5, <2>1 DEF MasterOK
<1>6. CASE at \in {"retry", "stop"}
  <2>1. StopOK
    BY <1>6 DEF MasterOK
  <2>2. StopOK' /\ op # "GET_SDA"
    BY <1>6, <2>1, OpInStop, StopOps DEF StopOK
  <2>3. waited => waited'
    BY DEF Effect
  <2>4. at = "stop" /\ (ret = "ok" \/ ~waited') => BusOK'
    BY <1>1, <1>6, <2>1, <2>3, OpInStop DEF MasterOK
  <2>5. at = "stop" /\ ~waited' => /\ todo' = <<"SDA_H">> => SCL' = 1
                                   /\ todo' = <<>> => SCL' = 1 /\ sda' = 1
    BY <1>1, <1>6, <2>1, <2>3, OpInStop DEF MasterOK
  <2>6. QED
    BY <1>1, <1>3, <1>4, <1>6, <2>2, <2>4, <2>5 DEF MasterOK
<1>7. CASE at \in {"address", "send"}
  <2>1. SendOK' /\ ClockOK' /\ in' \in Seq(Bit) /\ Len(in') <= Bits /\ clock' \in Nat
    BY <1>1, <1>7, OpInSend
  <2>2. QED
    BY <1>1, <1>7, <2>1 DEF MasterOK
<1>8. CASE at = "recv"
  <2>1. RecvOK' /\ ClockOK' /\ in' \in Seq(Bit) /\ Len(in') <= Bits /\ clock' \in Nat
    BY <1>1, <1>8, OpInRecv
  <2>2. QED
    BY <1>1, <1>8, <2>1 DEF MasterOK
<1>9. CASE at = "reply"
  <2>1. ReplyOK' /\ ClockOK' /\ in' = in /\ clock' \in Nat
    BY <1>1, <1>9, OpInReply
  <2>2. QED
    BY <1>1, <1>4, <1>9, <2>1 DEF MasterOK
<1>10. QED
  BY <1>2, <1>5, <1>6, <1>7, <1>8, <1>9 DEF MasterOK

\* A routine begins with its first clock; the lines are as they were.
Begins(routine, ops) == /\ Run(routine, ops) /\ UNCHANGED <<scl, sda, slave, heard, waited>>
                        /\ SCL' = SCL /\ SDA' = SDA

\* i2c_stop begins.
LEMMA BeginStop ==
  ASSUME MasterOK, Begins("stop", i2c_stop), at # "idle", UNCHANGED <<req, msg, count, tries, buf>>,
         ret' \in {"ok", "error"}, (ret' = "ok" \/ ~waited) => scl = 0
  PROVE  MasterOK'
<1>1. /\ at' = "stop" /\ clock' = 1 /\ todo' = i2c_stop /\ in' = <<>> /\ late' = FALSE
      /\ UNCHANGED <<scl, sda, heard, waited>>
  BY DEF Begins, Run
<1>2. StopOK' /\ todo' # <<>> /\ Head(todo') = "SDA_L" /\ todo' # <<"SDA_H">>
  BY <1>1 DEF StopOK, StopLeft, i2c_stop
<1>3. in' \in Seq(Bit) /\ Len(in') <= Bits
  BY <1>1
<1>4. ret' = "ok" \/ ~waited' => BusOK'
  BY <1>1, <1>2 DEF BusOK
<1>5. QED
  BY <1>1, <1>2, <1>3, <1>4 DEF MasterOK

\* i2c_start begins.
LEMMA BeginStart ==
  ASSUME MasterOK, Begins("start", i2c_start), req' \in Request, msg' = 2 => req'.read > 0,
         UNCHANGED <<msg, tries, ret>>, ret = "ok", count' = 0, buf' = <<>>
  PROVE  MasterOK'
<1>1. /\ at' = "start" /\ clock' = 1 /\ todo' = <<"SDA_L", "SCL_L">> /\ in' = <<>> /\ late' = FALSE
      /\ UNCHANGED <<scl, sda, heard, waited>>
  BY DEF Begins, Run, i2c_start
<1>2. StartOK'
  BY <1>1 DEF StartOK, StartLeft
<1>3. in' \in Seq(Bit) /\ Len(in') <= Bits /\ buf' \in Seq(Seq(Bit)) /\ Len(buf') <= MaxLen
  BY <1>1
<1>4. clock' \in Nat /\ count' \in 0 .. MaxLen /\ msg' \in {1, 2} /\ tries' \in 0 .. Retries
  BY <1>1 DEF MasterOK
<1>5. /\ late' \in BOOLEAN /\ heard' \in BOOLEAN /\ waited' \in BOOLEAN /\ ret' \in {"ok", "error"}
      /\ ret' = "ok" /\ ~late' /\ at' = "start"
  BY <1>1 DEF MasterOK
<1>6. QED
  BY <1>1, <1>2, <1>3, <1>4, <1>5 DEF MasterOK

\* The first bit of a byte to send.
LEMMA BeginSend ==
  ASSUME MasterOK, NEW routine \in {"address", "send"}, NEW byte \in [1 .. Bits -> Bit],
         Begins(routine, i2c_writeb(byte, 1)), req \in Request, UNCHANGED <<req, msg, tries, buf, ret>>,
         ret = "ok", msg = 2 => req.read > 0, scl = 0, Sent' = byte, buf = <<>>, count' \in 0 .. MaxLen,
         routine = "address" => count' = 0,
         routine = "send" => msg = 1 /\ count' < Len(req.write)
  PROVE  MasterOK'
<1>1. /\ at' = routine /\ clock' = 1 /\ todo' = WriteBit(Sent'[1]) /\ in' = <<>> /\ late' = FALSE
      /\ UNCHANGED <<scl, sda, heard, waited>>
  BY DEF Begins, Run, i2c_writeb
<1>2. todo' \notin BitLeft /\ todo' # <<>> /\ Head(todo') \in {"SDA_H", "SDA_L"}
  BY <1>1 DEF WriteBit, BitLeft
<1>3. SendOK' /\ ClockOK'
  BY <1>1, <1>2 DEF SendOK, ClockOK
<1>4. in' \in Seq(Bit) /\ Len(in') <= Bits /\ clock' \in Nat
  BY <1>1
<1>5. QED
  BY <1>1, <1>3, <1>4 DEF MasterOK

\* A byte is to be received.
LEMMA BeginRecv ==
  ASSUME MasterOK, Begins("recv", i2c_readb(1)), req \in Request, UNCHANGED <<req, msg, count, tries, buf, ret>>,
         ret = "ok", msg = 2, scl = 0, count < req.read, Len(buf) = count
  PROVE  MasterOK'
<1>1. /\ at' = "recv" /\ clock' = 1 /\ in' = <<>> /\ late' = FALSE
      /\ UNCHANGED <<scl, sda, heard, waited>>
  BY DEF Begins, Run
<1>2. todo' = i2c_waitack
  BY DEF Begins, Run, i2c_readb, ReadFirst, i2c_waitack
<1>3. todo' \notin AckLeft /\ todo' # <<>> /\ Head(todo') = "SDA_H" /\ todo' # <<"SCL_L">>
  BY <1>2 DEF AckLeft, i2c_waitack
<1>4. in' \in Seq(Bit) /\ Len(in') = 0 /\ clock' \in Nat
  BY <1>1
<1>5. RecvOK' /\ ClockOK'
  BY <1>1, <1>2, <1>3, <1>4 DEF RecvOK, ClockOK
<1>6. req.read > 0 /\ Len(in') <= Bits
  BY <1>4, RequestType DEF MasterOK
<1>7. /\ late' \in BOOLEAN /\ heard' \in BOOLEAN /\ waited' \in BOOLEAN /\ ret' = "ok" /\ ~late'
      /\ count' \in 0 .. MaxLen /\ count' < req'.read /\ Len(buf') = count' /\ msg' = 2 /\ req' \in Request
      /\ buf' \in Seq(Seq(Bit)) /\ Len(buf') <= MaxLen /\ tries' \in 0 .. Retries
  BY <1>1 DEF MasterOK
<1>8. QED
  BY <1>1, <1>4, <1>5, <1>6, <1>7 DEF MasterOK

------------------------------------------------------------------------------
(* What follows a routine keeps the master's variables as they should be    *)

\* What follows a routine leaves the lines alone.
LEMMA EndedBegins ==
  ASSUME NEW routine, Ended(routine), NEW other, NEW ops, Run(other, ops)
  PROVE  Begins(other, ops)
BY DEF Ended, Begins, SCL, SDA

\* i2c_bit_xfer is called.
LEMMA TransferOK ==
  ASSUME MasterOK, NEW r \in Request, Transfer(r)
  PROVE  MasterOK'
<1>1. /\ at = "idle" /\ req' = r /\ UNCHANGED <<msg, count, tries, buf, ret>>
      /\ Begins("start", i2c_start)
  BY DEF Transfer, Begins, SCL, SDA
<1>2. msg = 1 /\ count = 0 /\ buf = <<>> /\ ret = "ok"
  BY <1>1 DEF MasterOK, IdleOK
<1>3. QED
  BY <1>1, <1>2, BeginStart

\* The START was made.
LEMMA SendAddressOK ==
  ASSUME MasterOK, SendAddress
  PROVE  MasterOK'
<1>1. /\ at = "start" /\ todo = <<>> /\ UNCHANGED <<req, msg, count, tries, buf, ret>>
      /\ Begins("address", i2c_writeb(Addr(msg), 1)) /\ at' = "address"
  BY EndedBegins DEF SendAddress, Ended, Run
<1>2. /\ req \in Request /\ ret = "ok" /\ (msg = 2 => req.read > 0) /\ count = 0 /\ buf = <<>> /\ scl = 0
  BY <1>1 DEF MasterOK, StartOK
<1>3. Addr(msg) \in [1 .. Bits -> Bit] /\ Sent' = Addr(msg)
  BY <1>1 DEF Addr, Bit, Sent
<1>4. QED
  BY <1>1, <1>2, <1>3, BeginSend

\* The byte that follows the first c ones.
LEMMA TransmitOK ==
  ASSUME MasterOK, NEW routine, Ended(routine), routine # "idle", scl = 0, ret = "ok",
         NEW c \in 0 .. MaxLen, Transmit(c), count' = c, UNCHANGED <<msg, tries, buf, ret>>,
         msg = 1 => c < Len(req.write) /\ buf = <<>>,
         msg = 2 => c = count /\ count < req.read /\ Len(buf) = count
  PROVE  MasterOK'
<1>1. req' = req /\ at = routine
  BY DEF Ended
<1>2. req \in Request /\ (msg = 2 => req.read > 0) /\ msg \in {1, 2}
  BY <1>1 DEF MasterOK
<1>3. CASE msg = 1
  <2>1. Begins("send", i2c_writeb(req.write[c + 1], 1)) /\ at' = "send"
    BY <1>3, EndedBegins DEF Transmit, Run
  <2>2. c + 1 \in 1 .. Len(req.write) /\ req.write \in Seq(Octet)
    <3>1. Len(req.write) \in Nat /\ req.write \in Seq(Octet)
      BY <1>2, RequestType
    <3>2. QED
      BY <1>3, <3>1
  <2>3. req.write[c + 1] \in [1 .. Bits -> Bit]
    BY <2>2 DEF Octet
  <2>4. Sent' = req.write[c + 1]
    BY <1>1, <2>1 DEF Sent
  <2>5. QED
    BY <1>1, <1>2, <1>3, <2>1, <2>3, <2>4, BeginSend
<1>4. CASE msg = 2
  <2>1. Begins("recv", i2c_readb(1))
    BY <1>4, EndedBegins DEF Transmit
  <2>2. QED
    BY <1>1, <1>2, <1>4, <2>1, BeginRecv
<1>5. QED
  BY <1>2, <1>3, <1>4

\* out: the bus is stopped.
LEMMA OutOK ==
  ASSUME MasterOK, NEW routine, Ended(routine), routine # "idle", NEW r \in {"ok", "error"}, Out(r),
         (r = "ok" \/ ~waited) => scl = 0
  PROVE  MasterOK'
<1>1. /\ at = routine /\ ret' = r /\ UNCHANGED <<req, msg, count, tries, buf>>
      /\ Begins("stop", i2c_stop)
  BY EndedBegins DEF Ended, Out
<1>2. QED
  BY <1>1, BeginStop

\* A routine of a byte that was not left for a timeout ends with the clock low.
LEMMA EndedLow ==
  ASSUME MasterOK, at \in {"address", "send", "recv", "reply"}, todo = <<>>
  PROVE  /\ req \in Request /\ ret = "ok" /\ msg \in {1, 2} /\ (msg = 2 => req.read > 0)
         /\ (~late \/ ~waited) => scl = 0
BY DEF MasterOK, ClockOK

\* The address was sent.
LEMMA AddressSentOK ==
  ASSUME MasterOK, AddressSent
  PROVE  MasterOK'
<1>1. /\ at = "address" /\ todo = <<>> /\ Ended("address") /\ count = 0 /\ buf = <<>>
      /\ tries \in 0 .. Retries
  BY DEF AddressSent, Ended, MasterOK
<1>2. CASE Acked /\ Transmit(0) /\ UNCHANGED <<msg, count, tries, buf, ret>>
  <2>1. Len(req.write) > 0 /\ 0 \in 0 .. MaxLen /\ Len(buf) = 0
    BY <1>1, EndedLow, RequestType
  <2>2. QED
    BY <1>1, <1>2, <2>1, EndedLow, TransmitOK DEF Acked
<1>3. CASE /\ ~Acked /\ tries < Retries /\ Run("retry", i2c_stop)
           /\ tries' = tries + 1 /\ UNCHANGED <<msg, count, buf, ret>>
  <2>1. /\ at' = "retry" /\ clock' = 1 /\ todo' = i2c_stop /\ in' = <<>> /\ late' = FALSE
        /\ UNCHANGED <<scl, sda, heard, waited, req>>
    BY <1>1, <1>3 DEF Ended, Run
  <2>2. StopOK'
    BY <2>1 DEF StopOK, StopLeft, i2c_stop
  <2>3. in' \in Seq(Bit) /\ Len(in') <= Bits /\ clock' \in Nat /\ tries' \in 0 .. Retries
    BY <1>1, <1>3, <2>1
  <2>4. QED
    BY <1>1, <1>3, <2>1, <2>2, <2>3 DEF MasterOK
<1>4. CASE ~Acked /\ tries = Retries /\ Out("error")
  BY <1>1, <1>4, EndedLow, OutOK
<1>5. QED
  BY <1>2, <1>3, <1>4 DEF AddressSent

\* The address is tried again.
LEMMA TryAgainOK ==
  ASSUME MasterOK, TryAgain
  PROVE  MasterOK'
<1>1. /\ at = "retry" /\ UNCHANGED <<req, msg, count, tries, buf, ret>>
      /\ Begins("start", i2c_start)
  BY EndedBegins DEF TryAgain, Ended
<1>2. /\ req \in Request /\ (msg = 2 => req.read > 0) /\ count = 0 /\ buf = <<>> /\ ret = "ok"
  BY <1>1 DEF MasterOK
<1>3. QED
  BY <1>1, <1>2, BeginStart

\* A byte was sent.
LEMMA ByteSentOK ==
  ASSUME MasterOK, ByteSent
  PROVE  MasterOK'
<1>1. /\ at = "send" /\ todo = <<>> /\ Ended("send") /\ msg = 1 /\ count \in 0 .. MaxLen /\ buf = <<>>
  BY DEF ByteSent, Ended, MasterOK
<1>2. CASE /\ Acked /\ count + 1 < Len(req.write)
           /\ Transmit(count + 1) /\ count' = count + 1 /\ UNCHANGED <<msg, tries, buf, ret>>
  <2>1. count + 1 \in 0 .. MaxLen
    <3>1. Len(req.write) \in 1 .. MaxLen
      BY <1>1, EndedLow, RequestType
    <3>2. QED
      BY <1>1, <1>2, <3>1
  <2>2. QED
    BY <1>1, <1>2, <2>1, EndedLow, TransmitOK DEF Acked
<1>3. CASE /\ Acked /\ req.read > 0 /\ Run("start", i2c_restart)
           /\ msg' = 2 /\ count' = 0 /\ tries' = 0 /\ UNCHANGED <<buf, ret>>
  <2>1. /\ at' = "start" /\ clock' = 1 /\ todo' = <<"SDA_H", "SCL_H", "wait", "SDA_L", "SCL_L">>
        /\ in' = <<>> /\ late' = FALSE /\ UNCHANGED <<scl, sda, heard, waited, req>>
    BY <1>1, <1>3 DEF Ended, Run, i2c_restart
  <2>2. scl' = 0
    BY <1>1, <1>3, <2>1, EndedLow DEF Acked
  <2>3. StartOK'
    BY <1>1, <1>3, <2>1, <2>2 DEF StartOK, StartLeft
  <2>4. in' \in Seq(Bit) /\ Len(in') <= Bits /\ clock' \in Nat /\ count' \in 0 .. MaxLen /\ tries' \in 0 .. Retries
    BY <1>3, <2>1
  <2>5. QED
    BY <1>1, <1>3, <2>1, <2>3, <2>4 DEF MasterOK
<1>4. CASE Acked /\ Out("ok")
  BY <1>1, <1>4, EndedLow, OutOK DEF Acked
<1>5. CASE ~Acked /\ Out("error")
  BY <1>1, <1>5, EndedLow, OutOK
<1>6. QED
  BY <1>2, <1>3, <1>4, <1>5 DEF ByteSent

\* A byte was received.
LEMMA ByteReadOK ==
  ASSUME MasterOK, ByteRead
  PROVE  MasterOK'
<1>1. /\ at = "recv" /\ todo = <<>> /\ Ended("recv") /\ msg = 2 /\ count \in 0 .. MaxLen
      /\ count < req.read /\ Len(buf) = count /\ buf \in Seq(Seq(Bit)) /\ in \in Seq(Bit)
  BY DEF ByteRead, Ended, MasterOK
<1>2. CASE /\ ~late /\ Reply(count + 1)
           /\ buf' = Append(buf, in) /\ count' = count + 1 /\ UNCHANGED <<msg, tries, ret>>
  <2>1. /\ at' = "reply" /\ clock' = 1 /\ todo' = i2c_send_ack_or_nack(count' < req'.read)
        /\ in' = <<>> /\ late' = FALSE /\ UNCHANGED <<scl, sda, slave, heard, waited, req>>
    BY <1>1, <1>2 DEF Ended, Reply, Run
  <2>2. req \in Request /\ ret = "ok" /\ scl = 0 /\ req.read \in 0 .. MaxLen
    BY <1>1, <1>2, EndedLow, RequestType
  <2>3. /\ buf' \in Seq(Seq(Bit)) /\ Len(buf') = count' /\ count' \in 1 .. req.read /\ count' \in 0 .. MaxLen
        /\ Len(buf') <= MaxLen
    BY <1>1, <1>2, <2>2
  <2>4. sda = 1
    <3>1. RecvOK /\ i2c_waitack # <<>> /\ <<>> \notin AckLeft
      BY <1>1, <1>2 DEF MasterOK, i2c_waitack, AckLeft
    <3>2. QED
      BY <1>1, <3>1 DEF RecvOK
  <2>5. ReplyOK' /\ ClockOK'
    <3>1. CASE count' < req'.read
      <4>1. todo' = <<"SDA_L", "SCL_H", "wait", "SCL_L">>
        BY <2>1, <3>1 DEF i2c_send_ack_or_nack
      <4>2. todo' \notin BitLeft /\ todo' # <<>> /\ Head(todo') = "SDA_L"
        BY <4>1 DEF BitLeft
      <4>3. QED
        BY <2>1, <2>2, <3>1, <4>1, <4>2 DEF ReplyOK, ClockOK
    <3>2. CASE ~(count' < req'.read)
      <4>1. todo' = <<"SCL_H", "wait", "SCL_L">>
        BY <2>1, <3>2 DEF i2c_send_ack_or_nack
      <4>2. todo' \in BitLeft /\ todo' # <<>> /\ Head(todo') = "SCL_H"
        BY <4>1 DEF BitLeft
      <4>3. QED
        BY <2>1, <2>2, <2>4, <3>2, <4>1, <4>2 DEF ReplyOK, ClockOK
    <3>3. QED
      BY <3>1, <3>2
  <2>6. in' \in Seq(Bit) /\ Len(in') <= Bits /\ clock' \in Nat
    BY <2>1
  <2>7. QED
    BY <1>1, <1>2, <2>1, <2>2, <2>3, <2>5, <2>6 DEF MasterOK
<1>3. CASE late /\ Out("error")
  BY <1>1, <1>3, EndedLow, OutOK
<1>4. QED
  BY <1>2, <1>3 DEF ByteRead

\* A byte read was answered.
LEMMA RepliedOK ==
  ASSUME MasterOK, Replied
  PROVE  MasterOK'
<1>1. /\ at = "reply" /\ todo = <<>> /\ Ended("reply") /\ msg = 2 /\ count \in 0 .. MaxLen
      /\ Len(buf) = count
  BY DEF Replied, Ended, MasterOK
<1>2. CASE ~late /\ count < req.read /\ Transmit(count) /\ UNCHANGED <<msg, count, tries, buf, ret>>
  BY <1>1, <1>2, EndedLow, TransmitOK
<1>3. CASE ~late /\ Out("ok")
  BY <1>1, <1>3, EndedLow, OutOK
<1>4. CASE late /\ Out("error")
  BY <1>1, <1>4, EndedLow, OutOK
<1>5. QED
  BY <1>2, <1>3, <1>4 DEF Replied

\* The call returns.
LEMMA ReturnOK ==
  ASSUME MasterOK, Return
  PROVE  MasterOK'
<1>1. /\ at' = "idle" /\ clock' = 1 /\ todo' = <<>> /\ in' = <<>> /\ late' = FALSE
      /\ req' = NoRequest /\ msg' = 1 /\ count' = 0 /\ tries' = 0 /\ buf' = <<>> /\ ret' = "ok"
      /\ heard' = TRUE /\ waited' = FALSE
  BY DEF Return, Run
<1>2. /\ in' \in Seq(Bit) /\ Len(in') <= Bits /\ buf' \in Seq(Seq(Bit)) /\ Len(buf') <= MaxLen
      /\ clock' \in Nat /\ count' \in 0 .. MaxLen /\ tries' \in 0 .. Retries /\ IdleOK'
  BY <1>1 DEF IdleOK
<1>3. QED
  BY <1>1, <1>2 DEF MasterOK

\* A wait whose result is looked at leaves the routine.
LEMMA GiveUpOK ==
  ASSUME MasterOK, WaitTimesOut, ~Unchecked
  PROVE  MasterOK'
<1>1. /\ todo # <<>> /\ waited' = TRUE /\ late' = TRUE /\ todo' = <<>>
      /\ UNCHANGED <<clock, scl, sda, slave, at, in, req, msg, count, tries, buf, ret, heard>>
  BY DEF WaitTimesOut, GiveUp
<1>2. at \in {"address", "send", "recv", "reply"}
  BY <1>1 DEF MasterOK, IdleOK, Unchecked
<1>3. QED
  BY <1>1, <1>2 DEF MasterOK

\* The slave ends a stretch.
LEMMA ReleaseOK ==
  ASSUME MasterOK, Release
  PROVE  MasterOK'
<1>1. /\ SCL = 0 /\ UNCHANGED <<scl, sda, heard, waited>>
      /\ UNCHANGED <<at, clock, todo, in, late, req, msg, count, tries, buf, ret>>
  BY DEF Release, SCL, control
<1>2. /\ at' = "idle" => IdleOK'
      /\ at' = "start" => StartOK'
      /\ at' \in {"retry", "stop"} => StopOK'
  BY <1>1 DEF MasterOK, StartOK, IdleOK, StopOK
<1>3. at' \in {"address", "send"} /\ ~late' => SendOK'
  BY <1>1 DEF MasterOK, SendOK, Sent, Addr
<1>4. /\ at' = "recv" /\ ~late' => RecvOK'
      /\ at' = "reply" /\ ~late' => ReplyOK'
  BY <1>1 DEF MasterOK, RecvOK, ReplyOK
<1>5. /\ at' \in {"address", "send", "recv", "reply"} /\ ~late' => ClockOK'
      /\ at' = "stop" /\ (ret' = "ok" \/ ~waited') => BusOK'
  BY <1>1 DEF MasterOK, ClockOK, BusOK
<1>6. at' = "stop" /\ ~waited' => todo' \notin {<<"SDA_H">>, <<>>}
  BY <1>1 DEF MasterOK
<1>7. QED
  BY <1>1, <1>2, <1>3, <1>4, <1>5, <1>6 DEF MasterOK

\* MasterOK is inductive.
LEMMA StepMasterOK ==
  ASSUME SlaveShape, MasterOK, [Next]_vars
  PROVE  MasterOK'
<1>1. CASE LineOp \/ WaitHigh \/ GetSDA \/ (WaitTimesOut /\ Unchecked)
  <2>1. heard' \in BOOLEAN /\ waited' \in BOOLEAN
    BY <1>1 DEF LineOp, WaitHigh, GetSDA, WaitTimesOut, SeesStart, MasterOK
  <2>2. QED
    BY <1>1, <2>1, OpMoves, OpMasterOK
<1>2. CASE \E r \in Request : Transfer(r)
  BY <1>2, TransferOK
<1>3. CASE UNCHANGED vars
  <2>1. SCL' = SCL
    BY <1>3 DEF vars, SCL
  <2>2. QED
    BY <1>3, <2>1 DEF vars, control, MasterOK, StartOK, IdleOK, StopOK, SendOK, RecvOK, ReplyOK, Sent, Addr,
                      ClockOK, BusOK
<1>4. QED
  BY <1>1, <1>2, <1>3, SendAddressOK, AddressSentOK, TryAgainOK, ByteSentOK, ByteReadOK, RepliedOK,
     ReturnOK, GiveUpOK, ReleaseOK DEF Next, Master

------------------------------------------------------------------------------
(* Master and slave stay in step: what the proofs share                    *)

\* While the clock is low no START and no STOP is seen.
LEMMA LowData ==
  ASSUME SlaveShape, SCL = 0, NEW v \in Bit, SetSDA(v)
  PROVE  Still
BY DataMoves DEF SeesStart, SeesStop

\* Bits that agree make the same byte.
LEMMA SameByte ==
  ASSUME NEW a \in Seq(Bit), Len(a) = Bits, NEW b \in [1 .. Bits -> Bit],
         \A i \in 1 .. Bits : a[i] = b[i]
  PROVE  a = b
<1>1. a \in [1 .. Bits -> Bit]
  OBVIOUS
<1>2. QED
  BY <1>1

\* The slave takes the next byte.
LEMMA TakenMore ==
  ASSUME NEW c \in Nat, Taken(c), slave.written \in Seq(Seq(Bit)), req.write[c + 1] \in Seq(Bit),
         slave'.written = Append(slave.written, req.write[c + 1]), req' = req
  PROVE  Len(slave'.written) = c + 1 /\ \A i \in 1 .. c + 1 : slave'.written[i] = req'.write[i]
<1>1. Len(slave.written) = c /\ \A i \in 1 .. c : slave.written[i] = req.write[i]
  BY DEF Taken
<1>2. /\ Len(slave'.written) = c + 1
      /\ \A i \in 1 .. c : slave'.written[i] = slave.written[i]
      /\ slave'.written[c + 1] = req.write[c + 1]
  BY <1>1
<1>3. QED
  BY <1>1, <1>2

\* The clock rises on a byte that is being sent.
LEMMA RiseInByte ==
  ASSUME SlaveShape, MasterOK, at \in {"address", "send"}, ~late, clock <= Bits + 1, InByte,
         slave.mode \in {"address", "write"}, Rose, todo \in BitLeft \cup AckLeft,
         UNCHANGED <<clock, sda, in>>, Sent' = Sent, todo' # <<"SCL_L">>
  PROVE  /\ InByte' /\ slave'.mode = slave.mode /\ slave'.served = slave.served
         /\ slave'.n = clock /\ slave'.sda = slave.sda
         /\ slave'.written = IF clock = Bits + 1 /\ slave.mode = "write" /\ slave.sda = 0
                             THEN Log(slave.written, slave.byte) ELSE slave.written
<1>1. /\ SCL = 0 /\ SCL' = 1 /\ Risen(slave', slave, SDA)
      /\ clock \in 1 .. Bits + 1 /\ slave.n = clock - 1
  BY DEF Rose, InByte, MasterOK, SendOK
<1>2. /\ slave'.mode = slave.mode /\ slave'.served = slave.served /\ slave'.sda = slave.sda
      /\ slave'.refused = slave.refused /\ slave'.n = clock
      /\ slave'.written = IF clock = Bits + 1 /\ slave.mode = "write" /\ slave.sda = 0
                          THEN Log(slave.written, slave.byte) ELSE slave.written
      /\ slave'.byte = IF clock <= Bits THEN Append(slave.byte, SDA) ELSE slave.byte
  BY <1>1 DEF Risen
<1>3. CASE clock <= Bits
  <2>1. SDA = Sent[clock]
    <3>1. slave.sda = 1 /\ sda = Sent[clock]
      <4>1. SendOK /\ WriteBit(Sent[clock]) \notin BitLeft
        BY DEF MasterOK, WriteBit, BitLeft
      <4>2. todo \in BitLeft
        BY <1>1, <1>3, <4>1 DEF SendOK, AckLeft, BitLeft, WriteBit
      <4>3. QED
        BY <1>3, <4>1, <4>2 DEF SendOK, InByte
    <3>2. QED
      BY <3>1 DEF SDA
  <2>2. Len(slave.byte) = clock - 1 /\ slave.byte \in Seq(Bit)
    BY <1>1, <1>3, LineTypes DEF SlaveShape
  <2>3. \A i \in 1 .. Len(slave'.byte) : slave'.byte[i] = Sent[i]
    BY <1>1, <1>2, <1>3, <2>1, <2>2 DEF InByte
  <2>4. InByte'
    BY <1>1, <1>2, <1>3, <2>3 DEF InByte
  <2>5. QED
    BY <1>2, <2>4
<1>4. CASE clock = Bits + 1
  BY <1>1, <1>2, <1>4 DEF InByte
<1>5. QED
  BY <1>1, <1>3, <1>4

\* A clock that rises between two bytes takes nothing from the master.
LEMMA RoseBetween ==
  ASSUME SlaveShape, Rose, slave.mode \in {"off", "address"} \/ Between
  PROVE  /\ slave'.mode = slave.mode /\ slave'.sda = slave.sda /\ slave'.refused = slave.refused
         /\ slave'.written = slave.written /\ slave'.served = slave.served /\ (Between => Between')
<1>1. /\ SCL = 0 /\ SCL' = 1 /\ slave.n \in 0 .. Bits + 1 /\ slave'.mode = slave.mode
      /\ slave'.sda = slave.sda /\ slave'.refused = slave.refused
      /\ slave.mode # "off" => slave'.n = slave.n + 1
      /\ slave.mode # "read" => slave'.served = slave.served
      /\ ~(slave.mode = "write" /\ slave.n = Bits) => slave'.written = slave.written
  BY LineTypes DEF Rose, Risen
<1>2. slave.mode # "read" /\ ~(slave.mode = "write" /\ slave.n = Bits)
  BY <1>1 DEF Between
<1>3. QED
  BY <1>1, <1>2 DEF Between

\* What an operation of i2c_start or i2c_restart leaves in step.
LEMMA StartMoves ==
  ASSUME SlaveShape, MasterOK, InStep, at = "start", heard', NEW op, Op(op), Effect(op), Moves(op)
  PROVE  InStart'
<1>1. /\ StartOK /\ msg \in {1, 2} /\ todo \in StartLeft /\ UNCHANGED <<req, msg>>
      /\ todo # <<>> /\ Head(todo) = op
  BY DEF MasterOK, StartOK, Effect, Op
<1>2. todo # i2c_start => heard /\ InStart
  BY DEF Moves, InStep
<1>3. CASE op \in {"SDA_H", "SCL_H", "wait"}
  <2>1. /\ todo \notin {<<"SCL_L">>, <<>>} /\ todo' \notin {<<"SCL_L">>, <<>>} /\ todo # i2c_start
    BY <1>1, <1>3, StartOps DEF i2c_start, i2c_restart
  <2>2. msg = 2 => /\ Taken(Whole) /\ slave.served = <<>>
                   /\ slave.mode \in {"off", "address"} \/ Between
    BY <1>2, <2>1 DEF InStart
  <2>3. CASE op \in {"SDA_H", "wait"}
    <3>1. Still
      <4>1. CASE op = "SDA_H"
        <5>1. SCL = 0 /\ 1 \in Bit /\ SetSDA(1)
          BY <1>1, <4>1 DEF StartOK, SCL, Bit, Moves
        <5>2. QED
          BY <5>1, LowData
      <4>2. CASE op = "wait"
        BY <4>2, LineTypes DEF Moves, Effect, Still, Same, SCL
      <4>3. QED
        BY <2>3, <4>1, <4>2
    <3>2. QED
      BY <1>1, <2>1, <2>2, <3>1 DEF InStart, Still, Same, Taken, Whole, Between
  <2>4. CASE op = "SCL_H" /\ Still
    BY <1>1, <2>1, <2>2, <2>4 DEF InStart, Still, Same, Taken, Whole, Between
  <2>5. CASE op = "SCL_H" /\ Rose
    <3>1. SUFFICES ASSUME msg = 2
                   PROVE  Taken(Whole)' /\ slave'.served = <<>>
                          /\ (slave'.mode \in {"off", "address"} \/ Between')
      BY <1>1, <2>1 DEF InStart
    <3>2. QED
      BY <1>1, <2>2, <2>5, <3>1, RoseBetween DEF Taken, Whole
  <2>6. QED
    BY <1>3, <2>3, <2>4, <2>5 DEF Moves
<1>4. CASE op = "SDA_L"
  <2>1. todo = i2c_start /\ todo' = <<"SCL_L">> /\ todo \notin {<<"SCL_L">>, <<>>}
    BY <1>1, <1>4, StartOps DEF i2c_start
  <2>2. SeesStart(0) /\ (msg = 2 => heard) /\ SetSDA(0) /\ 0 \in Bit
    BY <1>4, <2>1 DEF Moves, Bit
  <2>3. SCL = 1 /\ slave.sda = 1
    BY <2>2, LineTypes DEF SeesStart, SDA, Bit
  <2>4. msg = 2 => Taken(Whole) /\ slave.served = <<>>
    BY <2>1, <2>2 DEF InStep, InStart
  <2>5. /\ slave'.mode = "address" /\ slave'.n = 0 /\ slave'.sda = 1 /\ SCL' = 1
        /\ slave'.written = IF msg = 1 THEN <<>> ELSE slave.written
        /\ slave'.served = IF msg = 1 THEN <<>> ELSE slave.served
    BY <2>2, <2>3, DataMoves
  <2>6. QED
    BY <1>1, <2>1, <2>4, <2>5 DEF InStart, Opened, Taken, Before, Whole
<1>5. CASE op = "SCL_L"
  <2>1. todo = <<"SCL_L">> /\ todo' = <<>> /\ todo # i2c_start
    BY <1>1, <1>5, StartOps DEF i2c_start
  <2>2. Opened /\ Taken(Before) /\ slave.served = <<>> /\ SCL = 1
    BY <1>2, <2>1 DEF InStart
  <2>3. PICK s \in Fall(slave) : Same(s)
    BY <1>5, <2>2 DEF Moves, Fell
  <2>4. s = slave
    BY <2>2, <2>3, LineTypes, FallCases DEF Opened
  <2>5. QED
    BY <1>1, <2>1, <2>2, <2>3, <2>4 DEF InStart, Same, Opened, Taken, Before, Whole
<1>6. op \in {"SDA_H", "SCL_H", "wait", "SDA_L", "SCL_L"}
  BY <1>1, StartOps
<1>7. QED
  BY <1>3, <1>4, <1>5, <1>6

\* What an operation of the i2c_stop of a retry leaves in step.
LEMMA RetryMoves ==
  ASSUME SlaveShape, MasterOK, InStep, at = "retry", heard', NEW op, Op(op), Effect(op), Moves(op)
  PROVE  InRetry'
<1>1. heard /\ InRetry /\ todo \in StopLeft /\ UNCHANGED <<req, msg>>
  BY DEF MasterOK, StopOK, Effect, Moves, InStep
<1>2. SUFFICES ASSUME msg = 2
               PROVE  Taken(Whole)' /\ slave'.served = <<>> /\ slave'.mode \in {"off", "address"}
  BY <1>1 DEF InRetry
<1>3. Taken(Whole) /\ slave.served = <<>> /\ slave.mode \in {"off", "address"}
  BY <1>1, <1>2 DEF InRetry
<1>4. op \in {"SDA_L", "SCL_H", "wait", "SDA_H"}
  BY <1>1, StopOps
<1>5. ASSUME NEW v \in Bit, SetSDA(v)
      PROVE  Taken(Whole)' /\ slave'.served = <<>> /\ slave'.mode \in {"off", "address"}
  BY <1>1, <1>2, <1>3, <1>5, DataMoves DEF Becomes, Still, Same, Taken, Whole
<1>6. CASE op \in {"SDA_L", "SDA_H"}
  BY <1>5, <1>6 DEF Moves, Bit
<1>7. CASE op = "wait"
  BY <1>1, <1>3, <1>7 DEF Moves, Taken, Whole
<1>8. CASE op = "SCL_H"
  BY <1>1, <1>3, <1>8 DEF Moves, Still, Same, Rose, Risen, Taken, Whole
<1>9. QED
  BY <1>4, <1>6, <1>7, <1>8

------------------------------------------------------------------------------
(* Master and slave stay in step: a byte that is sent                      *)

\* The operations of a byte that is sent.
LEMMA SendOps ==
  ASSUME MasterOK, at \in {"address", "send"}, ~late, NEW op, Op(op)
  PROVE  /\ clock \in 1 .. Bits + 1 /\ op \in {"SDA_H", "SDA_L", "SCL_H", "wait", "GET_SDA", "SCL_L"}
         /\ op = "SCL_H" => todo \in BitLeft \cup AckLeft
         /\ op # "SCL_L" => clock' = clock
         /\ op \in {"SDA_H", "SDA_L", "SCL_H"} => todo' # <<"SCL_L">>
         /\ op = "wait" /\ clock = Bits + 1 => todo' # <<"SCL_L">>
         /\ op = "GET_SDA" => clock = Bits + 1 /\ sda = 1 /\ in = <<>>
         /\ op = "SCL_L" => todo = <<"SCL_L">> /\ todo' = Clock(clock + 1) /\ clock' = clock + 1
<1>1. SendOK /\ in \in Seq(Bit) /\ todo # <<>>
  BY DEF MasterOK, Op
<1>2. clock \in 1 .. Bits + 1
  BY <1>1 DEF SendOK
<1>3. CASE clock <= Bits
  <2> DEFINE first == IF Sent[clock] = 1 THEN "SDA_H" ELSE "SDA_L"
  <2>1. todo \in {<<first, "SCL_H", "wait", "SCL_L">>} \cup BitLeft /\ clock # Bits + 1
    BY <1>1, <1>2, <1>3 DEF SendOK, WriteBit
  <2>2. first \in {"SDA_H", "SDA_L"}
    OBVIOUS
  <2> HIDE DEF first
  <2>3. \/ /\ op = first /\ todo' = <<"SCL_H", "wait", "SCL_L">> /\ clock' = clock
        \/ /\ op = "SCL_H" /\ todo = <<"SCL_H", "wait", "SCL_L">>
           /\ todo' = <<"wait", "SCL_L">> /\ clock' = clock
        \/ op = "wait" /\ clock' = clock
        \/ op = "SCL_L" /\ todo = <<"SCL_L">> /\ todo' = Clock(clock + 1) /\ clock' = clock + 1
    BY <2>1, <2>2, BitOps
  <2>4. QED
    BY <1>2, <2>1, <2>2, <2>3 DEF BitLeft
<1>4. CASE clock = Bits + 1
  <2>1. /\ todo \in {i2c_waitack} \cup AckLeft /\ (todo \in AckLeft => sda = 1)
        /\ Len(in) = IF todo = <<"SCL_L">> THEN 1 ELSE 0
    BY <1>1, <1>4 DEF SendOK
  <2>2. CASE op = "SCL_L"
    BY <1>2, <2>1, <2>2, AckOps
  <2>3. CASE op # "SCL_L"
    <3>1. /\ clock' = clock /\ todo # <<"SCL_L">> /\ op \in {"SDA_H", "SCL_H", "wait", "GET_SDA"}
          /\ op # "SDA_H" => todo \in AckLeft
          /\ todo' = <<"SCL_L">> <=> op = "GET_SDA"
      BY <2>1, <2>3, AckSteps
    <3>2. in = <<>>
      BY <1>1, <2>1, <3>1
    <3>3. QED
      BY <1>2, <1>4, <2>1, <2>3, <3>1, <3>2
  <2>4. QED
    BY <2>2, <2>3
<1>5. QED
  BY <1>2, <1>3, <1>4

\* Until the clock falls.
LEMMA ByteMoves ==
  ASSUME SlaveShape, MasterOK, at \in {"address", "send"}, ~late, InByte, slave.mode \in {"address", "write"},
         NEW op, Op(op), Effect(op), Moves(op), op # "SCL_L"
  PROVE  /\ InByte' /\ slave'.mode = slave.mode /\ slave'.served = slave.served /\ slave'.sda = slave.sda
         /\ \/ /\ slave'.written = slave.written
               /\ slave'.n = slave.n \/ (slave.n < Bits /\ slave'.n <= Bits) \/ slave.mode = "address" \/ slave.sda # 0
            \/ /\ slave.mode = "write" /\ slave.n = Bits /\ slave'.n = Bits + 1 /\ slave.sda = 0
               /\ slave'.written = Log(slave.written, slave.byte)
<1>1. /\ clock \in 1 .. Bits + 1 /\ op \in {"SDA_H", "SDA_L", "SCL_H", "wait", "GET_SDA"} /\ clock' = clock
      /\ op = "SCL_H" => todo \in BitLeft \cup AckLeft
      /\ op \in {"SDA_H", "SDA_L", "SCL_H"} => todo' # <<"SCL_L">>
      /\ op = "wait" /\ clock = Bits + 1 => todo' # <<"SCL_L">>
      /\ op = "GET_SDA" => clock = Bits + 1 /\ sda = 1 /\ in = <<>>
  BY SendOps
<1>2. Sent' = Sent /\ slave.n = clock - 1 + SCL
  BY DEF Effect, Sent, Addr, InByte
<1>3. CASE op \in {"SDA_H", "SDA_L"} \/ (op = "SCL_H" /\ Still)
  <2>1. Still
    <3>1. op \in {"SDA_H", "SDA_L"} => SCL = 0
      BY DEF MasterOK, ClockOK, Op, SCL
    <3>2. QED
      BY <1>3, <3>1, LowData DEF Moves, Bit
  <2>2. in' = in /\ todo' # <<"SCL_L">>
    BY <1>1, <1>3 DEF Effect
  <2>3. QED
    BY <1>1, <1>2, <2>1, <2>2 DEF InByte, Still, Same
<1>4. CASE op = "SCL_H" /\ Rose
  <2>1. /\ clock <= Bits + 1 /\ todo \in BitLeft \cup AckLeft /\ UNCHANGED <<clock, sda, in>> /\ todo' # <<"SCL_L">>
    BY <1>1, <1>4 DEF Effect
  <2>2. /\ InByte' /\ slave'.mode = slave.mode /\ slave'.served = slave.served
        /\ slave'.n = clock /\ slave'.sda = slave.sda
        /\ slave'.written = IF clock = Bits + 1 /\ slave.mode = "write" /\ slave.sda = 0
                            THEN Log(slave.written, slave.byte) ELSE slave.written
    BY <1>2, <1>4, <2>1, RiseInByte
  <2>3. slave.n = clock - 1
    BY <1>1, <1>2, <1>4 DEF Rose
  <2>4. QED
    BY <1>1, <2>2, <2>3
<1>5. CASE op \in {"wait", "GET_SDA"}
  <2>1. slave' = slave /\ SCL' = SCL
    BY <1>5 DEF Moves, Effect
  <2>2. clock = Bits + 1 /\ todo' = <<"SCL_L">> => in' = <<slave.sda>>
    <3>1. SUFFICES ASSUME clock = Bits + 1, todo' = <<"SCL_L">>
                   PROVE  in' = <<slave.sda>>
      OBVIOUS
    <3>2. in' = Append(<<>>, SDA) /\ sda = 1
      BY <1>1, <1>5, <3>1 DEF Effect
    <3>3. SDA = slave.sda
      BY <3>2, LineTypes DEF SDA, Bit
    <3>4. QED
      BY <3>2, <3>3
  <2>3. QED
    BY <1>1, <1>2, <2>1, <2>2 DEF InByte
<1>6. QED
  BY <1>1, <1>3, <1>4, <1>5 DEF Moves

\* When it falls.
LEMMA ByteFalls ==
  ASSUME SlaveShape, MasterOK, at \in {"address", "send"}, ~late, InByte, slave.mode \in {"address", "write"},
         NEW op, Op(op), Effect(op), Moves(op), op = "SCL_L"
  PROVE  /\ clock \in 1 .. Bits + 1 /\ clock' = clock + 1 /\ in' = in
         /\ slave'.served = slave.served /\ slave'.written = slave.written
         /\ clock <= Bits => InByte' /\ slave'.mode = slave.mode /\ slave'.n = clock
         /\ clock = Bits + 1 =>
              /\ slave.n = Bits + 1 /\ in = <<slave.sda>> /\ slave.sda \in Bit
              /\ slave.sda = 1 => Refused'
              /\ slave.sda = 0 => IF slave.mode = "address" /\ slave.byte[Bits] = 1 THEN Serves' ELSE Takes'
<1>1. /\ clock \in 1 .. Bits + 1 /\ todo = <<"SCL_L">> /\ todo' = Clock(clock + 1) /\ clock' = clock + 1
  BY SendOps
<1>2. Sent' = Sent /\ Sent \in [1 .. Bits -> Bit] /\ in' = in /\ SCL' = 0
  BY SentType DEF Effect, Sent, Addr
<1>3. SCL = 1 /\ slave.n = clock
  BY <1>1 DEF MasterOK, ClockOK, InByte
<1>4. PICK s \in Fall(slave) : Same(s)
  BY <1>3 DEF Moves, Fell
<1>5. CASE clock < Bits
  <2>1. s = slave
    BY <1>1, <1>3, <1>5, LineTypes, FallCases
  <2>2. Same(slave) /\ slave.sda = 1
    BY <1>1, <1>4, <1>5, <2>1 DEF InByte
  <2>3. InByte'
    BY <1>1, <1>2, <1>3, <1>5, <2>2 DEF InByte, Same
  <2>4. QED
    BY <1>1, <1>2, <1>3, <1>5, <2>2, <2>3 DEF Same
<1>6. CASE clock = Bits
  <2>1. s = [slave EXCEPT !.sda = 0] \/ s = [slave EXCEPT !.refused = TRUE]
    BY <1>1, <1>3, <1>6, LineTypes, FallCases
  <2>2. /\ slave'.mode = slave.mode /\ slave'.n = slave.n /\ slave'.byte = slave.byte
        /\ slave'.served = slave.served /\ slave'.written = slave.written
        /\ slave'.sda = 1 => slave'.refused
    BY <1>4, <2>1, LineTypes DEF Same, Slave
  <2>3. i2c_writeb(Sent, clock + 1) = i2c_waitack /\ i2c_waitack # <<"SCL_L">>
    BY <1>1, <1>6 DEF i2c_writeb, i2c_waitack
  <2>4. todo' # <<"SCL_L">>
    BY <1>1, <2>3, ClockSent
  <2>5. InByte'
    BY <1>1, <1>2, <1>3, <1>6, <2>2, <2>4 DEF InByte
  <2>6. QED
    BY <1>1, <1>2, <1>3, <1>6, <2>2, <2>5
<1>7. CASE clock = Bits + 1
  <2>1. in = <<slave.sda>> /\ (slave.sda = 1 => slave.refused) /\ slave.sda \in Bit
    BY <1>1, <1>7, LineTypes DEF InByte
  <2>2. \/ /\ slave.sda = 0 /\ slave.mode = "address" /\ slave.byte[Bits] = 1
           /\ \E v \in Bit : Becomes(s, slave, "read", 0, <<v>>, v)
        \/ /\ ~(slave.sda = 0 /\ slave.mode = "address" /\ slave.byte[Bits] = 1)
           /\ Becomes(s, slave, IF slave.sda = 0 THEN "write" ELSE "off", 0, <<>>, 1)
    BY <1>3, <1>7, LineTypes, FallCases
  <2>3. CASE slave.sda = 0 /\ slave.mode = "address" /\ slave.byte[Bits] = 1
    <3>1. PICK v \in Bit : Becomes(s, slave, "read", 0, <<v>>, v)
      BY <2>2, <2>3
    <3>2. QED
      BY <1>1, <1>2, <1>3, <1>4, <1>7, <2>1, <2>3, <3>1 DEF Becomes, Same, Serves
  <2>4. CASE ~(slave.sda = 0 /\ slave.mode = "address" /\ slave.byte[Bits] = 1)
    <3>1. Becomes(s, slave, IF slave.sda = 0 THEN "write" ELSE "off", 0, <<>>, 1)
      BY <2>2, <2>4
    <3>2. QED
      BY <1>1, <1>2, <1>3, <1>4, <1>7, <2>1, <2>4, <3>1 DEF Becomes, Same, Takes, Refused, Bit
  <2>5. QED
    BY <2>3, <2>4
<1>8. QED
  BY <1>1, <1>5, <1>6, <1>7

\* The address is on its way.
LEMMA AddressMoves ==
  ASSUME SlaveShape, MasterOK, InStep, at = "address", heard', NEW op, Op(op), Effect(op), Moves(op)
  PROVE  InAddress'
<1>1. /\ heard /\ ~late /\ ~late' /\ UNCHANGED <<req, msg>> /\ clock \in 1 .. Bits + 1 /\ msg \in {1, 2}
  BY SendOps DEF Moves, Op, MasterOK, Effect
<1>2. Taken(Before) /\ slave.served = <<>> /\ slave.mode = "address" /\ InByte
  BY <1>1 DEF InStep, InAddress
<1>3. ASSUME slave'.written = slave.written
      PROVE  Taken(Before)'
  BY <1>1, <1>2, <1>3 DEF Taken, Before, Whole
<1>4. CASE op # "SCL_L"
  <2>1. /\ InByte' /\ slave'.mode = "address" /\ slave'.served = <<>> /\ slave'.written = slave.written
        /\ clock' = clock
    BY <1>1, <1>2, <1>4, ByteMoves, SendOps
  <2>2. QED
    BY <1>1, <1>3, <2>1 DEF InAddress
<1>5. CASE op = "SCL_L" /\ clock <= Bits
  <2>1. /\ InByte' /\ slave'.mode = "address" /\ slave'.served = <<>> /\ slave'.written = slave.written
        /\ clock' = clock + 1
    BY <1>1, <1>2, <1>5, ByteFalls
  <2>2. QED
    BY <1>1, <1>3, <1>5, <2>1 DEF InAddress
<1>6. CASE op = "SCL_L" /\ clock = Bits + 1
  <2>1. /\ slave'.served = <<>> /\ slave'.written = slave.written /\ clock' = Bits + 2
        /\ in' = <<slave.sda>> /\ slave.sda \in Bit
        /\ slave.sda = 1 => Refused'
        /\ slave.sda = 0 => IF slave.byte[Bits] = 1 THEN Serves' ELSE Takes'
        /\ slave.n = Bits + 1
    BY <1>1, <1>2, <1>6, ByteFalls
  <2>2. slave.byte[Bits] = IF msg = 1 THEN 0 ELSE 1
    <3>1. Len(slave.byte) = Bits
      BY <1>2, <2>1 DEF SlaveShape
    <3>2. slave.byte[Bits] = Sent[Bits]
      BY <1>2, <3>1 DEF InByte
    <3>3. QED
      BY <1>1, <3>2 DEF Sent, Addr
  <2>3. in' = <<0>> <=> slave.sda = 0
    BY <2>1 DEF Bit
  <2>4. /\ in' = <<0>> => IF msg' = 1 THEN Takes' ELSE Serves'
        /\ in' # <<0>> => Refused'
    BY <1>1, <2>1, <2>2, <2>3 DEF Bit
  <2>5. QED
    BY <1>1, <1>3, <2>1, <2>4 DEF InAddress
<1>7. QED
  BY <1>1, <1>4, <1>5, <1>6

\* The byte the slave takes at the acknowledge is the byte that was sent.
LEMMA TakenInByte ==
  ASSUME SlaveShape, MasterOK, at = "send", InByte, slave.mode = "write", UNCHANGED <<req, count>>,
         Taken(IF slave.n = Bits + 1 /\ slave.sda = 0 THEN count + 1 ELSE count), slave'.sda = slave.sda,
         \/ /\ slave'.written = slave.written
            /\ slave'.n = slave.n \/ (slave.n < Bits /\ slave'.n <= Bits) \/ slave.sda # 0
         \/ /\ slave.n = Bits /\ slave'.n = Bits + 1 /\ slave.sda = 0
            /\ slave'.written = Log(slave.written, slave.byte)
  PROVE  Taken(IF slave.n = Bits + 1 /\ slave.sda = 0 THEN count + 1 ELSE count)'
<1>1. /\ slave.written \in Seq(Seq(Bit)) /\ slave.byte \in Seq(Bit) /\ slave.n \in 0 .. Bits + 1
      /\ Sent = req.write[count + 1] /\ Sent \in [1 .. Bits -> Bit]
      /\ Len(req.write) \in 1 .. MaxLen /\ count \in Nat /\ count < Len(req.write)
  BY LineTypes, RequestType, SentType DEF Sent, MasterOK
<1>2. CASE /\ slave'.written = slave.written
           /\ slave'.n = slave.n \/ (slave.n < Bits /\ slave'.n <= Bits) \/ slave.sda # 0
  <2>1. slave'.n = Bits + 1 /\ slave'.sda = 0 <=> slave.n = Bits + 1 /\ slave.sda = 0
    BY <1>1, <1>2
  <2>2. QED
    BY <1>2, <2>1 DEF Taken
<1>3. CASE /\ slave.n = Bits /\ slave'.n = Bits + 1 /\ slave.sda = 0
           /\ slave'.written = Log(slave.written, slave.byte)
  <2>1. Taken(count) /\ count < MaxLen
    BY <1>1, <1>3
  <2>2. slave.byte = req.write[count + 1]
    <3>1. Len(slave.byte) = Bits
      BY <1>3 DEF SlaveShape
    <3>2. \A i \in 1 .. Bits : slave.byte[i] = Sent[i]
      BY <3>1 DEF InByte
    <3>3. QED
      BY <1>1, <3>1, <3>2, SameByte
  <2>3. slave'.written = Append(slave.written, req.write[count + 1])
    <3>1. Len(slave.written) <= MaxLen
      BY <1>1, <2>1 DEF Taken
    <3>2. Log(slave.written, slave.byte) = Append(slave.written, slave.byte)
      BY <1>1, <3>1, LogType
    <3>3. QED
      BY <1>3, <2>2, <3>2
  <2>4. QED
    BY <1>1, <1>3, <2>1, <2>2, <2>3, TakenMore DEF Taken
<1>4. QED
  BY <1>2, <1>3

\* A byte of the first message is on its way.
LEMMA SendMoves ==
  ASSUME SlaveShape, MasterOK, InStep, at = "send", heard', NEW op, Op(op), Effect(op), Moves(op)
  PROVE  InSend'
<1>1. /\ heard /\ ~late /\ ~late' /\ UNCHANGED <<req, count>> /\ clock \in 1 .. Bits + 1
      /\ req \in Request /\ count \in 0 .. MaxLen /\ count < Len(req.write)
  BY SendOps DEF Moves, Op, MasterOK, Effect
<1>2. /\ slave.served = <<>> /\ slave.mode = "write" /\ InByte
      /\ Taken(IF slave.n = Bits + 1 /\ slave.sda = 0 THEN count + 1 ELSE count)
  BY <1>1 DEF InStep, InSend
<1>3. /\ slave.written \in Seq(Seq(Bit)) /\ slave.byte \in Seq(Bit) /\ slave.n \in 0 .. Bits + 1
      /\ Len(req.write) \in 1 .. MaxLen /\ Sent = req.write[count + 1] /\ Sent \in [1 .. Bits -> Bit]
  BY <1>1, LineTypes, RequestType, SentType DEF Sent
<1>4. CASE op # "SCL_L"
  <2>1. /\ InByte' /\ slave'.mode = "write" /\ slave'.served = <<>> /\ slave'.sda = slave.sda /\ clock' = clock
        /\ \/ /\ slave'.written = slave.written
              /\ slave'.n = slave.n \/ (slave.n < Bits /\ slave'.n <= Bits) \/ slave.sda # 0
           \/ /\ slave.n = Bits /\ slave'.n = Bits + 1 /\ slave.sda = 0
              /\ slave'.written = Log(slave.written, slave.byte)
    BY <1>1, <1>2, <1>4, ByteMoves, SendOps
  <2>2. Taken(IF slave.n = Bits + 1 /\ slave.sda = 0 THEN count + 1 ELSE count)'
    BY <1>1, <1>2, <2>1, TakenInByte
  <2>3. QED
    BY <1>1, <2>1, <2>2 DEF InSend
<1>5. CASE op = "SCL_L" /\ clock <= Bits
  <2>1. /\ InByte' /\ slave'.mode = "write" /\ slave'.served = <<>> /\ slave'.written = slave.written
        /\ clock' = clock + 1 /\ slave'.n = clock
    BY <1>1, <1>2, <1>5, ByteFalls
  <2>2. slave.n = clock
    BY <1>1, <1>2, <1>3, <1>5, SendOps, SMTT(30) DEF InByte, MasterOK, ClockOK
  <2>3. Taken(count)
    BY <1>2, <1>3, <1>5, <2>2
  <2>4. Taken(IF slave.n = Bits + 1 /\ slave.sda = 0 THEN count + 1 ELSE count)'
    BY <1>1, <1>5, <2>1, <2>3 DEF Taken
  <2>5. QED
    BY <1>1, <1>5, <2>1, <2>4 DEF InSend
<1>6. CASE op = "SCL_L" /\ clock = Bits + 1
  <2>1. /\ slave'.served = <<>> /\ slave'.written = slave.written /\ clock' = Bits + 2
        /\ in' = <<slave.sda>> /\ slave.sda \in Bit
        /\ slave.sda = 1 => Refused'
        /\ slave.sda = 0 => Takes'
        /\ slave.n = Bits + 1
    BY <1>1, <1>2, <1>6, ByteFalls
  <2>2. in' = <<0>> <=> slave.sda = 0
    BY <2>1 DEF Bit
  <2>3. in' = <<0>> => Taken(count + 1)'
    BY <1>1, <1>2, <2>1, <2>2 DEF Taken
  <2>4. /\ in' = <<0>> => Takes' /\ Taken(count + 1)'
        /\ in' # <<0>> => Refused'
    BY <2>1, <2>2, <2>3 DEF Bit
  <2>5. QED
    BY <1>1, <2>1, <2>4 DEF InSend
<1>7. QED
  BY <1>1, <1>4, <1>5, <1>6

------------------------------------------------------------------------------
(* Master and slave stay in step: a byte that is received, and its answer  *)

\* The operations of a byte that is received.
LEMMA RecvOps ==
  ASSUME MasterOK, at = "recv", ~late, NEW op, Op(op)
  PROVE  /\ clock \in 1 .. Bits /\ op \in {"SDA_H", "SCL_H", "wait", "GET_SDA", "SCL_L"}
         /\ op # "SCL_L" => clock' = clock
         /\ op = "GET_SDA" => sda = 1 /\ Len(in) = clock - 1
         /\ op = "SCL_L" => clock' = clock + 1 /\ Len(in) = clock
<1>1. RecvOK /\ todo # <<>>
  BY DEF MasterOK, Op
<1>2. clock \in 1 .. Bits
  BY <1>1 DEF RecvOK
<1>3. /\ todo \in {i2c_waitack} \cup AckLeft /\ (todo \in AckLeft => sda = 1)
      /\ Len(in) = IF todo = <<"SCL_L">> THEN clock ELSE clock - 1
  BY <1>1, <1>2 DEF RecvOK
<1>4. CASE op = "SCL_L"
  <2>1. todo = <<"SCL_L">> /\ clock' = clock + 1
    BY <1>3, <1>4, AckOps
  <2>2. QED
    BY <1>2, <1>3, <1>4, <2>1
<1>5. CASE op # "SCL_L"
  BY <1>2, <1>3, <1>5, AckSteps
<1>6. QED
  BY <1>4, <1>5

\* A byte of the second message is on its way.
LEMMA RecvMoves ==
  ASSUME SlaveShape, MasterOK, InStep, at = "recv", heard', NEW op, Op(op), Effect(op), Moves(op)
  PROVE  InRecv'
<1>1. /\ heard /\ ~late /\ ~late' /\ UNCHANGED <<req, buf>> /\ in \in Seq(Bit) /\ ClockOK
      /\ todo # <<>> /\ Head(todo) = op
  BY DEF Moves, Op, MasterOK, Effect
<1>2. /\ Taken(Whole) /\ slave.served = buf /\ slave.mode = "read"
      /\ \A i \in 1 .. Len(in) : in[i] = slave.byte[i]
      /\ clock <= Bits => slave.n = clock - 1 + SCL /\ slave.sda = slave.byte[clock]
  BY <1>1 DEF InStep, InRecv
<1>3. /\ clock \in 1 .. Bits /\ op \in {"SDA_H", "SCL_H", "wait", "GET_SDA", "SCL_L"}
      /\ op # "SCL_L" => clock' = clock
      /\ op = "GET_SDA" => sda = 1 /\ Len(in) = clock - 1
      /\ op = "SCL_L" => clock' = clock + 1 /\ Len(in) = clock
  BY <1>1, RecvOps
<1>4. slave.n = clock - 1 + SCL /\ slave.sda = slave.byte[clock] /\ slave.byte \in Seq(Bit) /\ clock # Bits + 1
  BY <1>2, <1>3, LineTypes
<1>5. CASE op \in {"SDA_H", "SCL_H", "wait"}
  <2>1. /\ Taken(Whole)' /\ slave'.served = slave.served /\ slave'.mode = "read" /\ slave'.byte = slave.byte
        /\ slave'.sda = slave.sda /\ slave'.n = clock - 1 + SCL'
    <3>1. CASE op \in {"SDA_H", "wait"} \/ Still
      <4>1. op = "SDA_H" => Still
        <5>1. op = "SDA_H" => SCL = 0 /\ 1 \in Bit
          BY <1>1 DEF ClockOK, SCL, Bit
        <5>2. QED
          BY <5>1, LowData DEF Moves
      <4>2. Still
        BY <3>1, <4>1, LineTypes DEF Moves, Effect, Still, Same
      <4>3. QED
        BY <1>1, <1>2, <1>3, <1>4, <4>2 DEF Still, Same, Taken, Whole
    <3>2. CASE Rose
      <4>1. SCL = 0 /\ SCL' = 1 /\ slave.n = clock - 1 /\ slave.n # Bits
        BY <1>3, <1>4, <3>2 DEF Rose
      <4>2. QED
        BY <1>1, <1>2, <1>3, <3>2, <4>1 DEF Rose, Risen, Taken, Whole
    <3>3. QED
      BY <1>5, <3>1, <3>2 DEF Moves
  <2>2. in' = in /\ clock' = clock
    BY <1>3, <1>5 DEF Effect
  <2>3. QED
    BY <1>1, <1>2, <1>3, <1>4, <2>1, <2>2 DEF InRecv
<1>6. CASE op = "GET_SDA"
  <2>1. slave' = slave /\ SCL' = SCL /\ in' = Append(in, SDA) /\ clock' = clock
    BY <1>3, <1>6 DEF Moves, Effect
  <2>2. SDA = slave.byte[clock]
    BY <1>3, <1>4, <1>6, LineTypes DEF SDA, Bit
  <2>3. \A i \in 1 .. Len(in') : in'[i] = slave.byte[i]
    BY <1>1, <1>2, <1>3, <1>6, <2>1, <2>2
  <2>4. QED
    BY <1>1, <1>2, <1>3, <1>4, <2>1, <2>3 DEF InRecv, Taken, Whole
<1>7. CASE op = "SCL_L"
  <2>1. SCL = 1 /\ SCL' = 0 /\ in' = in /\ clock' = clock + 1 /\ slave.n = clock /\ Len(in) = clock
    BY <1>1, <1>3, <1>4, <1>7 DEF ClockOK, Effect
  <2>2. PICK s \in Fall(slave) : Same(s)
    BY <1>7, <2>1 DEF Moves, Fell
  <2>3. Len(slave.byte) = clock
    BY <1>2, <1>3, <2>1 DEF SlaveShape
  <2>4. CASE clock < Bits
    <3>1. PICK v \in Bit : Becomes(s, slave, "read", slave.n, Append(slave.byte, v), v)
      <4>1. slave.mode = "read" /\ slave.n < Bits /\ slave.n >= 1 /\ slave \in Slave
        BY <1>2, <1>3, <2>1, <2>4, LineTypes
      <4>2. QED
        BY <4>1, FallCases
    <3>2. /\ slave'.mode = "read" /\ slave'.n = clock /\ slave'.byte = Append(slave.byte, v) /\ slave'.sda = v
          /\ slave'.written = slave.written /\ slave'.served = slave.served
      BY <2>1, <2>2, <3>1 DEF Becomes, Same
    <3>3. /\ slave'.byte[clock + 1] = v
          /\ \A i \in 1 .. clock : slave'.byte[i] = slave.byte[i]
      BY <1>3, <1>4, <2>3, <3>2
    <3>4. \A i \in 1 .. Len(in') : in'[i] = slave'.byte[i]
      BY <1>2, <2>1, <3>3
    <3>5. Taken(Whole)' /\ slave'.served = buf' /\ clock' # Bits + 1 /\ slave'.n = clock' - 1 + SCL'
      BY <1>1, <1>2, <1>3, <2>1, <2>4, <3>2 DEF Taken, Whole
    <3>6. slave'.sda = slave'.byte[clock']
      BY <2>1, <3>2, <3>3
    <3>7. QED
      BY <3>2, <3>4, <3>5, <3>6 DEF InRecv
  <2>5. CASE clock = Bits
    <3>1. s = [slave EXCEPT !.sda = 1]
      BY <1>2, <1>3, <2>1, <2>5, LineTypes, FallCases
    <3>2. /\ slave'.mode = "read" /\ slave'.n = Bits /\ slave'.byte = slave.byte /\ slave'.sda = 1
          /\ slave'.written = slave.written /\ slave'.served = slave.served
      BY <1>2, <2>1, <2>2, <2>5, <3>1, LineTypes DEF Slave, Same
    <3>3. QED
      BY <1>1, <1>2, <1>3, <2>1, <2>5, <3>2 DEF InRecv, Taken, Whole
  <2>6. QED
    BY <1>3, <2>4, <2>5
<1>8. QED
  BY <1>3, <1>5, <1>6, <1>7

\* The clock of the answer rises: the slave has served the byte.
LEMMA RoseInReply ==
  ASSUME SlaveShape, MasterOK, at = "reply", ~late, InReply, Rose, todo # <<>>, todo' # <<>>,
         UNCHANGED <<req, buf, count, sda>>
  PROVE  InReply'
<1>1. /\ Taken(Whole) /\ slave.mode = "read" /\ slave.n = Bits /\ slave.sda = 1 /\ SCL = 0 /\ SCL' = 1
      /\ buf = Append(slave.served, slave.byte) /\ buf \in Seq(Seq(Bit)) /\ Len(buf) <= MaxLen
      /\ slave.served \in Seq(Seq(Bit)) /\ slave.byte \in Seq(Bit)
  BY LineTypes DEF InReply, Rose, MasterOK
<1>2. SDA = sda
  BY <1>1 DEF SDA
<1>3. /\ slave'.mode = "read" /\ slave'.sda = 1 /\ slave'.n = Bits + 1 /\ slave'.byte = <<sda>>
      /\ slave'.written = slave.written /\ slave'.served = Log(slave.served, slave.byte)
  BY <1>1, <1>2 DEF Rose, Risen
<1>4. Log(slave.served, slave.byte) = buf
  <2>1. Len(buf) = Len(slave.served) + 1 /\ Len(slave.served) \in Nat
    BY <1>1
  <2>2. Len(slave.served) <= MaxLen
    BY <1>1, <2>1
  <2>3. Log(slave.served, slave.byte) = Append(slave.served, slave.byte)
    BY <1>1, <2>2, LogType
  <2>4. QED
    BY <1>1, <2>3
<1>5. QED
  BY <1>1, <1>3, <1>4 DEF InReply, Taken, Whole

\* The answer to it is on its way.
LEMMA ReplyMoves ==
  ASSUME SlaveShape, MasterOK, InStep, at = "reply", heard', NEW op, Op(op), Effect(op), Moves(op)
  PROVE  InReply'
<1>1. /\ heard /\ ~late /\ ~late' /\ UNCHANGED <<req, buf, count>> /\ ReplyOK /\ ClockOK /\ clock \in Nat
      /\ todo # <<>> /\ Head(todo) = op /\ buf \in Seq(Seq(Bit)) /\ Len(buf) <= MaxLen
  BY DEF Moves, Op, MasterOK, Effect
<1>2. /\ Taken(Whole) /\ slave.mode = "read" /\ slave.n = Bits + SCL /\ slave.sda = 1
      /\ SCL = 0 => buf = Append(slave.served, slave.byte)
      /\ SCL = 1 => buf = slave.served /\ slave.byte = <<sda>>
  BY <1>1 DEF InStep, InReply
<1>3. /\ op \in {"SDA_L", "SCL_H", "wait", "SCL_L"}
      /\ op # "SCL_L" => todo' # <<>>
      /\ op = "SCL_L" => todo = <<"SCL_L">> /\ todo' = <<>>
  <2>1. todo \in {<<"SDA_L", "SCL_H", "wait", "SCL_L">>} \cup BitLeft
    BY <1>1 DEF ReplyOK
  <2>2. \/ op = "SDA_L" /\ todo' = <<"SCL_H", "wait", "SCL_L">>
        \/ op = "SCL_H" /\ todo' = <<"wait", "SCL_L">>
        \/ op = "wait" /\ todo' = <<"SCL_L">>
        \/ op = "SCL_L" /\ todo = <<"SCL_L">> /\ todo' = Clock(clock + 1)
    BY <2>1, BitOps
  <2>3. Clock(clock + 1) = <<>>
    BY DEF Clock
  <2>4. QED
    BY <2>2, <2>3
<1>4. CASE op = "SDA_L" \/ op = "wait" \/ (op = "SCL_H" /\ Still)
  <2>1. Still /\ todo' # <<>> /\ (SCL' = 1 => sda' = sda)
    <3>1. op = "SDA_L" => SCL = 0
      BY <1>1 DEF ClockOK, SCL
    <3>2. CASE op = "SDA_L"
      <4>1. SetSDA(0) /\ 0 \in Bit
        BY <3>2 DEF Moves, Bit
      <4>2. Still
        BY <3>1, <3>2, <4>1, LowData
      <4>3. QED
        BY <1>3, <3>1, <3>2, <4>2 DEF Still
    <3>3. CASE op = "wait" \/ (op = "SCL_H" /\ Still)
      BY <1>3, <3>3, LineTypes DEF Moves, Effect, Still, Same
    <3>4. QED
      BY <1>4, <3>2, <3>3
  <2>2. QED
    BY <1>1, <1>2, <2>1 DEF InReply, Still, Same, Taken, Whole
<1>5. CASE op = "SCL_H" /\ Rose
  <2>1. sda' = sda /\ todo' # <<>> /\ InReply
    BY <1>1, <1>3, <1>5 DEF Effect, InStep
  <2>2. QED
    BY <1>1, <1>5, <2>1, RoseInReply
<1>6. CASE op = "SCL_L"
  <2>1. SCL = 1 /\ slave.n = Bits + 1 /\ slave.byte = <<sda>> /\ buf = slave.served
    BY <1>1, <1>2, <1>6 DEF ClockOK
  <2>2. sda = IF count < req.read THEN 0 ELSE 1
    BY <1>1, <1>3, <1>6 DEF ReplyOK, BitLeft
  <2>3. PICK s \in Fall(slave) : Same(s)
    BY <1>6, <2>1 DEF Moves, Fell
  <2>4. IF slave.byte = <<0>> THEN \E v \in Bit : Becomes(s, slave, "read", 0, <<v>>, v)
        ELSE Becomes(s, slave, "off", 0, <<>>, 1)
    <3>1. slave.mode = "read" /\ slave.n = Bits + 1 /\ slave.n >= 1 /\ slave \in Slave
      BY <1>2, <2>1, LineTypes
    <3>2. QED
      BY <3>1, FallCases
  <2>5. CASE count < req.read
    <3>1. PICK v \in Bit : Becomes(s, slave, "read", 0, <<v>>, v)
      BY <2>1, <2>2, <2>4, <2>5
    <3>2. QED
      BY <1>1, <1>2, <1>3, <1>6, <2>1, <2>3, <2>5, <3>1 DEF Becomes, Same, InReply, Serves, Taken, Whole
  <2>6. CASE ~(count < req.read)
    <3>1. Becomes(s, slave, "off", 0, <<>>, 1)
      BY <2>1, <2>2, <2>4, <2>6
    <3>2. QED
      BY <1>1, <1>2, <1>3, <1>6, <2>1, <2>3, <2>6, <3>1 DEF Becomes, Same, InReply, Taken, Whole
  <2>7. QED
    BY <2>5, <2>6
<1>7. QED
  BY <1>3, <1>4, <1>5, <1>6 DEF Moves

\* The bus is being given back.
LEMMA StopMoves ==
  ASSUME SlaveShape, MasterOK, InStep, at = "stop", heard', NEW op, Op(op), Effect(op), Moves(op)
  PROVE  InStop'
<1>1. /\ heard /\ InStop /\ todo \in StopLeft /\ UNCHANGED <<req, buf, ret>> /\ (waited => waited')
      /\ todo # <<>> /\ Head(todo) = op /\ ret \in {"ok", "error"}
  <2>1. heard /\ InStop
    BY DEF Moves, InStep
  <2>2. waited => waited'
    BY DEF Effect
  <2>3. QED
    BY <2>1, <2>2 DEF Op, MasterOK, Effect, StopOK
<1>2. op \in {"SDA_L", "SCL_H", "wait", "SDA_H"} /\ (todo' = <<>> => op = "SDA_H") /\ (op = "SDA_H" => todo = <<"SDA_H">>)
  BY <1>1, StopOps
<1>3. SUFFICES ASSUME ret = "ok" \/ ~waited'
               PROVE  InStop'
  BY <1>1 DEF InStop
<1>4. BusOK /\ Quiet /\ (ret = "ok" => Taken(Whole) /\ slave.served = buf) /\ (ret = "error" => slave.refused)
  BY <1>1, <1>3 DEF MasterOK, InStop
<1>5. ASSUME Still, todo' # <<>>
      PROVE  InStop'
  BY <1>1, <1>4, <1>5 DEF InStop, Quiet, Between, Still, Same, Taken, Whole
<1>6. CASE op = "SDA_L"
  <2>1. SCL = 0 /\ 0 \in Bit
    BY <1>1, <1>4, <1>6 DEF BusOK, SCL, Bit
  <2>2. QED
    BY <1>2, <1>5, <1>6, <2>1, LowData DEF Moves
<1>7. CASE op = "wait"
  <2>1. Still
    BY <1>7, LineTypes DEF Moves, Effect, Still, Same
  <2>2. QED
    BY <1>2, <1>5, <1>7, <2>1
<1>8. CASE op = "SCL_H" /\ Rose
  BY <1>1, <1>2, <1>4, <1>8, RoseBetween DEF InStop, Quiet, Taken, Whole
<1>9. CASE op = "SDA_H"
  <2>1. sda = 0 /\ slave.sda = 1 /\ SetSDA(1) /\ 1 \in Bit /\ SDA = 0
    BY <1>1, <1>4, <1>9 DEF BusOK, Quiet, Moves, SDA, Bit
  <2>2. CASE SCL = 1
    <3>1. Becomes(slave', slave, "off", 0, <<>>, 1)
      BY <2>1, <2>2, DataMoves DEF SeesStop
    <3>2. QED
      BY <1>1, <1>4, <3>1 DEF InStop, Becomes, Quiet, Taken, Whole
  <2>3. CASE SCL # 1
    <3>1. Still
      BY <2>1, <2>3, DataMoves DEF SeesStop, SeesStart
    <3>2. waited
      BY <1>2, <1>9, <2>3 DEF MasterOK
    <3>3. QED
      BY <1>1, <1>4, <3>1, <3>2 DEF InStop, Quiet, Between, Still, Same, Taken, Whole
  <2>4. QED
    BY <2>2, <2>3
<1>10. QED
  BY <1>2, <1>5, <1>6, <1>7, <1>8, <1>9, StopOps DEF Moves

------------------------------------------------------------------------------
(* Master and slave stay in step: the slave ends a stretch                 *)

\* A step that keeps the lines and the master keeps them in step.
LEMMA StillInStep ==
  ASSUME InStep, Still, UNCHANGED <<sda, control, heard, waited>>
  PROVE  InStep'
<1>1. /\ UNCHANGED <<sda, at, clock, todo, in, late, req, msg, count, buf, ret, heard, waited>> /\ SCL' = SCL
      /\ slave'.mode = slave.mode /\ slave'.n = slave.n /\ slave'.byte = slave.byte /\ slave'.sda = slave.sda
      /\ slave'.refused = slave.refused /\ slave'.written = slave.written /\ slave'.served = slave.served
  BY DEF control, Still, Same
<1>2. /\ Sent' = Sent /\ (Taken(Before) => Taken(Before)') /\ (Taken(Whole) => Taken(Whole)')
      /\ (Taken(count) => Taken(count)') /\ (Taken(count + 1) => Taken(count + 1)')
  BY <1>1 DEF Sent, Addr, Taken, Before, Whole
<1>3. /\ InByte => InByte'
      /\ Quiet => Quiet'
      /\ Takes => Takes'
      /\ Serves => Serves'
      /\ Refused => Refused'
  BY <1>1, <1>2 DEF InByte, Quiet, Between, Takes, Serves, Refused
<1>4. (InStart => InStart') /\ (InRetry => InRetry')
  BY <1>1, <1>2 DEF InStart, InRetry, Between, Opened
<1>5. (InAddress => InAddress') /\ (InSend => InSend')
  BY <1>1, <1>2, <1>3 DEF InAddress, InSend
<1>6. (InRecv => InRecv') /\ (InReply => InReply') /\ (InStop => InStop')
  BY <1>1, <1>2, <1>3 DEF InRecv, InReply, InStop
<1>7. QED
  BY <1>1, <1>4, <1>5, <1>6 DEF InStep

\* In a clock of a byte the slave can only hold the line up at the wait.
LEMMA ByteWaits ==
  ASSUME MasterOK, at \in {"address", "send", "recv", "reply"}, ~late, SCL = 0, scl = 1
  PROVE  /\ todo # <<>> /\ todo # <<"SCL_L">> /\ todo \in BitLeft \cup AckLeft
         /\ at \in {"address", "send"} => clock \in 1 .. Bits + 1
         /\ at = "recv" => clock \in 1 .. Bits
<1>1. todo # <<>> /\ Head(todo) \notin {"SDA_H", "SDA_L", "SCL_H", "GET_SDA", "SCL_L"}
  BY DEF MasterOK, ClockOK
<1>2. todo # <<"SCL_L">> /\ todo # i2c_waitack
  BY <1>1 DEF i2c_waitack
<1>3. CASE at \in {"address", "send"}
  <2>1. SendOK
    BY <1>3 DEF MasterOK
  <2>2. clock \in 1 .. Bits + 1
    BY <1>1, <2>1 DEF SendOK
  <2>3. WriteBit(Sent[clock]) # todo
    BY <1>1 DEF WriteBit
  <2>4. QED
    BY <1>1, <1>2, <1>3, <2>1, <2>2, <2>3 DEF SendOK
<1>4. CASE at = "recv"
  <2>1. RecvOK
    BY <1>4 DEF MasterOK
  <2>2. QED
    BY <1>1, <1>2, <1>4, <2>1 DEF RecvOK
<1>5. CASE at = "reply"
  <2>1. ReplyOK /\ todo # <<"SDA_L", "SCL_H", "wait", "SCL_L">>
    BY <1>1, <1>5 DEF MasterOK
  <2>2. QED
    BY <1>1, <1>2, <1>5, <2>1 DEF ReplyOK
<1>6. QED
  BY <1>3, <1>4, <1>5

\* The slave ends a stretch, and the clock may rise.
LEMMA ReleaseMoves ==
  ASSUME SlaveShape, MasterOK, InStep, Release
  PROVE  InStep'
<1>1. UNCHANGED <<sda, control, heard, waited>> /\ (Still \/ (Rose /\ scl = 1))
  BY Released DEF Release
<1>2. UNCHANGED <<sda, at, clock, todo, in, late, req, msg, count, buf, ret, heard, waited>>
  BY <1>1 DEF control
<1>3. CASE Still
  BY <1>1, <1>3, StillInStep
<1>4. CASE Rose /\ scl = 1 /\ heard
  <2>1. SCL = 0 /\ SCL' = 1
    BY <1>4 DEF Rose
  <2>2. CASE at = "start"
    <3>1. todo \notin {<<"SCL_L">>, <<>>} /\ InStart
      BY <1>4, <2>1, <2>2 DEF MasterOK, StartOK, InStep, InStart
    <3>2. InStart'
      <4>1. SUFFICES ASSUME msg = 2
                     PROVE  Taken(Whole)' /\ slave'.served = <<>>
                            /\ (slave'.mode \in {"off", "address"} \/ Between')
        BY <1>2, <3>1 DEF InStart
      <4>2. QED
        BY <1>2, <1>4, <3>1, <4>1, RoseBetween DEF InStart, Taken, Whole
    <3>3. QED
      BY <1>2, <2>2, <3>2 DEF InStep
  <2>3. CASE at = "retry"
    BY <1>2, <1>4, <2>3, RoseBetween DEF InStep, InRetry, Taken, Whole
  <2>4. CASE at \in {"address", "send", "recv", "reply"} /\ ~late
    <3>1. /\ todo # <<>> /\ todo # <<"SCL_L">> /\ todo \in BitLeft \cup AckLeft
          /\ at \in {"address", "send"} => clock \in 1 .. Bits + 1
          /\ at = "recv" => clock \in 1 .. Bits
      BY <1>4, <2>1, <2>4, ByteWaits
    <3>2. CASE at \in {"address", "send"}
      <4>1. clock \in 1 .. Bits + 1 /\ todo \in BitLeft \cup AckLeft /\ todo # <<"SCL_L">>
        BY <3>1, <3>2
      <4>2. InByte /\ slave.mode = IF at = "address" THEN "address" ELSE "write"
        BY <1>4, <2>4, <3>2, <4>1 DEF InStep, InAddress, InSend
      <4>3. Sent' = Sent /\ slave.n = clock - 1
        BY <1>2, <2>1, <4>1, <4>2 DEF Sent, Addr, InByte
      <4>4. /\ InByte' /\ slave'.mode = slave.mode /\ slave'.served = slave.served
            /\ slave'.n = clock /\ slave'.sda = slave.sda
            /\ slave'.written = IF clock = Bits + 1 /\ slave.mode = "write" /\ slave.sda = 0
                                THEN Log(slave.written, slave.byte) ELSE slave.written
        BY <1>2, <1>4, <2>4, <3>2, <4>1, <4>2, <4>3, RiseInByte
      <4>5. CASE at = "address"
        <5>1. Taken(Before) /\ slave.served = <<>>
          BY <1>4, <2>4, <4>5 DEF InStep, InAddress
        <5>2. slave'.written = slave.written
          BY <4>2, <4>4, <4>5
        <5>3. Taken(Before)'
          BY <1>2, <5>1, <5>2 DEF Taken, Before, Whole
        <5>4. InAddress'
          BY <1>2, <2>4, <4>1, <4>2, <4>4, <4>5, <5>1, <5>3 DEF InAddress
        <5>5. QED
          BY <1>2, <4>5, <5>4 DEF InStep
      <4>6. CASE at = "send"
        <5>1. /\ Taken(IF slave.n = Bits + 1 /\ slave.sda = 0 THEN count + 1 ELSE count)
              /\ slave.served = <<>>
          BY <1>4, <2>4, <4>1, <4>6 DEF InStep, InSend
        <5>2. Taken(IF slave.n = Bits + 1 /\ slave.sda = 0 THEN count + 1 ELSE count)'
          BY <1>2, <4>1, <4>2, <4>3, <4>4, <4>6, <5>1, TakenInByte
        <5>3. InSend'
          BY <1>2, <2>4, <4>1, <4>2, <4>4, <4>6, <5>1, <5>2 DEF InSend
        <5>4. QED
          BY <1>2, <4>6, <5>3 DEF InStep
      <4>7. QED
        BY <3>2, <4>5, <4>6
    <3>3. CASE at = "recv"
      <4>1. clock \in 1 .. Bits
        BY <3>1, <3>3
      <4>2. InRecv /\ slave.mode = "read" /\ slave.n = clock - 1 /\ slave.n # Bits
        BY <1>4, <2>1, <2>4, <3>3, <4>1 DEF InStep, InRecv
      <4>3. /\ slave'.mode = "read" /\ slave'.n = clock /\ slave'.byte = slave.byte /\ slave'.sda = slave.sda
            /\ slave'.written = slave.written /\ slave'.served = slave.served
        BY <1>4, <4>1, <4>2 DEF Rose, Risen
      <4>4. InRecv'
        BY <1>2, <2>1, <2>4, <4>1, <4>2, <4>3 DEF InRecv, Taken, Whole
      <4>5. QED
        BY <1>2, <3>3, <4>4 DEF InStep
    <3>4. CASE at = "reply"
      BY <1>2, <1>4, <2>4, <3>1, <3>4, RoseInReply DEF InStep
    <3>5. QED
      BY <2>4, <3>2, <3>3, <3>4
  <2>5. CASE at = "address" /\ late
    BY <1>2, <1>4, <2>5, RoseBetween DEF InStep, InAddress, Taken, Whole
  <2>6. CASE at = "stop"
    <3>1. CASE ret = "ok" \/ ~waited
      BY <1>2, <1>4, <2>6, <3>1, RoseBetween DEF InStep, InStop, Quiet, Taken, Whole
    <3>2. CASE ~(ret = "ok" \/ ~waited)
      BY <1>2, <2>6, <3>2 DEF InStep, InStop, MasterOK
    <3>3. QED
      BY <3>1, <3>2
  <2>7. CASE late /\ at \in {"send", "recv", "reply"}
    BY <1>2, <2>7 DEF InStep, InSend, InRecv, InReply
  <2>8. QED
    BY <1>2, <2>2, <2>3, <2>4, <2>5, <2>6, <2>7 DEF InStep, MasterOK
<1>5. CASE ~heard
  BY <1>2, <1>5 DEF InStep
<1>6. QED
  BY <1>1, <1>3, <1>4, <1>5

------------------------------------------------------------------------------
(* Master and slave stay in step: what follows a routine                   *)

\* A routine that ended without a timeout went through all its clocks.
LEMMA EndedClock ==
  ASSUME MasterOK, at \in {"address", "send", "recv", "reply"}, todo = <<>>, ~late
  PROVE  /\ SCL = 0
         /\ at \in {"address", "send"} => clock = Bits + 2
         /\ at = "recv" => clock = Bits + 1 /\ Len(in) = Bits
<1>1. SCL = 0
  BY DEF MasterOK, ClockOK, SCL
<1>2. <<>> \notin {i2c_waitack} \cup AckLeft \cup BitLeft
  BY DEF i2c_waitack, AckLeft, BitLeft
<1>3. CASE at \in {"address", "send"}
  <2>1. SendOK /\ WriteBit(Sent[clock]) # <<>>
    BY <1>3 DEF MasterOK, WriteBit
  <2>2. QED
    BY <1>1, <1>2, <1>3, <2>1 DEF SendOK
<1>4. CASE at = "recv"
  <2>1. RecvOK
    BY <1>4 DEF MasterOK
  <2>2. QED
    BY <1>1, <1>2, <1>4, <2>1 DEF RecvOK
<1>5. QED
  BY <1>1, <1>3, <1>4

\* The first clock of a byte that is sent.
LEMMA FirstClock ==
  ASSUME SlaveShape, slave' = slave, SCL' = 0, clock' = 1, slave.n = 0, slave.sda = 1,
         slave.mode \in {"address", "write"}
  PROVE  InByte'
<1>1. Len(slave.byte) = 0
  BY DEF SlaveShape
<1>2. QED
  BY <1>1 DEF InByte

\* out: a transfer that failed without a timeout was refused.
LEMMA FailedStop ==
  ASSUME MasterOK, NEW routine, Ended(routine), Out("error"), heard => waited \/ Refused
  PROVE  InStep'
<1>1. /\ at' = "stop" /\ ret' = "error" /\ todo' # <<>> /\ UNCHANGED <<slave, heard, waited>>
  BY DEF Ended, Out, Run, i2c_stop
<1>2. heard' => InStop'
  BY <1>1 DEF InStop, Quiet, Refused
<1>3. QED
  BY <1>1, <1>2 DEF InStep

\* i2c_bit_xfer is called.
LEMMA TransferMoves ==
  ASSUME MasterOK, NEW r \in Request, Transfer(r)
  PROVE  InStep'
<1>1. at' = "start" /\ msg' = 1 /\ todo' = i2c_start /\ todo' \notin {<<"SCL_L">>, <<>>}
  BY DEF Transfer, Run, MasterOK, IdleOK, i2c_start
<1>2. QED
  BY <1>1 DEF InStep, InStart

\* The START was made, the slave listens to the address.
LEMMA SendAddressMoves ==
  ASSUME SlaveShape, MasterOK, InStep, SendAddress
  PROVE  InStep'
<1>1. /\ at = "start" /\ todo = <<>> /\ at' = "address" /\ clock' = 1 /\ late' = FALSE
      /\ UNCHANGED <<scl, slave, req, msg, heard>>
  BY DEF SendAddress, Ended, Run
<1>2. SCL = 0 /\ SCL' = 0
  BY <1>1 DEF MasterOK, StartOK, SCL
<1>3. SUFFICES ASSUME heard
               PROVE  InAddress'
  BY <1>1 DEF InStep
<1>4. Opened /\ Taken(Before) /\ slave.served = <<>>
  BY <1>1, <1>3 DEF InStep, InStart
<1>5. InByte'
  BY <1>1, <1>2, <1>4, FirstClock DEF Opened
<1>6. Taken(Before)'
  BY <1>1, <1>4 DEF Taken, Before, Whole
<1>7. QED
  BY <1>1, <1>4, <1>5, <1>6 DEF InAddress, Opened

\* The address was answered, refused or given up.
LEMMA AddressSentMoves ==
  ASSUME SlaveShape, MasterOK, InStep, AddressSent
  PROVE  InStep'
<1>1. /\ at = "address" /\ todo = <<>> /\ Ended("address") /\ UNCHANGED <<scl, slave, req, heard, waited>>
      /\ count = 0 /\ buf = <<>> /\ msg \in {1, 2} /\ (late => waited) /\ late \in BOOLEAN
  BY DEF AddressSent, Ended, MasterOK
<1>2. heard => InAddress
  BY <1>1 DEF InStep
<1>3. ~late => SCL = 0 /\ SCL' = 0 /\ clock = Bits + 2
  BY <1>1, EndedClock DEF SCL
<1>4. heard /\ ~late => /\ Taken(Before) /\ slave.served = <<>>
                        /\ in = <<0>> => IF msg = 1 THEN Takes ELSE Serves
                        /\ in # <<0>> => Refused
  BY <1>2, <1>3 DEF InAddress
<1>5. CASE Acked /\ Transmit(0) /\ UNCHANGED <<msg, count, tries, buf, ret>>
  <2>1. SUFFICES ASSUME heard
                 PROVE  InStep'
    BY <1>1 DEF InStep
  <2>2. ~late /\ in = <<0>> /\ Taken(Before) /\ slave.served = <<>> /\ SCL' = 0
    BY <1>3, <1>4, <1>5, <2>1 DEF Acked
  <2>3. CASE msg = 1
    <3>1. at' = "send" /\ clock' = 1 /\ late' = FALSE /\ Takes /\ count' = 0 /\ slave' = slave
      BY <1>1, <1>4, <1>5, <2>1, <2>2, <2>3 DEF Transmit, Run
    <3>2. InByte'
      BY <2>2, <3>1, FirstClock DEF Takes
    <3>3. Taken(IF slave.n = Bits + 1 /\ slave.sda = 0 THEN count + 1 ELSE count)'
      BY <1>1, <2>2, <2>3, <3>1 DEF Taken, Before, Takes
    <3>4. InSend'
      BY <2>2, <3>1, <3>2, <3>3 DEF InSend, Takes
    <3>5. QED
      BY <3>1, <3>4 DEF InStep
  <2>4. CASE msg = 2
    <3>1. /\ at' = "recv" /\ clock' = 1 /\ late' = FALSE /\ in' = <<>> /\ Serves
          /\ UNCHANGED <<req, slave, buf>>
      BY <1>1, <1>4, <1>5, <2>1, <2>2, <2>4 DEF Transmit, Run
    <3>2. Taken(Whole)' /\ slave'.served = buf'
      BY <1>1, <2>2, <2>4, <3>1 DEF Taken, Before, Whole
    <3>3. InRecv'
      BY <2>2, <3>1, <3>2 DEF InRecv, Serves
    <3>4. QED
      BY <3>1, <3>3 DEF InStep
  <2>5. QED
    BY <1>1, <2>3, <2>4
<1>6. CASE Run("retry", i2c_stop) /\ ~Acked /\ UNCHANGED <<msg, count, buf, ret>>
  <2>1. at' = "retry"
    BY <1>6 DEF Run
  <2>2. ASSUME heard, msg = 2
        PROVE  Taken(Whole) /\ slave.served = <<>> /\ slave.mode \in {"off", "address"}
    <3>1. CASE late
      BY <1>2, <2>2, <3>1 DEF InAddress
    <3>2. CASE ~late
      BY <1>4, <1>6, <2>2, <3>2 DEF Acked, Refused, Before
    <3>3. QED
      BY <1>1, <3>1, <3>2
  <2>3. heard' => InRetry'
    BY <1>1, <1>6, <2>2 DEF InRetry, Taken, Whole
  <2>4. QED
    BY <2>1, <2>3 DEF InStep
<1>7. CASE ~Acked /\ Out("error")
  BY <1>1, <1>4, <1>7, FailedStop DEF Acked
<1>8. QED
  BY <1>5, <1>6, <1>7 DEF AddressSent

\* The address is tried again.
LEMMA TryAgainMoves ==
  ASSUME InStep, TryAgain
  PROVE  InStep'
<1>1. /\ at = "retry" /\ at' = "start" /\ todo' = i2c_start /\ todo' \notin {<<"SCL_L">>, <<>>}
      /\ UNCHANGED <<slave, req, msg, heard>>
  BY DEF TryAgain, Ended, Run, i2c_start
<1>2. heard => InRetry
  BY <1>1 DEF InStep
<1>3. heard' => InStart'
  BY <1>1, <1>2 DEF InStart, InRetry, Taken, Whole
<1>4. QED
  BY <1>1, <1>3 DEF InStep

\* A byte was answered, refused or given up.
LEMMA ByteSentMoves ==
  ASSUME SlaveShape, MasterOK, InStep, ByteSent
  PROVE  InStep'
<1>1. /\ at = "send" /\ todo = <<>> /\ Ended("send") /\ UNCHANGED <<scl, slave, req, heard, waited>>
      /\ msg = 1 /\ count \in Nat /\ buf = <<>> /\ (late => waited) /\ late \in BOOLEAN
  BY DEF ByteSent, Ended, MasterOK
<1>2. ~late => SCL = 0 /\ SCL' = 0 /\ clock = Bits + 2
  BY <1>1, EndedClock DEF SCL
<1>3. heard /\ ~late => /\ slave.served = <<>>
                        /\ in = <<0>> => Takes /\ Taken(count + 1)
                        /\ in # <<0>> => Refused
  BY <1>1, <1>2 DEF InStep, InSend
<1>4. CASE ~Acked /\ Out("error")
  BY <1>1, <1>3, <1>4, FailedStop DEF Acked
<1>5. CASE Acked
  <2>1. SUFFICES ASSUME heard
                 PROVE  InStep'
    BY <1>1 DEF InStep
  <2>2. ~late /\ slave.served = <<>> /\ Takes /\ Taken(count + 1) /\ SCL' = 0
    BY <1>2, <1>3, <1>5, <2>1 DEF Acked
  <2>3. CASE Transmit(count + 1) /\ count' = count + 1
    <3>1. at' = "send" /\ clock' = 1 /\ late' = FALSE /\ slave' = slave
      BY <1>1, <2>3 DEF Transmit, Run
    <3>2. InByte'
      BY <2>2, <3>1, FirstClock DEF Takes
    <3>3. Taken(IF slave.n = Bits + 1 /\ slave.sda = 0 THEN count + 1 ELSE count)'
      BY <1>1, <2>2, <2>3, <3>1 DEF Taken, Takes
    <3>4. InSend'
      BY <2>2, <3>1, <3>2, <3>3 DEF InSend, Takes
    <3>5. QED
      BY <3>1, <3>4 DEF InStep
  <2>4. CASE count + 1 = Len(req.write) /\ Run("start", i2c_restart)
    <3>1. at' = "start" /\ todo' = i2c_restart /\ todo' \notin {<<"SCL_L">>, <<>>}
      BY <2>4 DEF Run, i2c_restart
    <3>2. Taken(Whole)' /\ slave'.served = <<>> /\ Between'
      BY <1>1, <2>2, <2>4 DEF Taken, Whole, Between, Takes
    <3>3. QED
      BY <3>1, <3>2 DEF InStep, InStart
  <2>5. CASE count + 1 = Len(req.write) /\ Out("ok")
    <3>1. at' = "stop" /\ todo' # <<>> /\ ret' = "ok" /\ buf' = <<>>
      BY <1>1, <2>5 DEF Out, Run, i2c_stop
    <3>2. Taken(Whole)' /\ slave'.served = buf' /\ Quiet'
      BY <1>1, <2>2, <2>5, <3>1 DEF Taken, Whole, Quiet, Between, Takes
    <3>3. QED
      BY <3>1, <3>2 DEF InStep, InStop
  <2>6. QED
    BY <1>5, <2>3, <2>4, <2>5 DEF ByteSent
<1>6. QED
  BY <1>4, <1>5 DEF ByteSent

\* A byte was received: what the master has is what the slave served.
LEMMA ByteReadMoves ==
  ASSUME SlaveShape, MasterOK, InStep, ByteRead
  PROVE  InStep'
<1>1. /\ at = "recv" /\ todo = <<>> /\ Ended("recv") /\ UNCHANGED <<scl, slave, req, heard, waited>>
      /\ (late => waited) /\ in \in Seq(Bit)
  BY DEF ByteRead, Ended, MasterOK
<1>2. CASE late /\ Out("error")
  BY <1>1, <1>2, FailedStop
<1>3. CASE ~late /\ Reply(count + 1) /\ buf' = Append(buf, in)
  <2>1. at' = "reply" /\ todo' # <<>> /\ SCL = 0 /\ SCL' = 0 /\ clock = Bits + 1 /\ Len(in) = Bits
    BY <1>1, <1>3, EndedClock DEF Reply, Run, i2c_send_ack_or_nack, SCL
  <2>2. SUFFICES ASSUME heard
                 PROVE  InReply'
    BY <1>1, <2>1 DEF InStep
  <2>3. /\ Taken(Whole) /\ slave.served = buf /\ slave.mode = "read" /\ slave.n = Bits /\ slave.sda = 1
        /\ \A i \in 1 .. Len(in) : in[i] = slave.byte[i]
    BY <1>1, <1>3, <2>1, <2>2 DEF InStep, InRecv
  <2>4. in = slave.byte
    <3>1. Len(slave.byte) = Bits /\ slave.byte \in Seq(Bit)
      BY <2>1, <2>3, LineTypes DEF SlaveShape
    <3>2. slave.byte \in [1 .. Bits -> Bit]
      BY <3>1
    <3>3. QED
      BY <1>1, <2>1, <2>3, <3>2, SameByte
  <2>5. QED
    BY <1>1, <1>3, <2>1, <2>3, <2>4 DEF InReply, Taken, Whole
<1>4. QED
  BY <1>2, <1>3 DEF ByteRead

\* The slave serves the next byte, or has let go.
LEMMA RepliedMoves ==
  ASSUME SlaveShape, MasterOK, InStep, Replied
  PROVE  InStep'
<1>1. /\ at = "reply" /\ todo = <<>> /\ Ended("reply") /\ UNCHANGED <<scl, slave, req, heard, waited>>
      /\ msg = 2 /\ (late => waited) /\ count \in Nat
  BY DEF Replied, Ended, MasterOK
<1>2. CASE late /\ Out("error")
  BY <1>1, <1>2, FailedStop
<1>3. CASE ~late
  <2>1. SUFFICES ASSUME heard
                 PROVE  InStep'
    BY <1>1 DEF InStep
  <2>2. /\ Taken(Whole) /\ slave.served = buf /\ SCL' = 0
        /\ IF count < req.read THEN Serves ELSE slave.mode = "off" /\ slave.sda = 1
    BY <1>1, <1>3, <2>1, EndedClock DEF InStep, InReply, SCL
  <2>3. CASE count < req.read /\ Transmit(count) /\ UNCHANGED <<msg, count, tries, buf, ret>>
    <3>1. at' = "recv" /\ clock' = 1 /\ late' = FALSE /\ in' = <<>> /\ Serves
      BY <1>1, <2>2, <2>3 DEF Transmit, Run
    <3>2. Taken(Whole)' /\ slave'.served = buf'
      BY <1>1, <2>2, <2>3 DEF Taken, Whole
    <3>3. Len(in') = 0 /\ clock' <= Bits /\ clock' # Bits + 1 /\ clock' - 1 + SCL' = 0
      BY <2>2, <3>1
    <3>4. slave'.mode = "read" /\ slave'.n = 0 /\ slave'.sda = slave'.byte[clock']
      BY <1>1, <3>1 DEF Serves
    <3>5. InRecv'
      <4>1. \A i \in 1 .. Len(in') : in'[i] = slave'.byte[i]
        BY <3>3
      <4>2. clock' <= Bits => slave'.n = clock' - 1 + SCL' /\ slave'.sda = slave'.byte[clock']
        BY <3>3, <3>4
      <4>3. QED
        BY <3>2, <3>3, <3>4, <4>1, <4>2 DEF InRecv
    <3>6. QED
      BY <3>1, <3>5 DEF InStep
  <2>4. CASE count = req.read /\ Out("ok")
    <3>1. at' = "stop" /\ todo' # <<>> /\ ret' = "ok" /\ buf' = buf /\ ~(count < req.read)
      BY <1>1, <2>4 DEF Out, Run, i2c_stop
    <3>2. Taken(Whole)' /\ slave'.served = buf' /\ Quiet'
      BY <1>1, <2>2, <3>1 DEF Taken, Whole, Quiet
    <3>3. QED
      BY <3>1, <3>2 DEF InStep, InStop
  <2>5. QED
    BY <1>3, <2>3, <2>4 DEF Replied
<1>4. QED
  BY <1>2, <1>3 DEF Replied

\* A wait timed out where the result is looked at.
LEMMA GiveUpMoves ==
  ASSUME MasterOK, InStep, WaitTimesOut, ~Unchecked
  PROVE  InStep'
<1>1. /\ todo # <<>> /\ ~late /\ waited' = TRUE /\ late' = TRUE /\ todo' = <<>>
      /\ UNCHANGED <<slave, at, req, msg, heard>>
  BY DEF WaitTimesOut, GiveUp, MasterOK
<1>2. at \notin {"start", "retry", "stop"}
  BY DEF Unchecked
<1>3. at = "address" /\ heard => InAddress'
  <2>1. SUFFICES ASSUME at = "address", heard, msg = 2
                 PROVE  Taken(Whole) /\ slave.served = <<>> /\ slave.mode = "address"
    BY <1>1 DEF InAddress, Taken, Whole
  <2>2. clock \in 1 .. Bits + 1
    BY <1>1, <2>1 DEF MasterOK, SendOK
  <2>3. QED
    BY <1>1, <2>1, <2>2 DEF InStep, InAddress, Before
<1>4. QED
  BY <1>1, <1>2, <1>3 DEF InStep, InSend, InRecv, InReply

\* InStep is inductive, with the two other parts.
LEMMA StepInStep ==
  ASSUME IInv, [Next]_vars
  PROVE  InStep'
<1> USE DEF IInv
<1>1. CASE LineOp \/ WaitHigh \/ GetSDA \/ (WaitTimesOut /\ Unchecked)
  <2>1. PICK op : Op(op) /\ Effect(op) /\ Moves(op)
    BY <1>1, OpMoves
  <2>2. at' = at
    BY <2>1 DEF Effect
  <2>3. QED
    BY <2>1, <2>2, StartMoves, RetryMoves, AddressMoves, SendMoves, RecvMoves, ReplyMoves, StopMoves DEF InStep
<1>2. CASE \E r \in Request : Transfer(r)
  BY <1>2, TransferMoves
<1>3. CASE Return
  <2>1. at' = "idle"
    BY <1>3 DEF Return, Run
  <2>2. QED
    BY <2>1 DEF InStep
<1>4. CASE UNCHANGED vars
  <2>1. Still /\ UNCHANGED <<sda, control, heard, waited>>
    BY <1>4, LineTypes DEF vars, Still, Same, SCL
  <2>2. QED
    BY <2>1, StillInStep
<1>5. QED
  BY <1>1, <1>2, <1>3, <1>4, SendAddressMoves, AddressSentMoves, TryAgainMoves, ByteSentMoves, ByteReadMoves,
     RepliedMoves, GiveUpMoves, ReleaseMoves DEF Next, Master

------------------------------------------------------------------------------
(* The theorems                                                            *)

\* Every state of a transfer satisfies the inductive invariant: whatever the
\* device of i2c_bit_xfer does, as long as it saw every START it is at the clock
\* the master is at, and has what the master sent of the byte.
THEOREM InductiveInvariant == Spec => []IInv
<1>1. Init => IInv
  <2> SUFFICES ASSUME Init
               PROVE  IInv
    OBVIOUS
  <2>1. <<>> \in Seq(Bit) /\ <<>> \in Seq(Seq(Bit)) /\ Len(<<>>) = 0
    OBVIOUS
  <2>2. slave \in Slave /\ SCL = 1 /\ slave.mode = "off" /\ slave.n = 0 /\ slave.byte = <<>>
    BY <2>1 DEF Init, NewSlave, Slave, SCL, Bit
  <2>3. SlaveShape
    BY <2>2 DEF Init, SlaveShape, Bit
  <2>4. MasterOK
    <3>1. in \in Seq(Bit) /\ Len(in) <= Bits /\ buf \in Seq(Seq(Bit)) /\ Len(buf) <= MaxLen
      BY <2>1 DEF Init
    <3>2. clock \in Nat /\ msg \in {1, 2} /\ count \in 0 .. MaxLen /\ tries \in 0 .. Retries /\ IdleOK
      BY DEF Init, IdleOK
    <3>3. QED
      BY <3>1, <3>2 DEF Init, MasterOK
  <2>5. InStep
    BY DEF Init, InStep
  <2>6. QED
    BY <2>3, <2>4, <2>5 DEF IInv
<1>2. IInv /\ [Next]_vars => IInv'
  BY StepShape, StepMasterOK, StepInStep DEF IInv
<1>3. QED
  BY <1>1, <1>2, PTL DEF Spec

\* The variables of i2c_bit_xfer, and the slave, hold what they may.
THEOREM TypeCorrect == Spec => []TypeOK
<1>1. IInv => TypeOK
  <2> SUFFICES ASSUME IInv
               PROVE  TypeOK
    OBVIOUS
  <2>1. Len(slave.byte) <= Bits
    <3>1. /\ slave.n \in 0 .. Bits + 1 /\ SCL \in Bit /\ slave.mode \in {"off", "address", "write", "read"}
          /\ slave.byte \in Seq(Bit)
      BY LineTypes DEF IInv
    <3>2. CASE slave.mode = "off"
      BY <3>2 DEF IInv, SlaveShape
    <3>3. CASE slave.mode \in {"address", "write"}
      BY <3>1, <3>3 DEF IInv, SlaveShape
    <3>4. CASE slave.mode = "read"
      BY <3>1, <3>4 DEF IInv, SlaveShape, Bit
    <3>5. QED
      BY <3>1, <3>2, <3>3, <3>4
  <2>2. QED
    BY <2>1, LineTypes DEF IInv, MasterOK, SlaveShape, TypeOK
<1>2. QED
  BY <1>1, InductiveInvariant, PTL

\* i2c_bit_xfer returns the number of messages only when each was delivered: the
\* device took the bytes of the first one, all and unchanged, and the buffer of
\* the second one holds the bytes it gave.
THEOREM Delivery == Spec => []SuccessIsDelivery
<1>1. IInv => SuccessIsDelivery
  <2> SUFFICES ASSUME IInv, Done, ret = "ok", heard
               PROVE  slave.written = req.write /\ buf = slave.served
    BY DEF SuccessIsDelivery
  <2>1. Taken(Whole) /\ slave.served = buf
    BY DEF IInv, InStep, InStop, Done
  <2>2. slave.written \in Seq(Seq(Bit)) /\ req.write \in Seq(Octet)
    BY LineTypes, RequestType DEF IInv, MasterOK, Done
  <2>3. slave.written = req.write
    <3>1. /\ Len(slave.written) = Len(req.write)
          /\ \A i \in 1 .. Len(slave.written) : slave.written[i] = req.write[i]
      BY <2>1 DEF Taken, Whole
    <3>2. DOMAIN slave.written = DOMAIN req.write /\ DOMAIN slave.written = 1 .. Len(slave.written)
      BY <2>2, <3>1
    <3>3. /\ slave.written = [i \in DOMAIN slave.written |-> slave.written[i]]
          /\ req.write = [i \in DOMAIN req.write |-> req.write[i]]
      BY <2>2
    <3>4. QED
      BY <3>1, <3>2, <3>3
  <2>4. QED
    BY <2>1, <2>3
<1>2. QED
  BY <1>1, InductiveInvariant, PTL

\* A transfer in which no SCL_H waited too long leaves the bus free at out, also
\* when a byte was refused: i2c_stop finds the lines it needs.
THEOREM GivenBack == Spec => []BusGivenBack
<1>1. IInv => BusGivenBack
  <2> SUFFICES ASSUME IInv, Done, heard, ~waited
               PROVE  SCL = 1 /\ SDA = 1 /\ slave.mode = "off"
    BY DEF BusGivenBack
  <2>1. SCL = 1 /\ sda = 1
    BY DEF IInv, MasterOK, Done
  <2>2. slave.mode = "off" /\ Quiet
    BY DEF IInv, InStep, InStop, Done
  <2>3. QED
    BY <2>1, <2>2 DEF SDA, Quiet
<1>2. QED
  BY <1>1, InductiveInvariant, PTL

\* i2c_bit_xfer returns an error only when the device refused a byte or held the
\* clock for longer than the timeout.
THEOREM Cause == Spec => []ErrorHasCause
<1>1. IInv => ErrorHasCause
  BY DEF IInv, InStep, InStop, Done, ErrorHasCause
<1>2. QED
  BY <1>1, InductiveInvariant, PTL
==============================================================================
