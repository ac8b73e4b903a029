------------------------------ MODULE SoftI2C ------------------------------
(***************************************************************************)
(* An I2C transfer made with two pins: i2c_bit_xfer of dev_i2c_bit_ops.c   *)
(* on the open-drain pins of drv_soft_i2c.c, for the two forms gt9147.c    *)
(* uses: one message that writes, or one that writes and one that reads.   *)
(* The master's routines are lists of the primitive operations it does on  *)
(* the lines, one step each, clock by clock of a byte.  The slave is any   *)
(* device that follows the protocol: it answers the edges it sees, refuses *)
(* any byte it likes and stretches any low period of the clock for any     *)
(* time.                                                                   *)
(***************************************************************************)
EXTENDS Integers, Sequences

CONSTANTS
  Bits,      \* bits in a byte: 8
  Retries,   \* bus->retries
  MaxLen     \* bound: bytes in a message

ASSUME BitsAssumption    == Bits \in Nat /\ Bits >= 2
ASSUME RetriesAssumption == Retries \in Nat /\ MaxLen \in Nat \ {0}

Bit   == {0, 1}
Octet == [1 .. Bits -> Bit]
\* Bound: the first two bits of the bytes written differ.
Payload == {o \in Octet : o[1] # o[2]}
Data    == UNION {[1 .. n -> Payload] : n \in 1 .. MaxLen}
NoRequest == [write |-> <<>>, read |-> 0]

\* A request: the bytes of the first message, the length of the second one,
\* 0 if there is none; only one of them is as long as MaxLen allows.
Request == {r \in [write : Data, read : 0 .. MaxLen] : Len(r.write) + r.read <= MaxLen + 1}

VARIABLES
  scl, sda,   \* what the master does to each line: 1 releases it, 0 pulls it
  slave,      \* the device, see NewSlave
  at,         \* the routine of the master
  clock,      \* the clock it is at, from 1 on
  todo,       \* the operations left of that clock
  in,         \* what GET_SDA returned in it
  late,       \* whether it returned -RT_ETIMEOUT
  req, msg, count, tries,   \* the request, message, bytes done in it, tries of its address
  buf,        \* the bytes read
  ret,        \* what i2c_bit_xfer returns
  heard,      \* history: the slave saw every START of this transfer
  waited      \* history: a wait for the clock timed out in this transfer

control == <<at, clock, todo, in, late, req, msg, count, tries, buf, ret>>
vars    == <<scl, sda, slave, control, heard, waited>>

------------------------------------------------------------------------------
(* The slave and the lines                                                 *)

\* n counts the clocks of the byte, the acknowledge included; written and
\* served are what it took and gave in this transfer, MaxLen + 1 bytes at most.
NewSlave == [mode |-> "off", n |-> 0, byte |-> <<>>, sda |-> 1, hold |-> FALSE,
             refused |-> FALSE, written |-> <<>>, served |-> <<>>]

SCL == IF slave.hold THEN 0 ELSE scl
SDA == IF slave.sda = 0 THEN 0 ELSE sda

Log(bytes, b) == IF Len(bytes) > MaxLen THEN bytes ELSE Append(bytes, b)

\* The clock rises: the receiver takes the bit v on the line.
Rise(s, v) ==
  CASE s.mode \in {"address", "write"} /\ s.n < Bits ->
         [s EXCEPT !.byte = Append(@, v), !.n = @ + 1]
    [] s.mode = "write" /\ s.n = Bits /\ s.sda = 0 ->
         [s EXCEPT !.written = Log(@, s.byte), !.n = @ + 1]
    [] s.mode = "read" /\ s.n = Bits ->
         [s EXCEPT !.served = Log(@, s.byte), !.byte = <<v>>, !.n = @ + 1]
    [] s.mode = "off" -> s
    [] OTHER -> [s EXCEPT !.n = @ + 1]

\* The byte is over: its acknowledge decides what comes next.
NextByte(s) ==
  LET go == IF s.mode = "read" THEN s.byte = <<0>> ELSE s.sda = 0
      m  == IF s.mode # "address" THEN s.mode ELSE IF s.byte[Bits] = 1 THEN "read" ELSE "write"
  IN  [s EXCEPT !.mode = IF go THEN m ELSE "off", !.n = 0, !.byte = <<>>, !.sda = 1]

\* It puts the next bit of the byte it serves on the line.
Serve(s) == {[s EXCEPT !.byte = Append(@, v), !.sda = v] : v \in Bit}

\* The clock falls: the slave changes its side of the data line.
Fall(s) ==
  CASE s.mode = "read" /\ s.n \in 1 .. Bits - 1 -> Serve(s)
    [] s.mode \in {"address", "write"} /\ s.n = Bits ->
         {[s EXCEPT !.sda = 0], [s EXCEPT !.refused = TRUE]}
    [] s.mode = "read" /\ s.n = Bits -> {[s EXCEPT !.sda = 1]}
    [] s.mode # "off" /\ s.n = Bits + 1 ->
         IF NextByte(s).mode = "read" THEN Serve(NextByte(s)) ELSE {NextByte(s)}
    [] OTHER -> {s}

\* A START makes every slave listen to an address, a STOP makes it let go.
SeesStart(v) == SCL = 1 /\ SDA = 1 /\ v = 0
SeesStop(v)  == SCL = 1 /\ SDA = 0 /\ slave.sda = 1 /\ v = 1

\* The history of what it took and gave starts with the first message.
Listening ==
  LET s == [slave EXCEPT !.mode = "address", !.n = 0, !.byte = <<>>]
  IN  IF msg = 1 THEN [s EXCEPT !.written = <<>>, !.served = <<>>] ELSE s

SetSDA(v) ==
  /\ sda' = v /\ UNCHANGED scl
  /\ slave' = IF SeesStart(v) THEN Listening
              ELSE IF SeesStop(v) THEN [slave EXCEPT !.mode = "off", !.n = 0, !.byte = <<>>]
              ELSE slave

SetSCL(v) ==
  /\ scl' = v /\ UNCHANGED sda
  /\ IF v = SCL \/ slave.hold THEN UNCHANGED slave
     ELSE IF v = 1 THEN slave' = Rise(slave, SDA)
     ELSE \E s \in Fall(slave), h \in BOOLEAN :
            slave' = [s EXCEPT !.hold = h /\ s.mode # "off"]

\* The slave ends its stretch; the clock rises if the master has released it.
Release ==
  /\ slave.hold
  /\ slave' = LET s == [slave EXCEPT !.hold = FALSE] IN IF scl = 1 THEN Rise(s, SDA) ELSE s
  /\ UNCHANGED <<scl, sda, control, heard, waited>>

------------------------------------------------------------------------------
(* The master's routines, as operations on the lines                       *)

\* SCL_H releases the clock and waits for it.
i2c_start   == <<"SDA_L", "SCL_L">>
i2c_restart == <<"SDA_H", "SCL_H", "wait", "SDA_L", "SCL_L">>
i2c_stop    == <<"SDA_L", "SCL_H", "wait", "SDA_H">>
i2c_waitack == <<"SDA_H", "SCL_H", "wait", "GET_SDA", "SCL_L">>

WriteBit(v) == <<IF v = 1 THEN "SDA_H" ELSE "SDA_L", "SCL_H", "wait", "SCL_L">>
ReadBit     == <<"SCL_H", "wait", "GET_SDA", "SCL_L">>
ReadFirst   == <<"SDA_H", "SCL_H", "wait", "GET_SDA", "SCL_L">>

\* Mutant of i2c_writeb: the last bit is left out.
writeb_short(byte, k) ==
  IF k < Bits THEN WriteBit(byte[k]) ELSE IF k = Bits THEN i2c_waitack ELSE <<>>

\* The k-th clock of a byte sent: a bit, then the acknowledge.
i2c_writeb(byte, k) ==
  IF k <= Bits THEN WriteBit(byte[k]) ELSE IF k = Bits + 1 THEN i2c_waitack ELSE <<>>

\* Mutant of i2c_readb: it clocks one bit too many.
readb_long(k) ==
  IF k = 1 THEN ReadFirst ELSE IF k <= Bits + 1 THEN ReadBit ELSE <<>>

\* The k-th clock of a byte received.
i2c_readb(k) ==
  IF k = 1 THEN ReadFirst ELSE IF k <= Bits THEN ReadBit ELSE <<>>

\* A byte read is answered with an ACK unless it is the last one.
i2c_send_ack_or_nack(ack) ==
  IF ack THEN <<"SDA_L", "SCL_H", "wait", "SCL_L">> ELSE <<"SCL_H", "wait", "SCL_L">>

\* The address byte: the slave's address and the direction.
Addr(m) == [i \in 1 .. Bits |-> IF i = Bits /\ m = 1 THEN 0 ELSE 1]

\* The clocks of the routine the master is in: those of a byte, or one.
Clock(k) ==
  CASE at = "address" -> i2c_writeb(Addr(msg), k)
    [] at = "send"    -> i2c_writeb(req.write[count + 1], k)
    [] at = "recv"    -> i2c_readb(k)
    [] OTHER          -> <<>>

\* The results of SCL_H in i2c_start, i2c_restart and i2c_stop are ignored.
Unchecked == at \in {"start", "retry", "stop"}

Init ==
  /\ scl = 1 /\ sda = 1 /\ slave = NewSlave
  /\ at = "idle" /\ clock = 1 /\ todo = <<>> /\ in = <<>> /\ late = FALSE
  /\ req = NoRequest /\ msg = 1 /\ count = 0 /\ tries = 0 /\ buf = <<>> /\ ret = "ok"
  /\ heard = TRUE /\ waited = FALSE

\* The next operation is op; after the last one of a clock comes the next clock.
Op(op) ==
  /\ todo # <<>> /\ Head(todo) = op
  /\ IF Len(todo) = 1 THEN todo' = Clock(clock + 1) /\ clock' = clock + 1
                      ELSE todo' = Tail(todo) /\ UNCHANGED clock

\* One operation on a line.  heard notes whether the START got through.
LineOp ==
  /\ \/ Op("SDA_L") /\ SetSDA(0)
     \/ Op("SDA_H") /\ SetSDA(1)
     \/ Op("SCL_L") /\ SetSCL(0)
     \/ Op("SCL_H") /\ SetSCL(1)
  /\ heard' = IF at = "start" /\ todo = i2c_start
              THEN SeesStart(0) /\ (msg = 2 => heard) ELSE heard
  /\ UNCHANGED <<at, in, late, req, msg, count, tries, buf, ret, waited>>

\* SCL_H finds the line high, or gives up after ops->timeout ticks.
WaitHigh ==
  /\ Op("wait") /\ SCL = 1
  /\ UNCHANGED <<scl, sda, slave, at, in, late, req, msg, count, tries, buf, ret, heard, waited>>

\* Where its result is looked at, the routine is left.
GiveUp == todo' = <<>> /\ late' = TRUE /\ UNCHANGED clock

\* Mutant of WaitTimesOut: where the result is ignored there is no timeout.
WaitTimesOutChecked ==
  /\ todo # <<>> /\ Head(todo) = "wait" /\ SCL = 0 /\ ~Unchecked /\ GiveUp
  /\ waited' = TRUE
  /\ UNCHANGED <<scl, sda, slave, at, in, req, msg, count, tries, buf, ret, heard>>

WaitTimesOut ==
  /\ SCL = 0 /\ waited' = TRUE
  /\ \/ Unchecked /\ Op("wait") /\ UNCHANGED late
     \/ ~Unchecked /\ todo # <<>> /\ Head(todo) = "wait" /\ GiveUp
  /\ UNCHANGED <<scl, sda, slave, at, in, req, msg, count, tries, buf, ret, heard>>

GetSDA ==
  /\ Op("GET_SDA") /\ in' = Append(in, SDA)
  /\ UNCHANGED <<scl, sda, slave, at, late, req, msg, count, tries, buf, ret, heard, waited>>

------------------------------------------------------------------------------
(* i2c_bit_xfer: what follows a routine                                    *)

Ended(routine) == at = routine /\ todo = <<>> /\ UNCHANGED <<scl, sda, slave, req, heard, waited>>
Run(routine, ops) == at' = routine /\ clock' = 1 /\ todo' = ops /\ in' = <<>> /\ late' = FALSE

\* Mutant of Acked: a timeout is taken for an acknowledge.
AckedOrLate == late \/ in = <<0>>

Acked == ~late /\ in = <<0>>

Done == at = "stop" /\ todo = <<>>

\* out: the bus is stopped and the result returned.
Out(r) == Run("stop", i2c_stop) /\ ret' = r /\ UNCHANGED <<msg, count, tries, buf>>

\* Mutant of Reply: the last byte is acknowledged as well.
ReplyAlways(c) == Run("reply", i2c_send_ack_or_nack(TRUE))

Reply(c) == Run("reply", i2c_send_ack_or_nack(c < req.read))

\* The routine of the byte that follows the first c ones of the message.
Transmit(c) == IF msg = 1 THEN Run("send", i2c_writeb(req.write[c + 1], 1))
                          ELSE Run("recv", i2c_readb(1))

Transfer(r) ==
  /\ at = "idle"
  /\ Run("start", i2c_start)
  /\ req' = r
  /\ UNCHANGED <<scl, sda, slave, msg, count, tries, buf, ret, heard, waited>>

SendAddress ==
  /\ Ended("start")
  /\ Run("address", i2c_writeb(Addr(msg), 1))
  /\ UNCHANGED <<msg, count, tries, buf, ret>>

\* i2c_send_address tries again after a STOP and a START.
AddressSent ==
  /\ Ended("address")
  /\ \/ Acked /\ Transmit(0) /\ UNCHANGED <<msg, count, tries, buf, ret>>
     \/ /\ ~Acked /\ tries < Retries
        /\ Run("retry", i2c_stop)
        /\ tries' = tries + 1 /\ UNCHANGED <<msg, count, buf, ret>>
     \/ ~Acked /\ tries = Retries /\ Out("error")

TryAgain ==
  /\ Ended("retry")
  /\ Run("start", i2c_start)
  /\ UNCHANGED <<msg, count, tries, buf, ret>>

\* i2c_send_bytes: the next byte, the second message or the end.
ByteSent ==
  /\ Ended("send")
  /\ \/ /\ Acked /\ count + 1 < Len(req.write)
        /\ Transmit(count + 1) /\ count' = count + 1 /\ UNCHANGED <<msg, tries, buf, ret>>
     \/ /\ Acked /\ count + 1 = Len(req.write) /\ req.read > 0
        /\ Run("start", i2c_restart)
        /\ msg' = 2 /\ count' = 0 /\ tries' = 0 /\ UNCHANGED <<buf, ret>>
     \/ Acked /\ count + 1 = Len(req.write) /\ req.read = 0 /\ Out("ok")
     \/ ~Acked /\ Out("error")

\* i2c_recv_bytes: a byte is kept and answered.
ByteRead ==
  /\ Ended("recv")
  /\ \/ /\ ~late /\ Reply(count + 1)
        /\ buf' = Append(buf, in) /\ count' = count + 1 /\ UNCHANGED <<msg, tries, ret>>
     \/ late /\ Out("error")

Replied ==
  /\ Ended("reply")
  /\ \/ ~late /\ count < req.read /\ Transmit(count) /\ UNCHANGED <<msg, count, tries, buf, ret>>
     \/ ~late /\ count = req.read /\ Out("ok")
     \/ late /\ Out("error")

\* The call returns; its variables, and the history of it, are gone.
Return ==
  /\ Done
  /\ Run("idle", <<>>)
  /\ req' = NoRequest /\ msg' = 1 /\ count' = 0 /\ tries' = 0 /\ buf' = <<>> /\ ret' = "ok"
  /\ slave' = [slave EXCEPT !.refused = FALSE, !.written = <<>>, !.served = <<>>]
  /\ heard' = TRUE /\ waited' = FALSE
  /\ UNCHANGED <<scl, sda>>

Master == LineOp \/ WaitHigh \/ WaitTimesOut \/ GetSDA \/ SendAddress \/ AddressSent
          \/ TryAgain \/ ByteSent \/ ByteRead \/ Replied \/ Return
Next   == (\E r \in Request : Transfer(r)) \/ Master \/ Release

Spec == Init /\ [][Next]_vars

\* The thread that transfers goes on; the slave may stretch for ever.
FairSpec == Spec /\ WF_vars(Master)

------------------------------------------------------------------------------
(* Properties                                                              *)

\* The lines, the slave and the master hold what they may.
TypeOK ==
  /\ scl \in Bit /\ sda \in Bit
  /\ slave.mode \in {"off", "address", "write", "read"} /\ slave.n \in 0 .. Bits + 1
  /\ Len(slave.byte) <= Bits
  /\ at \in {"idle", "start", "address", "retry", "send", "recv", "reply", "stop"}
  /\ Len(in) <= Bits /\ msg \in {1, 2} /\ count \in 0 .. MaxLen /\ tries \in 0 .. Retries
  /\ Len(buf) <= MaxLen /\ ret \in {"ok", "error"}

\* A transfer reported as done was done: the slave took exactly the bytes of
\* the first message and the buffer holds exactly the bytes it gave, bit for
\* bit, whatever it refused or stretched.  The exception is a transfer of
\* which the slave missed a START, see the README: SCL_H may time out in
\* i2c_restart or i2c_stop and its result is not looked at.
SuccessIsDelivery ==
  (Done /\ ret = "ok" /\ heard) => slave.written = req.write /\ buf = slave.served

\* A transfer that never waited too long gives the bus back: both lines high
\* and no slave in the middle of a byte, also after a refused one.
BusGivenBack ==
  (Done /\ heard /\ ~waited) => SCL = 1 /\ SDA = 1 /\ slave.mode = "off"

\* A transfer is not reported as failed for nothing: the slave refused a byte
\* or held the clock too long.
ErrorHasCause ==
  (Done /\ ret = "error" /\ heard /\ ~waited) => slave.refused

\* Every transfer ends, with a slave that holds the clock for ever too.
TransferEnds == (at # "idle") ~> (at = "idle")
==============================================================================
