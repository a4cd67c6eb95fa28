----------------------------- MODULE I2cMaster -----------------------------
(***************************************************************************)
(* The I2C master driver (linux/drivers/i2c/busses/i2c-esp32s31.c): a      *)
(* transfer is cut into lists of at most NCMDS commands and FIFO bytes in  *)
(* each direction.  The controller runs a list, pauses the bus at END and  *)
(* raises an interrupt; the handler stores what was read and starts the    *)
(* next list.  The thread waits for the completion or for a timeout.       *)
(*                                                                         *)
(* A byte is named by what it is: <<"A", i>> the address of message i,     *)
(* <<"W", i, j>> byte j of write message i; the device answers reads with  *)
(* 1, 2, 3, ... over the whole transfer.  Addresses and values are         *)
(* abstracted to these names.                                              *)
(***************************************************************************)
EXTENDS Naturals, Sequences, SequencesExt, FiniteSets

CONSTANTS
    NCMDS,        \* I2C_NCMDS, the commands of a list (8)
    FIFO,         \* I2C_FIFO_SIZE, the bytes of each FIFO (32)
    Transfers,    \* the message sequences a client asks for first,
    Again,        \* and for its later transfers
    MaxXfers      \* bound: transfers in a behaviour

(* The first list takes a start, an address, a command of data and the     *)
(* END; the I2C core passes at least one message.                          *)
ASSUME I2cAssumption ==
    /\ NCMDS \in Nat /\ NCMDS >= 4 /\ FIFO \in Nat /\ FIFO >= 1
    /\ Transfers \cup Again \subseteq
          Seq([rd : BOOLEAN, len : Nat, ten : BOOLEAN]) \ {<<>>}

VARIABLES
    xpc,          \* the thread in esp32s31_i2c_xfer
    msgs,         \* i2c->msgs, as the client passed them
    cur,          \* [msg, pos, addressed]: the next byte to send or receive
    err,          \* i2c->err; "none" is 0
    done,         \* the completion
    rx,           \* i2c->rx[0..nrx-1]: where the read bytes of the list go
    buf,          \* the buffers of the messages
    ret,          \* what the last transfer returned
    xfers,        \* transfers started
    handler,      \* what the running handler decided to do; "none" runs none
    ena, raw,     \* INT_ENA (all of INT_MASK or 0) and the raw status bits
    bus,          \* ghost: what this transfer put on the bus
    cmds,         \* the command list, from the next command on
    hw,           \* the controller: "idle", "run", "held" at END, "stopped"
    txf, rxf      \* the FIFOs

driver == <<xpc, msgs, cur, err, done, rx, buf, ret, xfers, handler>>
device == <<bus, cmds, hw, txf, rxf>>
i2cVars == <<driver, ena, raw, device>>

-----------------------------------------------------------------------------
(* Filling a list.  b is a batch: the messages, the cursor, the commands,  *)
(* the bytes put into the TX FIFO, the number of bytes the list will read  *)
(* and the rx entries.                                                     *)

FirstByte == [msg |-> 1, pos |-> 0, addressed |-> FALSE]

Batch(ms, c) == [msgs |-> ms, cur |-> c, cmds |-> <<>>, tx |-> <<>>,
                 nread |-> 0, rx |-> <<>>, queued |-> TRUE]

Left(b) == b.msgs[b.cur.msg].len - b.cur.pos

Refuse(b) == [b EXCEPT !.queued = FALSE]

esp32s31_i2c_queue_addr(b) ==
    IF Len(b.cmds) + 3 > NCMDS - 1 \/ Len(b.tx) = FIFO THEN Refuse(b)
    ELSE [b EXCEPT !.cmds = @ \o << <<"RSTART">>, <<"WRITE", 1>> >>,
                   !.tx = Append(@, <<"A", b.cur.msg>>),
                   !.cur.addressed = TRUE]

\* Mutant: the last byte of a message is read with the others and acknowledged.
esp32s31_i2c_queue_read_AckLast(b) ==
    LET n == IF Left(b) < FIFO - b.nread THEN Left(b) ELSE FIFO - b.nread
    IN IF n = 0 \/ Len(b.cmds) + 1 > NCMDS - 1 THEN Refuse(b)
       ELSE [b EXCEPT !.rx = Append(@, [msg |-> b.cur.msg, n |-> n]),
                      !.cmds = Append(@, <<"READ", n, TRUE>>),
                      !.nread = @ + n,
                      !.cur.pos = @ + n]

(* <<"READ", n, ack>>: the last byte of a message gets no ACK and is a     *)
(* command of its own.                                                     *)
esp32s31_i2c_queue_read(b) ==
    LET n    == IF Left(b) < FIFO - b.nread THEN Left(b) ELSE FIFO - b.nread
        last == IF n = Left(b) THEN 1 ELSE 0
        list == (IF n - last > 0 THEN << <<"READ", n - last, TRUE>> >> ELSE <<>>)
                \o (IF last = 1 THEN << <<"READ", 1, FALSE>> >> ELSE <<>>)
    IN IF n = 0 \/ Len(b.cmds) + Len(list) > NCMDS - 1 THEN Refuse(b)
       ELSE [b EXCEPT !.rx = Append(@, [msg |-> b.cur.msg, n |-> n]),
                      !.cmds = @ \o list,
                      !.nread = @ + n,
                      !.cur.pos = @ + n]

esp32s31_i2c_queue_write(b) ==
    LET n == IF Left(b) < FIFO - Len(b.tx) THEN Left(b) ELSE FIFO - Len(b.tx)
    IN IF n = 0 \/ Len(b.cmds) + 1 > NCMDS - 1 THEN Refuse(b)
       ELSE [b EXCEPT !.cmds = Append(@, <<"WRITE", n>>),
                      !.tx = @ \o [j \in 1 .. n |-> <<"W", b.cur.msg, b.cur.pos + j>>],
                      !.cur.pos = @ + n]

esp32s31_i2c_next_msg(b) ==
    IF b.queued /\ Left(b) = 0
    THEN [b EXCEPT !.cur = [msg |-> @.msg + 1, pos |-> 0, addressed |-> FALSE]]
    ELSE b

QueueMore(b) ==
    IF ~b.queued \/ b.cur.msg > Len(b.msgs) THEN b
    ELSE esp32s31_i2c_next_msg(
             IF ~b.cur.addressed THEN esp32s31_i2c_queue_addr(b)
             ELSE IF b.msgs[b.cur.msg].rd THEN esp32s31_i2c_queue_read(b)
             ELSE esp32s31_i2c_queue_write(b))

(* Each turn of the loop adds a command or is the last one.                *)
esp32s31_i2c_fill(b) ==
    LET turn[k \in 0 .. NCMDS] == IF k = 0 THEN b ELSE QueueMore(turn[k - 1])
        f == turn[NCMDS]
    IN [f EXCEPT !.cmds = Append(@, IF f.cur.msg > Len(f.msgs) THEN <<"STOP">>
                                                             ELSE <<"END">>)]

(* The bytes of the RX FIFO go to the buffers in the order of rx.  A byte  *)
(* read from an empty FIFO is 0.                                           *)
Drain(d, e) ==
    LET got == [j \in 1 .. e.n |-> IF j <= Len(d.fifo) THEN d.fifo[j] ELSE 0]
    IN [fifo |-> SubSeq(d.fifo, e.n + 1, Len(d.fifo)),
        buf  |-> [d.buf EXCEPT ![e.msg] = @ \o got]]

esp32s31_i2c_drain(entries, fifo, b) ==
    LET d[k \in 0 .. Len(entries)] ==
          IF k = 0 THEN [fifo |-> fifo, buf |-> b] ELSE Drain(d[k - 1], entries[k])
    IN d[Len(entries)].buf

-----------------------------------------------------------------------------
(* The thread: esp32s31_i2c_xfer.                                          *)

I2cInit ==
    /\ xpc = "idle" /\ msgs = <<>> /\ ret = "none" /\ xfers = 0
    /\ cur = FirstByte
    /\ err = "none" /\ done = FALSE /\ rx = <<>> /\ buf = <<>>
    /\ handler = "none" /\ ena = FALSE /\ raw = {}
    /\ bus = <<>> /\ cmds = <<>> /\ hw = "idle" /\ txf = <<>> /\ rxf = <<>>

XferRefused(ms) ==
    /\ xpc = "idle" /\ xfers < MaxXfers
    /\ \E i \in DOMAIN ms : ms[i].ten
    /\ ret' = "EOPNOTSUPP" /\ xfers' = xfers + 1
    /\ UNCHANGED <<xpc, msgs, cur, err, done, rx, buf, handler, ena, raw, device>>

(* The first list is filled and started.  No interrupt is enabled before   *)
(* the last two writes, so the whole of it is one step.                    *)
XferStart(ms) ==
    /\ xpc = "idle" /\ xfers < MaxXfers
    /\ \A i \in DOMAIN ms : ~ms[i].ten
    /\ LET list == esp32s31_i2c_fill(Batch(ms, FirstByte))
       IN /\ cur' = list.cur /\ rx' = list.rx
          /\ cmds' = list.cmds /\ txf' = list.tx /\ rxf' = <<>>
    /\ xpc' = "wait" /\ xfers' = xfers + 1
    /\ msgs' = ms /\ buf' = [i \in DOMAIN ms |-> <<>>]
    /\ err' = "none" /\ done' = FALSE
    /\ raw' = {} /\ ena' = TRUE
    /\ bus' = <<>> /\ hw' = "run"
    /\ UNCHANGED <<ret, handler>>

WaitDone ==
    /\ xpc = "wait" /\ done
    /\ xpc' = "clean"
    /\ UNCHANGED <<msgs, cur, err, done, rx, buf, ret, xfers, handler, ena, raw, device>>

WaitTimeout ==
    /\ xpc = "wait" /\ ~done
    /\ xpc' = "sync" /\ ena' = FALSE
    /\ UNCHANGED <<msgs, cur, err, done, rx, buf, ret, xfers, handler, raw, device>>

\* Mutant: the thread does not wait for a handler that runs.
SynchronizeIrq_Missing ==
    /\ xpc = "sync"
    /\ xpc' = "clean" /\ err' = "ETIMEDOUT"
    /\ UNCHANGED <<msgs, cur, done, rx, buf, ret, xfers, handler, ena, raw, device>>

SynchronizeIrq ==
    /\ xpc = "sync" /\ handler = "none"
    /\ xpc' = "clean" /\ err' = "ETIMEDOUT"
    /\ UNCHANGED <<msgs, cur, done, rx, buf, ret, xfers, handler, ena, raw, device>>

(* A NACK needs a reset of the state machine, another error of the whole   *)
(* controller (esp32s31_i2c_init with the nine pulses, whose failure is    *)
(* only reported).  Then the transfer returns.                             *)
XferReturn ==
    /\ xpc = "clean"
    /\ xpc' = "idle"
    /\ ret' = IF err = "none" THEN "num" ELSE err
    /\ IF err \in {"none", "ENXIO"}
       THEN UNCHANGED <<ena, raw, cmds, txf, rxf>>
       ELSE /\ ena' = FALSE /\ raw' = {} /\ cmds' = <<>>
            /\ txf' = <<>> /\ rxf' = <<>>
    /\ hw' = IF err = "none" THEN hw ELSE "idle"
    /\ UNCHANGED <<msgs, cur, err, done, rx, buf, xfers, handler, bus>>

-----------------------------------------------------------------------------
(* The interrupt handler: it reads and clears the status and decides what  *)
(* to do; then it works on the messages, while the thread can time out.    *)

Status(st, e) ==
    IF "NACK" \in st THEN "ENXIO"
    ELSE IF "ARB_LOST" \in st THEN "EAGAIN"
    ELSE IF "TIME_OUT" \in st THEN "ETIMEDOUT" ELSE e

IrqEnter ==
    /\ handler = "none" /\ ena /\ raw # {}
    /\ err' = Status(raw, err)
    /\ handler' = IF err' # "none" THEN "fail"
                  ELSE IF "END_DETECT" \in raw THEN "refill" ELSE "complete"
    /\ raw' = {}
    /\ UNCHANGED <<xpc, msgs, cur, done, rx, buf, ret, xfers, ena, device>>

NextList ==
    LET list == esp32s31_i2c_fill(Batch(msgs, cur))
    IN /\ buf' = esp32s31_i2c_drain(rx, rxf, buf)
       /\ rxf' = <<>>
       /\ cur' = list.cur /\ rx' = list.rx
       /\ cmds' = list.cmds /\ txf' = txf \o list.tx
       /\ hw' = "run"

IrqNextList ==
    /\ handler = "refill"
    /\ NextList
    /\ handler' = "none"
    /\ UNCHANGED <<xpc, msgs, err, done, ret, xfers, ena, raw, bus>>

IrqComplete ==
    /\ handler \in {"complete", "fail"}
    /\ IF handler = "complete"
       THEN buf' = esp32s31_i2c_drain(rx, rxf, buf) /\ rxf' = <<>> /\ rx' = <<>>
       ELSE UNCHANGED <<buf, rxf, rx>>
    /\ ena' = FALSE /\ done' = TRUE /\ handler' = "none"
    /\ UNCHANGED <<xpc, msgs, cur, err, ret, xfers, raw, bus, cmds, hw, txf>>

-----------------------------------------------------------------------------
(* The controller and the device on the bus (external).                    *)

Bytes(n) == SubSeq(txf, 1, n)
ReadSoFar == Cardinality({i \in DOMAIN bus : bus[i][1] = "R"})

Log(c) ==
    CASE c[1] = "RSTART" -> << <<"S">> >>
      [] c[1] = "WRITE"  -> Bytes(c[2])
      [] c[1] = "READ"   -> [j \in 1 .. c[2] |-> <<"R", ReadSoFar + j, c[3]>>]
      [] c[1] = "STOP"   -> << <<"P">> >>
      [] OTHER           -> <<>>

RunCommand ==
    /\ hw = "run" /\ cmds # <<>>
    /\ LET c == Head(cmds)
       IN /\ bus' = bus \o Log(c)
          /\ txf' = IF c[1] = "WRITE" THEN SubSeq(txf, c[2] + 1, Len(txf)) ELSE txf
          /\ rxf' = IF c[1] = "READ"
                    THEN rxf \o [j \in 1 .. c[2] |-> ReadSoFar + j] ELSE rxf
          /\ raw' = raw \cup (CASE c[1] = "END"  -> {"END_DETECT"}
                               [] c[1] = "STOP" -> {"TRANS_COMPLETE"}
                               [] OTHER -> {})
          /\ hw' = CASE c[1] = "END" -> "held" [] c[1] = "STOP" -> "idle"
                     [] OTHER -> "run"
    /\ cmds' = Tail(cmds)
    /\ UNCHANGED <<driver, ena>>

(* The device does not acknowledge byte k of a WRITE: the list stops.      *)
Nack ==
    /\ hw = "run" /\ cmds # <<>> /\ Head(cmds)[1] = "WRITE"
    /\ \E k \in 1 .. Head(cmds)[2] :
          /\ bus' = bus \o Bytes(k)
          /\ txf' = SubSeq(txf, k + 1, Len(txf))
    /\ raw' = raw \cup {"NACK"} /\ hw' = "stopped"
    /\ UNCHANGED <<driver, ena, cmds, rxf>>

(* SCL stays at one level for too long, while a list runs or is held at an *)
(* END, or another master wins the bus.                                    *)
BusFault ==
    /\ hw \in {"run", "held"}
    /\ \E bit \in {"ARB_LOST", "TIME_OUT"} : raw' = raw \cup {bit}
    /\ hw' = "stopped"
    /\ UNCHANGED <<driver, ena, bus, cmds, txf, rxf>>

I2cNext ==
    \/ \E ms \in IF xfers = 0 THEN Transfers ELSE Again : XferRefused(ms) \/ XferStart(ms)
    \/ WaitDone \/ WaitTimeout \/ SynchronizeIrq \/ XferReturn
    \/ IrqEnter \/ IrqNextList \/ IrqComplete
    \/ RunCommand \/ Nack \/ BusFault

-----------------------------------------------------------------------------
(* What the bus should carry for the messages ms, and what their buffers   *)
(* should hold: the reference the lists are compared with.                 *)

ReadsTo(ms) ==
    LET r[i \in 0 .. Len(ms)] ==
          IF i = 0 THEN 0 ELSE r[i - 1] + (IF ms[i].rd THEN ms[i].len ELSE 0)
    IN r

Segment(ms, i) ==
    << <<"S">>, <<"A", i>> >> \o
    [j \in 1 .. ms[i].len |-> IF ms[i].rd
                              THEN <<"R", ReadsTo(ms)[i - 1] + j, j < ms[i].len>>
                              ELSE <<"W", i, j>>]

TrafficTo(ms) ==
    LET t[i \in 0 .. Len(ms)] == IF i = 0 THEN <<>> ELSE t[i - 1] \o Segment(ms, i)
    IN t

Traffic(ms) == TrafficTo(ms)[Len(ms)] \o << <<"P">> >>

(* Every list the driver starts fits the controller: at most NCMDS         *)
(* commands with the END or STOP, FIFO bytes to send and to receive, an rx *)
(* entry for at most each command; and the first list is not an END alone, *)
(* with which the handler would restart the bus for ever.                  *)
ListsFit ==
    /\ Len(cmds) <= NCMDS /\ Len(rx) <= NCMDS
    /\ Len(txf) <= FIFO /\ Len(rxf) <= FIFO
    /\ \A i \in DOMAIN cmds : cmds[i][1] \in {"END", "STOP"} <=> i = Len(cmds)
    /\ xpc # "idle" => cur # FirstByte

(* The driver cuts a transfer into lists at every FIFO and list boundary,  *)
(* yet the bus carries exactly the messages: each start and address once,  *)
(* every byte in order, ACK on all read bytes but the last.  A transfer    *)
(* that reports success put all of it on the bus and stored the bytes the  *)
(* device sent for each read message in that message's buffer,             *)
(* and every list fits the controller (esp32s31_i2c_fill,                  *)
(* esp32s31_i2c_drain, the END_DETECT path).                               *)
BusCarriesMessages ==
    /\ ListsFit
    /\ xpc # "idle" => IsPrefix(bus, Traffic(msgs))
    /\ xpc = "idle" /\ ret = "num" =>
         /\ bus = Traffic(msgs)
         /\ \A i \in DOMAIN msgs : msgs[i].rd =>
               buf[i] = [j \in 1 .. msgs[i].len |-> ReadsTo(msgs)[i - 1] + j]

(* No handler touches the messages of a transfer after esp32s31_i2c_xfer   *)
(* returned them to the client, a late END or completion included; a       *)
(* timeout waits for a handler that already runs.                          *)
NoUseAfterReturn == [][xpc = "idle" => buf' = buf \/ xpc' = "wait"]_i2cVars
=============================================================================
