----------------------------- MODULE IrqProofs ------------------------------
(***************************************************************************)
(* Theorems about the interrupts of Linux: the timer and the lines of the  *)
(* CLIC (Interrupts), for every width of the halves of the timer and every *)
(* sequence of events; and the pins (Pins), for every set of pins, signals *)
(* cells and commands and any number of calls, edges and sets of the tool. *)
(***************************************************************************)
EXTENDS Interrupts, Pins, SequenceTheorems, TLAPS

(* What is left of esp32s31_timer_value after each of its reads.           *)
AfterHi == << <<"readlo", 0>>, <<"rereadhi", 0>>, <<"process", 0>> >>
AfterLo == << <<"rereadhi", 0>>, <<"process", 0>> >>
AfterRead == << <<"process", 0>> >>

Writes == {"ip7", "hi", "lo"} \X Nat

(* M-mode writes registers or reads the time, never both in one program.   *)
TypeOK ==
  /\ now \in Nat /\ got \in [from : Nat, hi : Nat, lo : Nat]
  /\ mprog \in Seq(Writes) \cup {esp32s31_timer_value, AfterHi, AfterLo, AfterRead}
  /\ ev \in Nat /\ want \in Nat

(* The halves that were read so far are those of times since the first     *)
(* read; the low half and the high half may be of different times until    *)
(* the high half has been read again.                                      *)
ReadInv ==
  /\ mprog \in {AfterHi, AfterLo, AfterRead} =>
       got.from <= now /\ got.hi = got.from \div Half
  /\ mprog = AfterLo => \E t \in got.from .. now : got.lo = t % Half
  /\ mprog = AfterRead => Value \in got.from .. now

(* OpenSBI waits for the event Linux waits for; one that it gave to Linux  *)
(* was due.                                                                *)
EventInv ==
  /\ ev # NoEvent /\ want # NoEvent => want = ev
  /\ 5 \in ip /\ want # NoEvent /\ ev = NoEvent => want <= now

-----------------------------------------------------------------------------
LEMMA QuotientRemainder ==
  ASSUME NEW a \in Nat, NEW n \in Nat, 0 < n
  PROVE  /\ a = n * (a \div n) + (a % n)
         /\ a \div n \in Nat /\ a % n \in 0 .. n - 1
OBVIOUS

LEMMA QuotientMonotone ==
  ASSUME NEW a \in Nat, NEW b \in Nat, NEW n \in Nat, 0 < n, a <= b
  PROVE  a \div n <= b \div n
<1> DEFINE p == a \div n
           q == b \div n
<1>1. p \in Nat /\ q \in Nat /\ n * p <= a /\ b < n * q + n
  BY QuotientRemainder
<1> HIDE DEF p, q
<1>2. ASSUME q + 1 <= p PROVE FALSE
  <2>1. n * (q + 1) <= n * p
    BY <1>1, <1>2
  <2>2. n * (q + 1) = n * q + n
    BY <1>1
  <2>3. n * q \in Nat /\ n * p \in Nat
    BY <1>1
  <2> QED BY <1>1, <2>1, <2>2, <2>3
<1>3. p <= q
  BY <1>1, <1>2
<1> QED BY <1>3 DEF p, q

(* Between two reads of the same high half, every time has that half.      *)
LEMMA WholeTime ==
  ASSUME NEW a \in Nat, NEW b \in Nat, NEW t \in a .. b, a \div Half = b \div Half
  PROVE  (a \div Half) * Half + (t % Half) = t
<1> t \in Nat /\ Half \in Nat /\ 0 < Half
  BY IrqAssumption
<1>1. t \div Half = a \div Half
  <2>1. a \div Half <= t \div Half /\ t \div Half <= b \div Half
    BY QuotientMonotone
  <2>2. a \div Half \in Nat /\ t \div Half \in Nat
    BY QuotientRemainder
  <2> QED BY <2>1, <2>2
<1>2. t = Half * (t \div Half) + (t % Half) /\ t \div Half \in Nat
  BY QuotientRemainder
<1>3. Half * (t \div Half) = (t \div Half) * Half
  BY <1>2
<1> QED BY <1>1, <1>2, <1>3

LEMMA TailOf2 == ASSUME NEW x, NEW y PROVE Tail(<<x, y>>) = <<y>>
<1>1. <<x, y>> \in Seq({x, y}) /\ Len(<<x, y>>) = 2
  OBVIOUS
<1>2. Tail(<<x, y>>) \in Seq({x, y}) /\ Len(Tail(<<x, y>>)) = 1 /\ Tail(<<x, y>>)[1] = y
  BY <1>1
<1>3. \A s \in Seq({x, y}) : Len(s) = 1 => s = <<s[1]>>
  OBVIOUS
<1> QED BY <1>2, <1>3

LEMMA TailOf3 == ASSUME NEW x, NEW y, NEW z PROVE Tail(<<x, y, z>>) = <<y, z>>
<1>1. <<x, y, z>> \in Seq({x, y, z}) /\ Len(<<x, y, z>>) = 3
  OBVIOUS
<1>2. /\ Tail(<<x, y, z>>) \in Seq({x, y, z}) /\ Len(Tail(<<x, y, z>>)) = 2
      /\ Tail(<<x, y, z>>)[1] = y /\ Tail(<<x, y, z>>)[2] = z
  BY <1>1
<1>3. \A s \in Seq({x, y, z}) : Len(s) = 2 => s = <<s[1], s[2]>>
  OBVIOUS
<1> QED BY <1>2, <1>3

LEMMA TailOf4 == ASSUME NEW x, NEW y, NEW z, NEW w PROVE Tail(<<x, y, z, w>>) = <<y, z, w>>
<1>1. <<x, y, z, w>> \in Seq({x, y, z, w}) /\ Len(<<x, y, z, w>>) = 4
  OBVIOUS
<1>2. /\ Tail(<<x, y, z, w>>) \in Seq({x, y, z, w}) /\ Len(Tail(<<x, y, z, w>>)) = 3
      /\ Tail(<<x, y, z, w>>)[1] = y /\ Tail(<<x, y, z, w>>)[2] = z
      /\ Tail(<<x, y, z, w>>)[3] = w
  BY <1>1
<1>3. \A s \in Seq({x, y, z, w}) : Len(s) = 3 => s = <<s[1], s[2], s[3]>>
  OBVIOUS
<1> QED BY <1>2, <1>3

(* The reads of esp32s31_timer_value, one after the other.                 *)
LEMMA Reading ==
  /\ Head(esp32s31_timer_value)[1] = "readhi" /\ Tail(esp32s31_timer_value) = AfterHi
  /\ Head(AfterHi)[1] = "readlo" /\ Tail(AfterHi) = AfterLo
  /\ Head(AfterLo)[1] = "rereadhi" /\ Tail(AfterLo) = AfterRead
  /\ Head(AfterRead)[1] = "process"
  /\ esp32s31_timer_value # <<>> /\ AfterHi # <<>> /\ AfterLo # <<>> /\ AfterRead # <<>>
<1>1. Tail(esp32s31_timer_value) = AfterHi
  BY TailOf4 DEF esp32s31_timer_value, AfterHi
<1>2. Tail(AfterHi) = AfterLo
  BY TailOf3 DEF AfterHi, AfterLo
<1>3. Tail(AfterLo) = AfterRead
  BY TailOf2 DEF AfterLo, AfterRead
<1>4. /\ Head(esp32s31_timer_value)[1] = "readhi" /\ Head(AfterHi)[1] = "readlo"
      /\ Head(AfterLo)[1] = "rereadhi" /\ Head(AfterRead)[1] = "process"
  BY DEF esp32s31_timer_value, AfterHi, AfterLo, AfterRead
<1>5. esp32s31_timer_value # <<>> /\ AfterHi # <<>> /\ AfterLo # <<>> /\ AfterRead # <<>>
  BY DEF esp32s31_timer_value, AfterHi, AfterLo, AfterRead
<1> QED BY <1>1, <1>2, <1>3, <1>4, <1>5

LEMMA Writing ==
  /\ \A s \in Seq(Writes) : s # <<>> => Head(s)[1] \in {"ip7", "hi", "lo"}
                                          /\ Tail(s) \in Seq(Writes)
  /\ <<>> \in Seq(Writes)
  /\ esp32s31_timer_event_stop \in Seq(Writes)
  /\ \A e \in Nat : esp32s31_timer_event_start(e) \in Seq(Writes)
<1>1. Half \in Nat /\ 0 < Half /\ AllOnes \in Nat /\ Half - 1 \in Nat
  BY IrqAssumption DEF AllOnes
<1>2. \A e \in Nat : e % Half \in Nat /\ e \div Half \in Nat
  BY <1>1, QuotientRemainder
<1>3. \A s \in Seq(Writes) : s # <<>> => Head(s)[1] \in {"ip7", "hi", "lo"}
                                          /\ Tail(s) \in Seq(Writes)
  <2>1. \A w \in Writes : w[1] \in {"ip7", "hi", "lo"}
    BY DEF Writes
  <2>2. \A s \in Seq(Writes) : s # <<>> => Head(s) \in Writes /\ Tail(s) \in Seq(Writes)
    OBVIOUS
  <2> QED BY <2>1, <2>2
<1>4. esp32s31_timer_event_stop \in Seq(Writes)
  BY <1>1 DEF esp32s31_timer_event_stop, Writes
<1>5. \A e \in Nat : esp32s31_timer_event_start(e) \in Seq(Writes)
  BY <1>1, <1>2 DEF esp32s31_timer_event_start, Writes
<1> QED BY <1>3, <1>4, <1>5

-----------------------------------------------------------------------------
Inv == TypeOK /\ ReadInv /\ EventInv

LEMMA InitInv == IrqInit => Inv
<1> SUFFICES ASSUME IrqInit PROVE Inv
  OBVIOUS
<1>1. mprog = <<>> /\ mprog \notin {AfterHi, AfterLo, AfterRead}
  BY Reading DEF IrqInit, MInit
<1>2. TypeOK
  BY <1>1, Writing, IrqAssumption DEF IrqInit, MInit, TypeOK, NoEvent
<1>3. ReadInv
  BY <1>1 DEF ReadInv
<1>4. EventInv
  BY DEF IrqInit, MInit, EventInv
<1> QED BY <1>2, <1>3, <1>4 DEF Inv

(* A new event: OpenSBI starts to write the comparator, input 5 is clear.  *)
LEMMA StepSetTimer ==
  ASSUME Inv, NEW e \in Nat, SetTimer(e)
  PROVE  Inv'
<1>1. mprog' \in Seq(Writes)
  BY Writing DEF SetTimer
<1>2. mprog' \notin {AfterHi, AfterLo, AfterRead}
  <2>1. ASSUME mprog' \in {AfterHi, AfterLo, AfterRead} PROVE FALSE
    BY <1>1, <2>1, Reading, Writing
  <2> QED BY <2>1
<1>3. TypeOK'
  BY <1>1 DEF SetTimer, Inv, TypeOK
<1>4. ReadInv'
  BY <1>2 DEF ReadInv
<1>5. EventInv'
  BY DEF SetTimer, EventInv
<1> QED BY <1>3, <1>4, <1>5 DEF Inv

LEMMA StepM == ASSUME Inv, MMode PROVE Inv'
<1> USE DEF linux, works, ext
<1>1. /\ now \in Nat /\ got \in [from : Nat, hi : Nat, lo : Nat]
      /\ Half \in Nat /\ 0 < Half /\ now \div Half \in Nat /\ now % Half \in Nat
  BY IrqAssumption, QuotientRemainder DEF Inv, TypeOK
<1>2. CASE MTrap
  <2>1. mprog' = esp32s31_timer_value
    BY <1>2 DEF MTrap
  <2>2. mprog' \notin {AfterHi, AfterLo, AfterRead}
    BY <2>1, Reading
  <2>3. TypeOK'
    BY <1>2, <2>1 DEF MTrap, Inv, TypeOK
  <2>4. ReadInv'
    BY <2>2 DEF ReadInv
  <2>5. EventInv'
    BY <1>2 DEF MTrap, Inv, EventInv
  <2> QED BY <2>3, <2>4, <2>5 DEF Inv
<1>3. CASE MWrite
  <2>1. mprog # <<>> /\ Head(mprog)[1] \in {"ip7", "hi", "lo"} /\ mprog' = Tail(mprog)
    BY <1>3 DEF MWrite
  <2>2. mprog \in Seq(Writes)
    BY <2>1, Reading DEF Inv, TypeOK
  <2>3. mprog' \in Seq(Writes)
    BY <2>1, <2>2, Writing
  <2>4. mprog' \notin {AfterHi, AfterLo, AfterRead}
    <3>1. ASSUME mprog' \in {AfterHi, AfterLo, AfterRead} PROVE FALSE
      BY <2>3, <3>1, Reading, Writing
    <3> QED BY <3>1
  <2>5. TypeOK'
    BY <1>3, <2>3 DEF MWrite, Inv, TypeOK
  <2>6. ReadInv'
    BY <2>4 DEF ReadInv
  <2>7. 5 \in ip' => 5 \in ip
    BY <1>3 DEF MWrite, Edge
  <2>8. EventInv'
    BY <1>3, <2>7 DEF MWrite, Inv, EventInv
  <2> QED BY <2>5, <2>6, <2>8 DEF Inv
<1>4. CASE MRead
  <2>1. /\ mprog # <<>> /\ Head(mprog)[1] \in {"readhi", "readlo", "rereadhi"}
        /\ UNCHANGED <<now, ev, want, ip>>
    BY <1>4 DEF MRead
  <2>2. mprog \in {esp32s31_timer_value, AfterHi, AfterLo}
    BY <2>1, Reading, Writing DEF Inv, TypeOK
  <2>3. EventInv'
    BY <2>1 DEF Inv, EventInv
  <2>4. AfterHi # AfterLo /\ AfterLo # AfterRead /\ AfterHi # AfterRead
          /\ esp32s31_timer_value \notin {AfterHi, AfterLo, AfterRead}
    BY Reading
  <2>5. CASE mprog = esp32s31_timer_value
    <3>1. mprog' = AfterHi /\ got' = [from |-> now, hi |-> now \div Half, lo |-> 0]
      BY <1>4, <2>5, Reading DEF MRead
    <3>2. TypeOK'
      BY <1>1, <2>1, <3>1 DEF Inv, TypeOK
    <3>3. ReadInv'
      BY <1>1, <2>1, <2>4, <3>1 DEF ReadInv
    <3> QED BY <2>3, <3>2, <3>3 DEF Inv
  <2>6. CASE mprog = AfterHi
    <3>1. mprog' = AfterLo /\ got' = [got EXCEPT !.lo = now % Half]
      BY <1>4, <2>6, Reading DEF MRead
    <3>2. /\ got'.from = got.from /\ got'.hi = got.hi /\ got'.lo = now % Half
          /\ got' \in [from : Nat, hi : Nat, lo : Nat]
      BY <1>1, <3>1
    <3>3. TypeOK'
      BY <1>1, <2>1, <3>1, <3>2 DEF Inv, TypeOK
    <3>4. now \in got.from .. now
      BY <1>1, <2>6 DEF Inv, ReadInv
    <3>5. ReadInv'
      BY <1>1, <2>1, <2>4, <2>6, <3>1, <3>2, <3>4 DEF Inv, ReadInv
    <3> QED BY <2>3, <3>3, <3>5 DEF Inv
  (* The same high half twice: the low half read between is of its time.   *)
  <2>7. CASE mprog = AfterLo
    <3>1. /\ got' = got
          /\ mprog' = IF got.hi # now \div Half THEN esp32s31_timer_value ELSE AfterRead
      BY <1>4, <2>7, Reading DEF MRead
    <3>2. TypeOK'
      BY <2>1, <3>1 DEF Inv, TypeOK
    <3>3. CASE got.hi # now \div Half
      BY <2>3, <2>4, <3>1, <3>2, <3>3 DEF Inv, ReadInv
    <3>4. CASE got.hi = now \div Half
      <4>1. PICK t \in got.from .. now : got.lo = t % Half
        BY <2>7 DEF Inv, ReadInv
      <4>2. got.from \in Nat /\ got.hi = got.from \div Half /\ got.from <= now
        BY <1>1, <2>7 DEF Inv, ReadInv
      <4>3. Value = t
        BY <1>1, <3>4, <4>1, <4>2, WholeTime DEF Value
      <4>4. Value' \in got'.from .. now'
        BY <2>1, <3>1, <4>1, <4>3 DEF Value
      <4>5. mprog' = AfterRead
        BY <3>1, <3>4
      <4>6. ReadInv'
        BY <2>1, <2>4, <3>1, <4>2, <4>4, <4>5 DEF ReadInv
      <4> QED BY <2>3, <3>2, <4>6 DEF Inv
    <3> QED BY <3>3, <3>4
  <2> QED BY <2>2, <2>5, <2>6, <2>7
<1>5. CASE MProcess
  <2>1. mprog # <<>> /\ Head(mprog)[1] = "process"
    BY <1>5 DEF MProcess
  <2>2. mprog = AfterRead
    BY <2>1, Reading, Writing DEF Inv, TypeOK
  <2>3. Value \in got.from .. now
    BY <2>2 DEF Inv, ReadInv
  <2>4. mprog' \in Seq(Writes)
    BY <1>5, Writing DEF MProcess, Inv, TypeOK
  <2>5. mprog' \notin {AfterHi, AfterLo, AfterRead}
    <3>1. ASSUME mprog' \in {AfterHi, AfterLo, AfterRead} PROVE FALSE
      BY <2>4, <3>1, Reading, Writing
    <3> QED BY <3>1
  <2>6. TypeOK'
    BY <1>5, <2>4, IrqAssumption DEF MProcess, Inv, TypeOK, NoEvent
  <2>7. ReadInv'
    BY <2>5 DEF ReadInv
  <2>8. EventInv'
    <3>1. CASE ev # NoEvent /\ Value >= ev
      <4>1. ev' = NoEvent /\ want' = want /\ now' = now
        BY <1>5, <3>1 DEF MProcess
      <4>2. want # NoEvent => want <= now
        BY <1>1, <2>3, <3>1 DEF Inv, EventInv, TypeOK
      <4> QED BY <4>1, <4>2 DEF EventInv
    <3>2. CASE ~(ev # NoEvent /\ Value >= ev)
      <4>1. UNCHANGED <<ev, want, now, ip>>
        BY <1>5, <3>2 DEF MProcess
      <4> QED BY <4>1 DEF Inv, EventInv
    <3> QED BY <3>1, <3>2
  <2> QED BY <2>6, <2>7, <2>8 DEF Inv
<1> QED BY <1>2, <1>3, <1>4, <1>5 DEF MMode

LEMMA StepTick == ASSUME Inv, Tick PROVE Inv'
<1>1. /\ now' = now + 1 /\ now \in Nat /\ got \in [from : Nat, hi : Nat, lo : Nat]
      /\ UNCHANGED <<mprog, got, ev, want>> /\ (5 \in ip' => 5 \in ip)
  BY DEF Tick, Edge, linux, Inv, TypeOK
<1>2. TypeOK'
  BY <1>1 DEF Inv, TypeOK
<1>3. got.from .. now \subseteq got.from .. now'
  BY <1>1
<1>4. ReadInv'
  BY <1>1, <1>3 DEF Inv, ReadInv, Value
<1>5. EventInv'
  BY <1>1 DEF Inv, EventInv, TypeOK
<1> QED BY <1>2, <1>4, <1>5 DEF Inv

(* The other steps of Linux and of the inputs leave the timer alone and do *)
(* not set input 5.                                                        *)
LEMMA StepOther ==
  ASSUME Inv, UNCHANGED timer, 5 \in ip' => 5 \in ip, want' = want \/ want' = NoEvent
  PROVE  Inv'
<1>1. UNCHANGED <<now, mprog, got, ev>>
  BY DEF timer
<1>2. NoEvent \in Nat
  BY IrqAssumption DEF NoEvent
<1>3. TypeOK' /\ ReadInv'
  BY <1>1, <1>2 DEF Inv, TypeOK, ReadInv, Value
<1>4. EventInv'
  BY <1>1 DEF Inv, EventInv
<1> QED BY <1>3, <1>4 DEF Inv

LEMMA StepInv == Inv /\ [IrqNext]_irqVars => Inv'
<1> SUFFICES ASSUME Inv, [IrqNext]_irqVars PROVE Inv'
  OBVIOUS
<1> USE DEF linux, works, ext
<1>1. CASE Tick
  BY <1>1, StepTick
<1>2. CASE MMode
  BY <1>2, StepM
<1>3. ASSUME NEW e \in 0 .. MaxTime, ArmTimer(e) PROVE Inv'
  BY <1>3, StepSetTimer DEF ArmTimer
<1>4. CASE TakeTimer \/ esp32s31_clic_probe \/ TakeWork
  BY <1>4, StepOther DEF TakeTimer, esp32s31_clic_probe, TakeWork
<1>5. CASE TimerHandler
  <2>1. want \in Nat
    BY DEF Inv, TypeOK
  <2>2. CASE SetTimer(want) \/ \E e \in 0 .. MaxTime : SetTimer(e)
    BY <2>1, <2>2, StepSetTimer
  <2>3. CASE want' = NoEvent /\ UNCHANGED <<timer, ip, arms>>
    BY <2>3, StepOther
  <2> QED BY <1>5, <2>2, <2>3 DEF TimerHandler
<1>6. CASE QueueWork
  BY <1>6, StepOther DEF QueueWork, arch_irq_work_raise
<1>7. CASE RunWork
  BY <1>7, StepOther DEF RunWork, WorkDone, arch_irq_work_raise
<1>8. CASE esp32s31_clic_domain_alloc \/ RaiseLine \/ TakeExternal \/ UNCHANGED irqVars
  BY <1>8, StepOther DEF esp32s31_clic_domain_alloc, RaiseLine, TakeExternal, irqVars
<1>9. ASSUME NEW on \in BOOLEAN, esp32s31_clic_irq_enable(on) PROVE Inv'
  BY <1>9, StepOther DEF esp32s31_clic_irq_enable
<1> QED BY <1>1, <1>2, <1>3, <1>4, <1>5, <1>6, <1>7, <1>8, <1>9 DEF IrqNext

(* The time that M-mode decides with is one the timer had while it was     *)
(* read, for every width of the halves and however far time goes between   *)
(* the reads; and Linux gets no timer interrupt before its event is due.   *)
THEOREM TimeCorrect == IrqSpec => []TimeIsWhole
<1>1. IrqInit => Inv
  BY InitInv
<1>2. Inv /\ [IrqNext]_irqVars => Inv'
  BY StepInv
<1>3. Inv => TimeIsWhole
  <2> SUFFICES ASSUME Inv PROVE TimeIsWhole
    OBVIOUS
  <2>1. mprog # <<>> /\ Head(mprog)[1] = "process" => mprog = AfterRead
    BY Reading, Writing DEF Inv, TypeOK
  <2> QED BY <2>1 DEF Inv, ReadInv, EventInv, TimeIsWhole
<1> QED BY <1>1, <1>2, <1>3, PTL DEF IrqSpec

-----------------------------------------------------------------------------
(* Programs: sequences of accesses.                                        *)
IsAcc(a) == a = [do |-> a.do, reg |-> a.reg, pin |-> a.pin, val |-> a.val, off |-> a.off]
IsProgram(s) == s \in Seq(ToSet(s)) /\ \A i \in DOMAIN s : IsAcc(s[i])
Word(a) == <<a.reg, a.pin>>
SetsType(a) == a.do = "write" /\ a.reg = "pin" /\ "type" \in DOMAIN a.val

(* A write follows the read of its word; a write of the type of a pin is   *)
(* followed by its acknowledge.                                            *)
Paired(s) ==
  \A i \in DOMAIN s : s[i].do = "write" /\ i > 1 =>
      i - 1 \in DOMAIN s /\ s[i - 1].do = "read" /\ Word(s[i - 1]) = Word(s[i])
Acked(s) ==
  \A i \in DOMAIN s : SetsType(s[i]) =>
      i + 1 \in DOMAIN s /\ s[i + 1].do = "ack" /\ s[i + 1].pin = s[i].pin

(* The accesses of the call c, of the handler, and of a run of the tool.   *)
CallAcc(a, c) ==
  /\ a.do \in {"read", "write", "bit", "sel", "ack"}
  /\ a.do \in {"read", "write"} => Word(a) \in Words
  /\ a.do \in {"write", "bit", "sel"} => a.pin = c.pin \/ a.reg \in {"cnnt", "in"}
  /\ a.do = "bit" => a.reg \in {"oe", "outbit"}
  /\ a.do = "write" /\ a.reg = "iomux" /\ "func" \in DOMAIN a.val => c.op \in {"mux", "request"}
  /\ a.do = "sel" /\ a.reg = "out" => c.op \in {"mux", "request"}
  /\ a.do = "bit" /\ a.reg = "oe" =>
        c.op \in {"request", "input", "output"} /\ (a.val => c.op = "output")
  /\ a.do = "bit" /\ a.reg = "outbit" => c.op \in {"level", "output"} /\ a.val = c.val
  /\ c.op = "output" => a.do = "bit" /\ c.val \in BOOLEAN
TaskAcc(a, c) == CallAcc(a, c) /\ (a.do \in {"write", "ack"} => a.off = TRUE)

HandlerAcc(a) ==
  /\ a.do \in {"read", "write", "ack", "event"} /\ a.pin \in Pins
  /\ a.do \in {"read", "write"} => a.reg = "pin"
  /\ a.do = "write" => DOMAIN a.val = {"ena"}

Reported(s) ==
  \A i \in DOMAIN s : s[i].do = "ack" =>
      \E j \in DOMAIN s : j > i /\ s[j].do = "event" /\ s[j].pin = s[i].pin

ToolAccs(p, opt) == ToSet(SetProgram(p, opt))

TypeOfRun ==
  /\ call = [op |-> call.op, pin |-> call.pin, val |-> call.val, clean |-> call.clean]
  /\ tset = [pc |-> tset.pc, cmd |-> tset.cmd, nums |-> tset.nums, used |-> tset.used,
             pin |-> tset.pin, clean |-> tset.clean]

ProgramInv ==
  /\ TypeOfRun
  /\ IsProgram(task) /\ Paired(task) /\ Acked(task)
  /\ \A a \in ToSet(task) : TaskAcc(a, call)
  /\ IsProgram(chained) /\ Paired(chained) /\ \A a \in ToSet(chained) : HandlerAcc(a)
  /\ Reported(chained)
  /\ IsProgram(tool) /\ Paired(tool)
  /\ tset.pc \notin {"off", "end"} => tset.cmd \in Commands
  /\ tset.pc = "set" => /\ tset.pin \in Pins
                         /\ ToSet(tool) \subseteq ToolAccs(tset.pin, tset.cmd.opt)
  /\ tset.pc # "set" => tool = <<>>
  /\ todo \subseteq Pins

Fields(w) == CASE w[1] = "iomux" -> {"wpu", "wpd", "ie", "drv", "func"}
               [] w[1] = "pin" -> {"od", "type", "ena"}
               [] OTHER -> {"gmac", "sdhost"}

(* What a program has read is still in the word when it writes it.         *)
WordInv ==
  /\ DOMAIN regs = Words /\ DOMAIN meant = Words
  /\ \A w \in Words : DOMAIN regs[w] = Fields(w)
  /\ DOMAIN outSel = Pins
  /\ ChangesKept
  /\ task # <<>> /\ Head(task).off = TRUE => ~Serving
  /\ task # <<>> /\ Head(task).do = "write" => tmp = regs[Word(Head(task))]
  /\ chained # <<>> /\ Head(chained).do = "write" => htmp = regs[Word(Head(chained))]
  /\ tool # <<>> /\ Head(tool).do = "write" =>
        ttmp = regs[Word(Head(tool))] \/ Word(Head(tool)) \in raced

(* An edge of an old type is still to be acknowledged by the task.         *)
EdgeInv ==
  /\ \A p \in fresh :
        p \in status \/ \E i \in DOMAIN chained : chained[i].do = "event" /\ chained[i].pin = p
  /\ \A p \in Pins : p \in status /\ latched[p] # Type(p) =>
        task # <<>> /\ Head(task).do = "ack" /\ Head(task).pin = p
  /\ DOMAIN event = Pins /\ DOMAIN latched = Pins /\ EventsMatchType

(* How far the calls and the tool have come.                               *)
DriveInv ==
  /\ DOMAIN owner = Pins
  /\ call.op = "mux" => call.pin \in Pins /\ owner[call.pin] = "mux"
  /\ call.op = "request" => \A i \in DOMAIN task : i > 1 => task[i].do # "bit"
  /\ call.op = "request" /\ call.clean /\ task # <<>> /\ Head(task).do # "bit" =>
        call.pin \notin oe
  /\ call.op = "output" => \A i \in DOMAIN task : i > 1 => task[i].reg = "oe"
  /\ call.op = "output" /\ call.clean /\ task # <<>> /\ Head(task).reg = "oe" =>
        (call.pin \in out) = call.val
  /\ \A i \in DOMAIN tool : i > 1 => tool[i].reg # "outbit"

Done(a) ==
  CASE a.do = "write" -> \A f \in DOMAIN a.val : regs[Word(a)][f] = a.val[f]
    [] a.do = "sel" -> outSel[a.pin] = a.val
    [] a.do = "bit" -> (a.pin \in IF a.reg = "oe" THEN oe ELSE out) = a.val
    [] OTHER -> TRUE

ToolInv ==
  tset.pc = "set" /\ tset.clean =>
    \A a \in ToolAccs(tset.pin, tset.cmd.opt) :
       a.reg = "cnnt" \/ a \in ToSet(tool) \/ Done(a) \/ (a.do = "write" /\ Word(a) \in raced)

-----------------------------------------------------------------------------
(* Sequences of accesses.                                                  *)
LEMMA ProgramAt ==
  ASSUME NEW s, IsProgram(s)
  PROVE  /\ Len(s) \in Nat /\ DOMAIN s = 1 .. Len(s)
         /\ \A i \in DOMAIN s : s[i] \in ToSet(s)
         /\ \A a \in ToSet(s) : IsAcc(a) /\ \E i \in DOMAIN s : a = s[i]
         /\ s = <<>> <=> Len(s) = 0
         /\ s # <<>> => 1 \in DOMAIN s
<1>1. s \in Seq(ToSet(s))
  BY DEF IsProgram
<1>2. Len(s) \in Nat /\ DOMAIN s = 1 .. Len(s)
  BY <1>1, LenProperties
<1>3. s = <<>> <=> Len(s) = 0
  BY <1>1, EmptySeq
<1>4. \A a \in ToSet(s) : IsAcc(a) /\ \E i \in DOMAIN s : a = s[i]
  BY DEF ToSet, IsProgram
<1>5. \A i \in DOMAIN s : s[i] \in ToSet(s)
  BY DEF ToSet
<1> QED BY <1>2, <1>3, <1>4, <1>5

(* The program u is s and then t.                                          *)
Joins(u, s, t) ==
  /\ IsProgram(u) /\ Len(u) = Len(s) + Len(t) /\ ToSet(u) = ToSet(s) \cup ToSet(t)
  /\ \A i \in DOMAIN s : i \in DOMAIN u /\ u[i] = s[i]
  /\ \A k \in DOMAIN t : Len(s) + k \in DOMAIN u /\ u[Len(s) + k] = t[k]
  /\ \A i \in DOMAIN u : i \in DOMAIN s \/ \E k \in DOMAIN t : i = Len(s) + k

LEMMA ProgramConcat ==
  ASSUME NEW s, NEW t, IsProgram(s), IsProgram(t)
  PROVE  Joins(s \o t, s, t)
<1> DEFINE A == ToSet(s) \cup ToSet(t)
           u == s \o t
<1>1. s \in Seq(A) /\ t \in Seq(A)
  <2>1. s \in Seq(ToSet(s)) /\ t \in Seq(ToSet(t)) /\ ToSet(s) \subseteq A /\ ToSet(t) \subseteq A
    BY DEF IsProgram
  <2> HIDE DEF A
  <2> QED BY <2>1, SeqMonotonic
<1>2. /\ u \in Seq(A) /\ Len(u) = Len(s) + Len(t)
      /\ \A i \in 1 .. Len(s) + Len(t) : u[i] = IF i <= Len(s) THEN s[i] ELSE t[i - Len(s)]
  <2> HIDE DEF A
  <2> QED BY <1>1, ConcatProperties
<1>3. /\ Len(s) \in Nat /\ Len(t) \in Nat /\ DOMAIN s = 1 .. Len(s) /\ DOMAIN t = 1 .. Len(t)
  BY ProgramAt
<1>4. DOMAIN u = 1 .. Len(s) + Len(t)
  <2> HIDE DEF A, u
  <2> QED BY <1>2, LenProperties
<1> HIDE DEF A, u
<1>5. \A i \in DOMAIN s : i \in DOMAIN u /\ u[i] = s[i]
  BY <1>2, <1>3, <1>4
<1>6. \A k \in DOMAIN t : Len(s) + k \in DOMAIN u /\ u[Len(s) + k] = t[k]
  BY <1>2, <1>3, <1>4
<1>7. \A i \in DOMAIN u : i \in DOMAIN s \/ \E k \in DOMAIN t : i = Len(s) + k
  <2> SUFFICES ASSUME NEW i \in DOMAIN u, i \notin DOMAIN s
               PROVE  \E k \in DOMAIN t : i = Len(s) + k
    OBVIOUS
  <2>1. i - Len(s) \in DOMAIN t /\ i = Len(s) + (i - Len(s))
    BY <1>3, <1>4
  <2> QED BY <2>1
<1>8. ToSet(u) = A
  <2>1. ToSet(u) \subseteq A
    BY <1>5, <1>6, <1>7 DEF ToSet, A
  <2>2. A \subseteq ToSet(u)
    BY <1>5, <1>6 DEF ToSet, A
  <2> QED BY <2>1, <2>2
<1>9. \A i \in DOMAIN u : IsAcc(u[i])
  BY <1>5, <1>6, <1>7 DEF IsProgram
<1>10. IsProgram(u)
  BY <1>2, <1>8, <1>9 DEF IsProgram
<1>11. Joins(u, s, t)
  BY <1>2, <1>5, <1>6, <1>7, <1>8, <1>10 DEF Joins, A
<1> QED BY <1>11 DEF u

LEMMA ProgramTail ==
  ASSUME NEW s, IsProgram(s), s # <<>>
  PROVE  /\ IsProgram(Tail(s)) /\ Len(Tail(s)) = Len(s) - 1
         /\ Head(s) = s[1] /\ Head(s) \in ToSet(s) /\ IsAcc(Head(s))
         /\ \A i \in DOMAIN Tail(s) : i + 1 \in DOMAIN s /\ Tail(s)[i] = s[i + 1]
         /\ \A i \in DOMAIN s : i = 1 \/ i - 1 \in DOMAIN Tail(s)
         /\ ToSet(Tail(s)) \subseteq ToSet(s) /\ ToSet(s) = {Head(s)} \cup ToSet(Tail(s))
         /\ Paired(s) => Paired(Tail(s))
         /\ Acked(s) => Acked(Tail(s))
         /\ Reported(s) => Reported(Tail(s))
         /\ Tail(s) # <<>> => 2 \in DOMAIN s /\ Head(Tail(s)) = s[2]
<1> DEFINE t == Tail(s)
           A == ToSet(s)
<1>1. s \in Seq(A) /\ Len(s) \in Nat /\ DOMAIN s = 1 .. Len(s) /\ Len(s) # 0
  BY ProgramAt DEF IsProgram
<1>2. /\ t \in Seq(A) /\ Len(t) = Len(s) - 1 /\ Head(s) = s[1]
      /\ \A i \in 1 .. Len(t) : t[i] = s[i + 1]
  <2> HIDE DEF A
  <2>1. /\ t \in Seq(A) /\ Len(t) = Len(s) - 1
        /\ \A i \in 1 .. Len(t) : t[i] = s[i + 1]
    BY <1>1, HeadTailProperties
  <2>2. Head(s) = s[1]
    BY <1>1
  <2> QED BY <2>1, <2>2
<1>3. DOMAIN t = 1 .. Len(s) - 1
  <2> HIDE DEF A, t
  <2> QED BY <1>2, LenProperties
<1> HIDE DEF t
<1>4. \A i \in DOMAIN t : i + 1 \in DOMAIN s /\ t[i] = s[i + 1]
  BY <1>1, <1>2, <1>3
<1>5. \A i \in DOMAIN s : i = 1 \/ i - 1 \in DOMAIN t
  BY <1>1, <1>3
<1>6. 1 \in DOMAIN s /\ Head(s) \in A /\ IsAcc(Head(s))
  BY <1>1, <1>2 DEF ToSet, IsProgram
<1>7. ToSet(t) \subseteq A
  BY <1>4 DEF ToSet
<1>8. A = {Head(s)} \cup ToSet(t)
  <2> SUFFICES ASSUME NEW i \in DOMAIN s, i # 1 PROVE s[i] \in ToSet(t)
    BY <1>2, <1>6, <1>7 DEF ToSet
  <2>1. i - 1 \in DOMAIN t /\ t[i - 1] = s[(i - 1) + 1] /\ (i - 1) + 1 = i
    BY <1>1, <1>4, <1>5
  <2> QED BY <2>1 DEF ToSet
<1>9. IsProgram(t)
  <2>1. t \in Seq(ToSet(t))
    <3>1. \A i \in 1 .. Len(t) : t[i] \in ToSet(t)
      BY <1>2, <1>3 DEF ToSet
    <3>2. t \in [1 .. Len(t) -> ToSet(t)]
      <4> HIDE DEF A
      <4>1. t \in [1 .. Len(t) -> A]
        BY <1>2, LenProperties
      <4> QED BY <3>1, <4>1
    <3> QED BY <1>1, <1>2, <3>2
  <2> QED BY <1>4, <2>1 DEF IsProgram
<1>10. ASSUME Paired(s) PROVE Paired(t)
  <2> SUFFICES ASSUME NEW i \in DOMAIN t, t[i].do = "write", i > 1
               PROVE  i - 1 \in DOMAIN t /\ t[i - 1].do = "read" /\ Word(t[i - 1]) = Word(t[i])
    BY DEF Paired
  <2>1. i - 1 \in DOMAIN t /\ i + 1 \in DOMAIN s /\ t[i] = s[i + 1] /\ i + 1 > 1
        /\ (i + 1) - 1 = i /\ (i - 1) + 1 = i /\ t[i - 1] = s[(i - 1) + 1]
    BY <1>1, <1>3, <1>4
  <2> QED BY <1>10, <2>1 DEF Paired
<1>11. ASSUME Acked(s) PROVE Acked(t)
  <2> SUFFICES ASSUME NEW i \in DOMAIN t, SetsType(t[i])
               PROVE  i + 1 \in DOMAIN t /\ t[i + 1].do = "ack" /\ t[i + 1].pin = t[i].pin
    BY DEF Acked
  <2>1. i + 1 \in DOMAIN s /\ t[i] = s[i + 1]
    BY <1>4
  <2>2. (i + 1) + 1 \in DOMAIN s /\ s[(i + 1) + 1].do = "ack" /\ s[(i + 1) + 1].pin = s[i + 1].pin
    BY <1>11, <2>1 DEF Acked
  <2>3. i + 1 \in DOMAIN t
    BY <1>1, <1>3, <2>2
  <2> QED BY <1>4, <2>1, <2>2, <2>3
<1>12. ASSUME t # <<>> PROVE 2 \in DOMAIN s /\ Head(t) = s[2]
  <2>1. 1 \in DOMAIN t
    BY <1>9, <1>12, ProgramAt
  <2>2. Head(t) = t[1]
    <3> HIDE DEF A
    <3> QED BY <1>2, <1>12, <2>1
  <2> QED BY <1>4, <2>1, <2>2
<1>13. ASSUME Reported(s) PROVE Reported(t)
  <2> SUFFICES ASSUME NEW i \in DOMAIN t, t[i].do = "ack"
               PROVE  \E j \in DOMAIN t : j > i /\ t[j].do = "event" /\ t[j].pin = t[i].pin
    BY DEF Reported
  <2>1. i + 1 \in DOMAIN s /\ t[i] = s[i + 1]
    BY <1>4
  <2>2. PICK j \in DOMAIN s : j > i + 1 /\ s[j].do = "event" /\ s[j].pin = s[i + 1].pin
    BY <1>13, <2>1 DEF Reported
  <2>3. j - 1 \in DOMAIN t /\ (j - 1) + 1 = j /\ j - 1 > i
    BY <1>1, <1>3, <2>1, <2>2
  <2>4. t[j - 1] = s[j]
    BY <1>4, <2>3
  <2> QED BY <2>1, <2>2, <2>3, <2>4
<1> QED BY <1>2, <1>4, <1>5, <1>6, <1>7, <1>8, <1>9, <1>10, <1>11, <1>12, <1>13 DEF t

-----------------------------------------------------------------------------
(* The programs that a call starts with.                                   *)
Fresh(s) == IsProgram(s) /\ Paired(s) /\ (s # <<>> => s[1].do # "write")

LEMMA FreshNone == Fresh(<<>>) /\ ToSet(<<>>) = {} /\ Acked(<<>>)
<1> DEFINE s == <<>>
<1>1. DOMAIN s = {} /\ s \in Seq({})
  OBVIOUS
<1> HIDE DEF s
<1>2. ToSet(s) = {}
  BY <1>1 DEF ToSet
<1>3. Fresh(s) /\ ToSet(s) = {} /\ Acked(s)
  BY <1>1, <1>2 DEF Fresh, IsProgram, Paired, Acked, s
<1> QED BY <1>3 DEF s

LEMMA FreshOne ==
  ASSUME NEW a, IsAcc(a), a.do # "write"
  PROVE  Fresh(<<a>>) /\ ToSet(<<a>>) = {a} /\ Len(<<a>>) = 1 /\ <<a>>[1] = a
<1> DEFINE s == <<a>>
<1>1. DOMAIN s = {1} /\ s[1] = a /\ s \in Seq({a}) /\ Len(s) = 1
  OBVIOUS
<1> HIDE DEF s
<1>2. ToSet(s) = {a}
  BY <1>1 DEF ToSet
<1>3. Fresh(s)
  BY <1>1, <1>2 DEF Fresh, IsProgram, Paired
<1> QED BY <1>1, <1>2, <1>3 DEF s

LEMMA FreshPair ==
  ASSUME NEW a, NEW b, IsAcc(a), IsAcc(b), a.do = "read", Word(a) = Word(b)
  PROVE  /\ Fresh(<<a, b>>) /\ ToSet(<<a, b>>) = {a, b} /\ Len(<<a, b>>) = 2
         /\ <<a, b>>[1] = a /\ <<a, b>>[2] = b
<1> DEFINE s == <<a, b>>
<1>1. DOMAIN s = {1, 2} /\ s[1] = a /\ s[2] = b /\ s \in Seq({a, b}) /\ Len(s) = 2
  OBVIOUS
<1> HIDE DEF s
<1>2. ToSet(s) = {a, b}
  BY <1>1 DEF ToSet
<1>3. IsProgram(s)
  BY <1>1, <1>2 DEF IsProgram
<1>4. Paired(s)
  BY <1>1 DEF Paired
<1> QED BY <1>1, <1>2, <1>3, <1>4 DEF s, Fresh

LEMMA FreshConcat ==
  ASSUME NEW s, NEW t, Fresh(s), Fresh(t)
  PROVE  Fresh(s \o t) /\ Joins(s \o t, s, t)
<1> DEFINE u == s \o t
<1>1. IsProgram(s) /\ IsProgram(t) /\ Paired(s) /\ Paired(t)
      /\ (s # <<>> => s[1].do # "write") /\ (t # <<>> => t[1].do # "write")
  BY DEF Fresh
<1>2. Joins(u, s, t)
  BY <1>1, ProgramConcat
<1> HIDE DEF u
<1>3. /\ IsProgram(u) /\ Len(u) = Len(s) + Len(t) /\ ToSet(u) = ToSet(s) \cup ToSet(t)
      /\ \A i \in DOMAIN s : i \in DOMAIN u /\ u[i] = s[i]
      /\ \A k \in DOMAIN t : Len(s) + k \in DOMAIN u /\ u[Len(s) + k] = t[k]
      /\ \A i \in DOMAIN u : i \in DOMAIN s \/ \E k \in DOMAIN t : i = Len(s) + k
  BY <1>2 DEF Joins
<1>4. /\ Len(s) \in Nat /\ Len(t) \in Nat /\ DOMAIN s = 1 .. Len(s) /\ DOMAIN t = 1 .. Len(t)
      /\ Len(u) \in Nat /\ DOMAIN u = 1 .. Len(u)
      /\ (s = <<>> <=> Len(s) = 0) /\ (t = <<>> <=> Len(t) = 0) /\ (u = <<>> <=> Len(u) = 0)
  BY <1>1, <1>3, ProgramAt
<1>5. ASSUME NEW i \in DOMAIN u, u[i].do = "write", i > 1
      PROVE  i - 1 \in DOMAIN u /\ u[i - 1].do = "read" /\ Word(u[i - 1]) = Word(u[i])
  <2>1. CASE i \in DOMAIN s
    <3>1. u[i] = s[i] /\ i - 1 \in DOMAIN s /\ u[i - 1] = s[i - 1] /\ i - 1 \in DOMAIN u
      BY <1>3, <1>4, <1>5, <2>1
    <3> QED BY <1>1, <1>5, <2>1, <3>1 DEF Paired
  <2>2. CASE i \notin DOMAIN s
    <3>1. PICK k \in DOMAIN t : i = Len(s) + k
      BY <1>3, <2>2
    <3>2. u[i] = t[k] /\ t # <<>>
      BY <1>3, <1>4, <3>1
    <3>3. k # 1
      BY <1>1, <1>5, <3>2
    <3>4. k > 1 /\ k - 1 \in DOMAIN t /\ i - 1 = Len(s) + (k - 1)
      BY <1>4, <3>1, <3>3
    <3>5. u[i - 1] = t[k - 1] /\ i - 1 \in DOMAIN u
      BY <1>3, <3>4
    <3> QED BY <1>1, <1>5, <3>2, <3>4, <3>5 DEF Paired
  <2> QED BY <2>1, <2>2
<1>6. u # <<>> => u[1].do # "write"
  <2>1. CASE s # <<>>
    <3>1. 1 \in DOMAIN s
      BY <1>4, <2>1
    <3> QED BY <1>1, <1>3, <2>1, <3>1
  <2>2. CASE s = <<>> /\ t # <<>>
    <3>1. 1 \in DOMAIN t /\ Len(s) + 1 = 1
      BY <1>4, <2>2
    <3> QED BY <1>1, <1>3, <2>2, <3>1
  <2>3. CASE s = <<>> /\ t = <<>>
    <3>1. u = <<>>
      BY <1>3, <1>4, <2>3
    <3> QED BY <3>1
  <2> QED BY <2>1, <2>2, <2>3
<1>7. Fresh(u)
  BY <1>3, <1>5, <1>6 DEF Fresh, Paired
<1> QED BY <1>2, <1>7 DEF u

(* A locked program: the same accesses, all but the first with interrupts  *)
(* off.                                                                    *)
SameBut(a, b) == a.do = b.do /\ a.reg = b.reg /\ a.pin = b.pin /\ a.val = b.val

LEMMA FreshLocked ==
  ASSUME NEW s, Fresh(s)
  PROVE  /\ Fresh(Locked(s)) /\ Len(Locked(s)) = Len(s) /\ DOMAIN Locked(s) = DOMAIN s
         /\ \A i \in DOMAIN s : SameBut(Locked(s)[i], s[i]) /\ (i > 1 => Locked(s)[i].off = TRUE)
         /\ s # <<>> => Locked(s)[1] = s[1]
         /\ Acked(s) => Acked(Locked(s))
<1> DEFINE u == Locked(s)
<1>1. /\ IsProgram(s) /\ Paired(s) /\ (s # <<>> => s[1].do # "write")
      /\ Len(s) \in Nat /\ DOMAIN s = 1 .. Len(s) /\ (s # <<>> => 1 \in DOMAIN s)
      /\ \A i \in DOMAIN s : IsAcc(s[i])
  BY ProgramAt DEF Fresh, IsProgram
<1>2. DOMAIN u = DOMAIN s
  BY DEF Locked
<1>3. \A i \in DOMAIN s :
         (i = 1 => u[i] = s[i]) /\ (i # 1 => u[i] = [s[i] EXCEPT !.off = TRUE])
  BY Zenon DEF Locked
<1> HIDE DEF u
<1>4. ASSUME NEW i \in DOMAIN s
      PROVE  IsAcc(u[i]) /\ SameBut(u[i], s[i]) /\ (i > 1 => u[i].off = TRUE)
  <2>1. IsAcc(s[i])
    BY <1>1
  <2>2. CASE i = 1
    <3>1. u[i] = s[i]
      BY <1>3, <2>2, Zenon
    <3>2. ~(i > 1)
      BY <2>2
    <3> QED BY <2>1, <3>1, <3>2 DEF SameBut
  <2>3. CASE i # 1
    <3>1. u[i] = [s[i] EXCEPT !.off = TRUE]
      BY <1>3, <2>3
    <3>2. u[i] = [do |-> s[i].do, reg |-> s[i].reg, pin |-> s[i].pin, val |-> s[i].val, off |-> TRUE]
      BY <2>1, <3>1 DEF IsAcc
    <3> QED BY <3>2 DEF IsAcc, SameBut
  <2> QED BY <2>2, <2>3
<1>5. u \in Seq(ToSet(u)) /\ Len(u) = Len(s)
  <2>1. \A i \in 1 .. Len(s) : u[i] \in ToSet(u)
    BY <1>1, <1>2 DEF ToSet
  <2>2. u = [i \in 1 .. Len(s) |-> u[i]]
    BY <1>1 DEF u, Locked
  <2>3. u \in [1 .. Len(s) -> ToSet(u)]
    BY <2>1, <2>2
  <2>4. u \in Seq(ToSet(u))
    BY <1>1, <2>3
  <2> QED BY <1>1, <1>2, <2>4, LenProperties
<1>6. IsProgram(u)
  BY <1>2, <1>4, <1>5 DEF IsProgram
<1>7. Paired(u)
  <2> SUFFICES ASSUME NEW i \in DOMAIN u, u[i].do = "write", i > 1
               PROVE  i - 1 \in DOMAIN u /\ u[i - 1].do = "read" /\ Word(u[i - 1]) = Word(u[i])
    BY DEF Paired
  <2>1. s[i].do = "write" /\ i \in DOMAIN s
    BY <1>2, <1>4 DEF SameBut
  <2>2. i - 1 \in DOMAIN s /\ s[i - 1].do = "read" /\ Word(s[i - 1]) = Word(s[i])
    BY <1>1, <2>1 DEF Paired
  <2> QED BY <1>2, <1>4, <2>1, <2>2 DEF SameBut, Word
<1>8. s # <<>> => u[1] = s[1]
  BY <1>1, <1>3
<1>9. u # <<>> => u[1].do # "write"
  <2> SUFFICES ASSUME u # <<>> PROVE u[1].do # "write"
    OBVIOUS
  <2>1. s # <<>>
    BY <1>5, <1>6, ProgramAt DEF Fresh
  <2> QED BY <1>1, <1>8, <2>1
<1>10. ASSUME Acked(s) PROVE Acked(u)
  <2> SUFFICES ASSUME NEW i \in DOMAIN u, SetsType(u[i])
               PROVE  i + 1 \in DOMAIN u /\ u[i + 1].do = "ack" /\ u[i + 1].pin = u[i].pin
    BY DEF Acked
  <2>1. SetsType(s[i]) /\ i \in DOMAIN s
    BY <1>2, <1>4 DEF SameBut, SetsType
  <2>2. i + 1 \in DOMAIN s /\ s[i + 1].do = "ack" /\ s[i + 1].pin = s[i].pin
    BY <1>10, <2>1 DEF Acked
  <2> QED BY <1>2, <1>4, <2>1, <2>2 DEF SameBut
<1> QED BY <1>2, <1>4, <1>5, <1>6, <1>7, <1>8, <1>9, <1>10 DEF u, Fresh

LEMMA NoTypeAcked ==
  ASSUME NEW s, \A a \in ToSet(s) : ~SetsType(a)
  PROVE  Acked(s)
BY DEF Acked, ToSet

LockedWrite(reg, pin, set) ==
  [do |-> "write", reg |-> reg, pin |-> pin, val |-> set, off |-> TRUE]

LEMMA RmwIs ==
  ASSUME NEW reg, NEW pin, NEW set
  PROVE  /\ Fresh(Rmw(reg, pin, set)) /\ Len(Rmw(reg, pin, set)) = 2
         /\ DOMAIN Rmw(reg, pin, set) = 1 .. 2
         /\ Rmw(reg, pin, set)[1] = Read(reg, pin)
         /\ Rmw(reg, pin, set)[2] = LockedWrite(reg, pin, set)
         /\ ToSet(Rmw(reg, pin, set)) = {Read(reg, pin), LockedWrite(reg, pin, set)}
<1> DEFINE a == Read(reg, pin)
           b == Write(reg, pin, set)
           s == <<a, b>>
           u == Rmw(reg, pin, set)
<1>1. IsAcc(a) /\ IsAcc(b) /\ a.do = "read" /\ Word(a) = Word(b)
  BY DEF IsAcc, Read, Write, Acc, Word
<1>2. Fresh(s) /\ Len(s) = 2 /\ s[1] = a /\ s[2] = b
  <2> HIDE DEF a, b
  <2> QED BY <1>1, FreshPair
<1>3. DOMAIN s = 1 .. 2
  BY <1>2, ProgramAt DEF Fresh
<1>4. u = Locked(s)
  BY DEF Rmw
<1> HIDE DEF s
<1>5. Fresh(u) /\ Len(u) = 2 /\ DOMAIN u = 1 .. 2
  BY <1>2, <1>3, <1>4, FreshLocked
<1>6. u[1] = a /\ SameBut(u[2], b) /\ u[2].off = TRUE
  <2>1. s # <<>>
    BY <1>2, <1>3
  <2>2. 2 \in DOMAIN s /\ 2 > 1
    BY <1>3
  <2> HIDE DEF u, a, b
  <2>3. Locked(s)[1] = s[1] /\ SameBut(Locked(s)[2], s[2]) /\ Locked(s)[2].off = TRUE
    BY <1>2, <2>1, <2>2, FreshLocked
  <2> QED BY <1>2, <1>4, <2>3
<1>7. u[2] = LockedWrite(reg, pin, set)
  <2>1. IsAcc(u[2])
    BY <1>5 DEF Fresh, IsProgram
  <2> QED BY <1>6, <2>1 DEF IsAcc, SameBut, LockedWrite, Write, Acc
<1>8. ToSet(u) = {u[1], u[2]}
  BY <1>5 DEF ToSet
<1> QED BY <1>5, <1>6, <1>7, <1>8

LEMMA BitIs ==
  ASSUME NEW reg, NEW pin, NEW on
  PROVE  /\ Fresh(Bit(reg, pin, on)) /\ Len(Bit(reg, pin, on)) = 1
         /\ Bit(reg, pin, on)[1] = Acc("bit", reg, pin, on)
         /\ ToSet(Bit(reg, pin, on)) = {Acc("bit", reg, pin, on)}
<1> DEFINE a == Acc("bit", reg, pin, on)
<1>1. IsAcc(a) /\ a.do # "write"
  BY DEF IsAcc, Acc
<1> HIDE DEF a
<1> QED BY <1>1, FreshOne DEF Bit, a

LEMMA SelIs ==
  ASSUME NEW reg, NEW n, NEW val
  PROVE  /\ Fresh(Sel(reg, n, val)) /\ Len(Sel(reg, n, val)) = 1
         /\ Sel(reg, n, val)[1] = Acc("sel", reg, n, val)
         /\ ToSet(Sel(reg, n, val)) = {Acc("sel", reg, n, val)}
<1> DEFINE a == Acc("sel", reg, n, val)
<1>1. IsAcc(a) /\ a.do # "write"
  BY DEF IsAcc, Acc
<1> HIDE DEF a
<1> QED BY <1>1, FreshOne DEF Sel, a

LEMMA AckIs ==
  ASSUME NEW pin
  PROVE  /\ Fresh(esp32s31_irq_ack(pin)) /\ Len(esp32s31_irq_ack(pin)) = 1
         /\ esp32s31_irq_ack(pin)[1] = Acc("ack", "status", pin, 0)
         /\ ToSet(esp32s31_irq_ack(pin)) = {Acc("ack", "status", pin, 0)}
<1> DEFINE a == Acc("ack", "status", pin, 0)
<1>1. IsAcc(a) /\ a.do # "write"
  BY DEF IsAcc, Acc
<1> HIDE DEF a
<1> QED BY <1>1, FreshOne DEF esp32s31_irq_ack, a

(* The calls.                                                              *)
TheCall(op, p, v) == [op |-> op, pin |-> p, val |-> v, clean |-> TRUE]
Ready(s, c) == Fresh(s) /\ Acked(s) /\ \A a \in ToSet(s) : TaskAcc(a, c)

LEMMA WordsOf ==
  ASSUME NEW p \in Pins
  PROVE  <<"iomux", p>> \in Words /\ <<"pin", p>> \in Words /\ <<"cnnt", 0>> \in Words
BY DEF Words

LEMMA MuxReady ==
  ASSUME NEW p \in Pins, NEW c, NEW v
  PROVE  Ready(esp32s31_mux_one(p, c), TheCall("mux", p, v))
<1> DEFINE none == <<>>
           s1 == IF c.in THEN Sel("in", c.sig, IF c.func = 1 THEN p ELSE IoMux) ELSE none
           s2 == IF c.out THEN Sel("out", p, c.sig) ELSE none
           set == IF c.in THEN [func |-> c.func, ie |-> TRUE] ELSE [func |-> c.func]
           s3 == Rmw("iomux", p, set)
           field == CnntField(p, c.func)
           s4 == IF field = Nothing THEN none ELSE Rmw("cnnt", 0, [x \in {field} |-> TRUE])
           k == TheCall("mux", p, v)
           Ok(a) == TaskAcc(a, k) /\ ~SetsType(a)
<1>1. k.op = "mux" /\ k.pin = p
  BY DEF TheCall
<1> HIDE DEF k
<1>2. Fresh(none) /\ ToSet(none) = {}
  BY FreshNone
<1> HIDE DEF none
<1>3. Fresh(s1) /\ \A a \in ToSet(s1) : Ok(a)
  <2> DEFINE w == IF c.func = 1 THEN p ELSE IoMux
  <2>1. CASE c.in
    <3>1. Fresh(s1) /\ ToSet(s1) = {Acc("sel", "in", c.sig, w)}
      BY <2>1, SelIs
    <3>2. Ok(Acc("sel", "in", c.sig, w))
      <4> DEFINE a == Acc("sel", "in", c.sig, w)
      <4> HIDE DEF w
      <4>1. a.do = "sel" /\ a.reg = "in"
        BY DEF Acc
      <4> HIDE DEF a
      <4>2. TaskAcc(a, k) /\ ~SetsType(a)
        BY <1>1, <4>1 DEF TaskAcc, CallAcc, SetsType
      <4> QED BY <4>2 DEF a
    <3> HIDE DEF w, s1, Ok
    <3> QED BY <3>1, <3>2
  <2>2. CASE ~c.in
    BY <1>2, <2>2
  <2> QED BY <2>1, <2>2
<1>4. Fresh(s2) /\ \A a \in ToSet(s2) : Ok(a)
  <2>1. CASE c.out
    <3>1. Fresh(s2) /\ ToSet(s2) = {Acc("sel", "out", p, c.sig)}
      BY <2>1, SelIs
    <3>2. Ok(Acc("sel", "out", p, c.sig))
      <4> DEFINE a == Acc("sel", "out", p, c.sig)
      <4>1. a.do = "sel" /\ a.reg = "out" /\ a.pin = p
        BY DEF Acc
      <4> HIDE DEF a
      <4>2. TaskAcc(a, k) /\ ~SetsType(a)
        BY <1>1, <4>1 DEF TaskAcc, CallAcc, SetsType
      <4> QED BY <4>2 DEF a
    <3> HIDE DEF s2, Ok
    <3> QED BY <3>1, <3>2
  <2>2. CASE ~c.out
    BY <1>2, <2>2
  <2> QED BY <2>1, <2>2
<1> HIDE DEF s1, s2, set
<1>5. Fresh(s3) /\ \A a \in ToSet(s3) : Ok(a)
  <2>1. Fresh(s3) /\ ToSet(s3) = {Read("iomux", p), LockedWrite("iomux", p, set)}
    BY RmwIs
  <2>2. Ok(Read("iomux", p))
    BY <1>1, WordsOf DEF Read, Acc, TaskAcc, CallAcc, SetsType, Word
  <2>3. Ok(LockedWrite("iomux", p, set))
    BY <1>1, WordsOf DEF LockedWrite, TaskAcc, CallAcc, SetsType, Word
  <2> QED BY <2>1, <2>2, <2>3
<1>6. Fresh(s4) /\ \A a \in ToSet(s4) : Ok(a)
  <2>1. CASE field # Nothing
    <3> DEFINE x1 == [x \in {field} |-> TRUE]
    <3>1. s4 = Rmw("cnnt", 0, x1)
      BY <2>1
    <3> HIDE DEF x1, s4
    <3>2. Fresh(s4) /\ ToSet(s4) = {Read("cnnt", 0), LockedWrite("cnnt", 0, x1)}
      BY <3>1, RmwIs
    <3>3. Ok(Read("cnnt", 0))
      BY <1>1, WordsOf DEF Read, Acc, TaskAcc, CallAcc, SetsType, Word
    <3>4. Ok(LockedWrite("cnnt", 0, x1))
      BY <1>1, WordsOf DEF LockedWrite, TaskAcc, CallAcc, SetsType, Word
    <3> QED BY <3>2, <3>3, <3>4
  <2>2. CASE field = Nothing
    BY <1>2, <2>2
  <2> QED BY <2>1, <2>2
<1>7. esp32s31_mux_one(p, c) = ((s1 \o s2) \o s3) \o s4
  BY DEF esp32s31_mux_one, esp32s31_cnnt_select, s1, s2, set, none
<1> HIDE DEF s3, s4, Ok
<1>8. Fresh(s1 \o s2) /\ ToSet(s1 \o s2) = ToSet(s1) \cup ToSet(s2)
  BY <1>3, <1>4, FreshConcat DEF Joins
<1> DEFINE t2 == s1 \o s2
<1> HIDE DEF t2
<1>9. Fresh(t2 \o s3) /\ ToSet(t2 \o s3) = ToSet(t2) \cup ToSet(s3)
  BY <1>5, <1>8, FreshConcat DEF t2, Joins
<1> DEFINE t3 == t2 \o s3
<1> HIDE DEF t3
<1>10. Fresh(t3 \o s4) /\ ToSet(t3 \o s4) = ToSet(t3) \cup ToSet(s4)
  BY <1>6, <1>9, FreshConcat DEF t3, Joins
<1> DEFINE t4 == t3 \o s4
<1> HIDE DEF t4
<1>11. Fresh(t4) /\ \A a \in ToSet(t4) : Ok(a)
  BY <1>3, <1>4, <1>5, <1>6, <1>8, <1>9, <1>10 DEF t2, t3, t4
<1>12. Acked(t4)
  BY <1>11, NoTypeAcked DEF Ok
<1> QED BY <1>7, <1>11, <1>12 DEF Ready, Ok, t2, t3, t4, k

LEMMA AckedConcat ==
  ASSUME NEW s, NEW t, Fresh(s), Fresh(t), Acked(s), Acked(t)
  PROVE  Acked(s \o t)
<1> DEFINE u == s \o t
<1>1. IsProgram(s) /\ IsProgram(t)
  BY DEF Fresh
<1>2. Joins(u, s, t)
  BY <1>1, ProgramConcat
<1> HIDE DEF u
<1>3. /\ \A i \in DOMAIN s : i \in DOMAIN u /\ u[i] = s[i]
      /\ \A k \in DOMAIN t : Len(s) + k \in DOMAIN u /\ u[Len(s) + k] = t[k]
      /\ \A i \in DOMAIN u : i \in DOMAIN s \/ \E k \in DOMAIN t : i = Len(s) + k
  BY <1>2 DEF Joins
<1>4. /\ Len(s) \in Nat /\ Len(t) \in Nat /\ DOMAIN s = 1 .. Len(s) /\ DOMAIN t = 1 .. Len(t)
  BY ProgramAt DEF Fresh
<1> SUFFICES ASSUME NEW i \in DOMAIN u, SetsType(u[i])
             PROVE  i + 1 \in DOMAIN u /\ u[i + 1].do = "ack" /\ u[i + 1].pin = u[i].pin
  BY DEF Acked, u
<1>5. CASE i \in DOMAIN s
  <2>1. u[i] = s[i] /\ i + 1 \in DOMAIN s /\ s[i + 1].do = "ack" /\ s[i + 1].pin = s[i].pin
    BY <1>3, <1>5 DEF Acked
  <2> QED BY <1>3, <2>1
<1>6. CASE i \notin DOMAIN s
  <2>1. PICK k \in DOMAIN t : i = Len(s) + k
    BY <1>3, <1>6
  <2>2. u[i] = t[k] /\ k + 1 \in DOMAIN t /\ t[k + 1].do = "ack" /\ t[k + 1].pin = t[k].pin
    BY <1>3, <2>1 DEF Acked
  <2>3. Len(s) + (k + 1) = i + 1
    BY <1>4, <2>1
  <2> QED BY <1>3, <2>2, <2>3
<1> QED BY <1>5, <1>6

LEMMA ReadyConcat ==
  ASSUME NEW s, NEW t, NEW c, Ready(s, c), Ready(t, c)
  PROVE  Ready(s \o t, c)
<1>1. Fresh(s \o t) /\ ToSet(s \o t) = ToSet(s) \cup ToSet(t)
  BY FreshConcat DEF Ready, Joins
<1>2. Acked(s \o t)
  BY AckedConcat DEF Ready
<1> QED BY <1>1, <1>2 DEF Ready

(* The accesses of s \o t after the first are those of s and of t.         *)
LEMMA AfterFirst ==
  ASSUME NEW s, NEW t, NEW B, Fresh(s), Fresh(t), s # <<>>,
         \A i \in DOMAIN s : i > 1 => s[i] \in B
  PROVE  /\ s \o t # <<>> /\ (s \o t)[1] = s[1]
         /\ \A i \in DOMAIN (s \o t) : i > 1 => (s \o t)[i] \in B \cup ToSet(t)
<1> DEFINE u == s \o t
<1>1. IsProgram(s) /\ IsProgram(t)
  BY DEF Fresh
<1>2. Joins(u, s, t)
  BY <1>1, ProgramConcat
<1> HIDE DEF u
<1>3. /\ \A i \in DOMAIN s : i \in DOMAIN u /\ u[i] = s[i]
      /\ \A k \in DOMAIN t : Len(s) + k \in DOMAIN u /\ u[Len(s) + k] = t[k]
      /\ \A i \in DOMAIN u : i \in DOMAIN s \/ \E k \in DOMAIN t : i = Len(s) + k
  BY <1>2 DEF Joins
<1>4. 1 \in DOMAIN s
  BY ProgramAt DEF Fresh
<1>5. u # <<>>
  <2>1. 1 \in DOMAIN u
    BY <1>3, <1>4
  <2> QED BY <2>1
<1>6. u[1] = s[1]
  BY <1>3, <1>4
<1>7. \A i \in DOMAIN u : i > 1 => u[i] \in B \cup ToSet(t)
  BY <1>3 DEF ToSet
<1> QED BY <1>5, <1>6, <1>7 DEF u

LEMMA ReadyRmw ==
  ASSUME NEW reg \in {"iomux", "pin"}, NEW p \in Pins, NEW set, NEW c, c.pin = p,
         reg = "pin" => "type" \notin DOMAIN set,
         reg = "iomux" /\ "func" \in DOMAIN set => c.op \in {"mux", "request"},
         c.op # "output"
  PROVE  Ready(Rmw(reg, p, set), c)
<1> DEFINE s == Rmw(reg, p, set)
           a == Read(reg, p)
           b == LockedWrite(reg, p, set)
<1>1. Fresh(s) /\ ToSet(s) = {a, b}
  BY RmwIs
<1>2. <<reg, p>> \in Words
  BY WordsOf
<1>3. a.do = "read" /\ a.reg = reg /\ a.pin = p
  BY DEF Read, Acc
<1>4. b.do = "write" /\ b.reg = reg /\ b.pin = p /\ b.val = set /\ b.off = TRUE
  BY DEF LockedWrite
<1> HIDE DEF a, b, s
<1>5. TaskAcc(a, c) /\ ~SetsType(a)
  BY <1>2, <1>3 DEF TaskAcc, CallAcc, SetsType, Word
<1>6. TaskAcc(b, c) /\ ~SetsType(b)
  BY <1>2, <1>4 DEF TaskAcc, CallAcc, SetsType, Word
<1>7. Acked(s)
  BY <1>1, <1>5, <1>6, NoTypeAcked
<1> QED BY <1>1, <1>5, <1>6, <1>7 DEF Ready, s

LEMMA ReadyBit ==
  ASSUME NEW reg \in {"oe", "outbit"}, NEW on, NEW c,
         reg = "oe" => c.op \in {"request", "input", "output"} /\ (on => c.op = "output"),
         reg = "outbit" => c.op \in {"level", "output"} /\ on = c.val,
         c.op = "output" => c.val \in BOOLEAN
  PROVE  Ready(Bit(reg, c.pin, on), c)
<1> DEFINE a == Acc("bit", reg, c.pin, on)
           s == Bit(reg, c.pin, on)
<1>1. Fresh(s) /\ ToSet(s) = {a}
  BY BitIs
<1>2. a.do = "bit" /\ a.reg = reg /\ a.pin = c.pin /\ a.val = on
  BY DEF Acc
<1> HIDE DEF a, s
<1>3. TaskAcc(a, c) /\ ~SetsType(a)
  BY <1>2 DEF TaskAcc, CallAcc, SetsType
<1>4. Acked(s)
  BY <1>1, <1>3, NoTypeAcked
<1> QED BY <1>1, <1>3, <1>4 DEF Ready, s

LEMMA RequestReady ==
  ASSUME NEW p \in Pins, NEW v
  PROVE  LET s == esp32s31_gpio_request_enable(p)
         IN /\ Ready(s, TheCall("request", p, v)) /\ s # <<>> /\ s[1].do = "bit"
            /\ \A i \in DOMAIN s : i > 1 => s[i].do # "bit"
<1> DEFINE c == TheCall("request", p, v)
           s1 == Bit("oe", p, FALSE)
           x == Acc("sel", "out", p, GpioOut)
           s2 == Sel("out", p, GpioOut)
           set == [func |-> 1, ie |-> TRUE]
           s3 == Rmw("iomux", p, set)
           u == s1 \o s2
           none == {}
<1>1. c.op = "request" /\ c.pin = p
  BY DEF TheCall
<1> HIDE DEF c
<1>2. Ready(s1, c)
  BY <1>1, ReadyBit
<1>3. Ready(s2, c) /\ ToSet(s2) = {x} /\ x.do = "sel"
  <2>1. Fresh(s2) /\ ToSet(s2) = {x}
    BY SelIs
  <2>2. x.do = "sel" /\ x.reg = "out" /\ x.pin = p
    BY DEF Acc
  <2> HIDE DEF x, s2
  <2>3. TaskAcc(x, c) /\ ~SetsType(x)
    BY <1>1, <2>2 DEF TaskAcc, CallAcc, SetsType
  <2>4. Acked(s2)
    BY <2>1, <2>3, NoTypeAcked
  <2> QED BY <2>1, <2>2, <2>3, <2>4 DEF Ready
<1>4. Ready(s3, c) /\ ToSet(s3) = {Read("iomux", p), LockedWrite("iomux", p, set)}
  <2> HIDE DEF set
  <2> QED BY <1>1, ReadyRmw, RmwIs
<1>5. Len(s1) = 1 /\ s1[1].do = "bit" /\ s1 # <<>> /\ \A i \in DOMAIN s1 : ~(i > 1)
  <2>1. Len(s1) = 1 /\ s1[1] = Acc("bit", "oe", p, FALSE) /\ Fresh(s1)
    BY BitIs
  <2> HIDE DEF s1
  <2>2. DOMAIN s1 = 1 .. 1 /\ s1 # <<>>
    BY <2>1, ProgramAt DEF Fresh
  <2> QED BY <2>1, <2>2 DEF Acc
<1> HIDE DEF s1, s2, s3, none
<1>6. Ready(u, c)
  BY <1>2, <1>3, ReadyConcat
<1>7. u # <<>> /\ u[1] = s1[1] /\ \A i \in DOMAIN u : i > 1 => u[i] \in none \cup ToSet(s2)
  BY <1>2, <1>3, <1>5, AfterFirst DEF Ready
<1> HIDE DEF u
<1> DEFINE w == u \o s3
           B == none \cup ToSet(s2)
<1>8. Ready(w, c)
  BY <1>4, <1>6, ReadyConcat
<1>9. w # <<>> /\ w[1] = u[1] /\ \A i \in DOMAIN w : i > 1 => w[i] \in B \cup ToSet(s3)
  <2> HIDE DEF B
  <2> QED BY <1>4, <1>6, <1>7, AfterFirst DEF Ready, B
<1> HIDE DEF w
<1>10. \A a \in B \cup ToSet(s3) : a.do # "bit"
  BY <1>3, <1>4 DEF Read, Acc, LockedWrite, none
<1>11. esp32s31_gpio_request_enable(p) = w
  BY DEF esp32s31_gpio_request_enable, w, u, s1, s2, s3
<1> QED BY <1>5, <1>7, <1>8, <1>9, <1>10, <1>11 DEF c

LEMMA OutputReady ==
  ASSUME NEW p \in Pins, NEW high \in BOOLEAN
  PROVE  LET s == esp32s31_gpio_direction_output(p, high)
         IN /\ Ready(s, TheCall("output", p, high)) /\ s # <<>> /\ s[1].reg = "outbit"
            /\ \A i \in DOMAIN s : i > 1 => s[i].reg = "oe"
<1> DEFINE c == TheCall("output", p, high)
           s1 == Bit("outbit", p, high)
           x == Acc("bit", "oe", p, TRUE)
           s2 == Bit("oe", p, TRUE)
           none == {}
<1>1. c.op = "output" /\ c.pin = p /\ c.val = high
  BY DEF TheCall
<1> HIDE DEF c
<1>2. Ready(s1, c)
  BY <1>1, ReadyBit
<1>3. Ready(s2, c) /\ ToSet(s2) = {x}
  BY <1>1, ReadyBit, BitIs
<1>4. x.reg = "oe"
  BY DEF Acc
<1>5. s1[1].reg = "outbit" /\ s1 # <<>> /\ \A i \in DOMAIN s1 : ~(i > 1)
  <2>1. Len(s1) = 1 /\ s1[1] = Acc("bit", "outbit", p, high) /\ Fresh(s1)
    BY BitIs
  <2> HIDE DEF s1
  <2>2. DOMAIN s1 = 1 .. 1 /\ s1 # <<>>
    BY <2>1, ProgramAt DEF Fresh
  <2> QED BY <2>1, <2>2 DEF Acc
<1> HIDE DEF s1, s2, none, x
<1> DEFINE u == s1 \o s2
<1>6. Ready(u, c)
  BY <1>2, <1>3, ReadyConcat
<1>7. u # <<>> /\ u[1] = s1[1] /\ \A i \in DOMAIN u : i > 1 => u[i] \in none \cup ToSet(s2)
  BY <1>2, <1>3, <1>5, AfterFirst DEF Ready
<1> HIDE DEF u
<1>8. \A i \in DOMAIN u : i > 1 => u[i].reg = "oe"
  BY <1>3, <1>4, <1>7 DEF none
<1>9. esp32s31_gpio_direction_output(p, high) = u
  BY DEF esp32s31_gpio_direction_output, esp32s31_gpio_set, u, s1, s2
<1> QED BY <1>5, <1>6, <1>7, <1>8, <1>9 DEF c

LEMMA ConfigReady ==
  ASSUME NEW p \in Pins, NEW c \in Configs, NEW v
  PROVE  Ready(esp32s31_config_one(p, c), TheCall("config", p, v))
<1> DEFINE k == TheCall("config", p, v)
<1>1. k.op = "config" /\ k.pin = p
  BY DEF TheCall
<1> HIDE DEF k
<1>2. Ready(<<>>, k)
  <2>1. \A a : a \notin ToSet(<<>>)
    BY FreshNone
  <2> QED BY <2>1, FreshNone DEF Ready
<1>3. CASE c.param = "bias"
  <2> DEFINE set == [wpu |-> c.arg = "up", wpd |-> c.arg = "down"]
  <2>1. DOMAIN set = {"wpu", "wpd"}
    OBVIOUS
  <2>2. esp32s31_config_one(p, c) = Rmw("iomux", p, set)
    BY <1>3 DEF esp32s31_config_one
  <2> HIDE DEF set
  <2> QED BY <1>1, <2>1, <2>2, ReadyRmw DEF k
<1>4. CASE c.param = "input"
  <2> DEFINE set == [ie |-> c.arg]
  <2>1. DOMAIN set = {"ie"}
    OBVIOUS
  <2>2. esp32s31_config_one(p, c) = Rmw("iomux", p, set)
    BY <1>4 DEF esp32s31_config_one
  <2> HIDE DEF set
  <2> QED BY <1>1, <2>1, <2>2, ReadyRmw DEF k
<1>5. CASE c.param = "strength"
  <2> DEFINE set == [drv |-> CHOOSE i \in esp32s31_drive_field(c.arg) : TRUE]
  <2>1. DOMAIN set = {"drv"}
    OBVIOUS
  <2>2. esp32s31_config_one(p, c)
          = IF esp32s31_drive_field(c.arg) = {} THEN <<>> ELSE Rmw("iomux", p, set)
    BY <1>5 DEF esp32s31_config_one
  <2> HIDE DEF set
  <2>3. Ready(Rmw("iomux", p, set), k)
    BY <1>1, <2>1, ReadyRmw
  <2> QED BY <1>2, <2>2, <2>3 DEF k
<1>6. CASE c.param = "drain"
  <2> DEFINE set == [od |-> c.arg]
  <2>1. DOMAIN set = {"od"}
    OBVIOUS
  <2>2. esp32s31_config_one(p, c) = Rmw("pin", p, set)
    BY <1>6 DEF esp32s31_config_one
  <2> HIDE DEF set
  <2> QED BY <1>1, <2>1, <2>2, ReadyRmw DEF k
<1> QED BY <1>3, <1>4, <1>5, <1>6, PinsAssumption

(* Locking a program turns interrupts off before its second access.        *)
LEMMA ReadyLocked ==
  ASSUME NEW s, NEW c, Fresh(s), Acked(s), \A a \in ToSet(s) : CallAcc(a, c),
         s # <<>>, s[1].do = "read"
  PROVE  Ready(Locked(s), c)
<1> DEFINE u == Locked(s)
<1>1. /\ Fresh(u) /\ DOMAIN u = DOMAIN s /\ Acked(u) /\ u[1] = s[1]
      /\ \A i \in DOMAIN s : SameBut(u[i], s[i]) /\ (i > 1 => u[i].off = TRUE)
  BY FreshLocked
<1>2. DOMAIN s = 1 .. Len(s) /\ Len(s) \in Nat
  BY ProgramAt DEF Fresh
<1> HIDE DEF u
<1>3. ASSUME NEW i \in DOMAIN u PROVE TaskAcc(u[i], c)
  <2>1. CallAcc(s[i], c) /\ SameBut(u[i], s[i])
    BY <1>1 DEF ToSet
  <2>2. CallAcc(u[i], c)
    BY <2>1 DEF CallAcc, SameBut, Word
  <2>3. u[i].do \in {"write", "ack"} => u[i].off = TRUE
    <3>1. CASE i = 1
      BY <1>1, <3>1
    <3>2. CASE i # 1
      <4>1. i > 1
        BY <1>1, <1>2, <3>2
      <4> QED BY <1>1, <4>1
    <3> QED BY <3>1, <3>2
  <2> QED BY <2>2, <2>3 DEF TaskAcc
<1>4. \A a \in ToSet(u) : TaskAcc(a, c)
  BY <1>3 DEF ToSet
<1> QED BY <1>1, <1>4 DEF Ready, u

LEMMA SetTypeIs ==
  ASSUME NEW p \in Pins, NEW t, NEW c, c.pin = p, c.op # "output"
  PROVE  LET s == esp32s31_irq_set_type(p, t)
         IN /\ Fresh(s) /\ Acked(s) /\ s # <<>> /\ s[1].do = "read"
            /\ \A a \in ToSet(s) : CallAcc(a, c)
<1> DEFINE set == [type |-> t]
           s1 == Rmw("pin", p, set)
           s2 == esp32s31_irq_ack(p)
           s == s1 \o s2
           r == Read("pin", p)
           w == LockedWrite("pin", p, set)
           k == Acc("ack", "status", p, 0)
<1>1. Fresh(s1) /\ DOMAIN s1 = 1 .. 2 /\ Len(s1) = 2 /\ s1[1] = r /\ s1[2] = w /\ ToSet(s1) = {r, w}
  <2> HIDE DEF set
  <2> QED BY RmwIs
<1>2. Fresh(s2) /\ Len(s2) = 1 /\ s2[1] = k /\ ToSet(s2) = {k}
  BY AckIs
<1> HIDE DEF s1, s2
<1>3. Fresh(s) /\ Joins(s, s1, s2)
  BY <1>1, <1>2, FreshConcat
<1>4. DOMAIN s2 = 1 .. 1
  BY <1>2, ProgramAt DEF Fresh
<1> HIDE DEF s
<1>5. Len(s) = 3 /\ DOMAIN s = 1 .. 3
  BY <1>1, <1>2, <1>3, ProgramAt DEF Joins, Fresh
<1>6. s[1] = r /\ s[2] = w
  BY <1>1, <1>3 DEF Joins
<1>7. s[3] = k
  <2>1. 1 \in DOMAIN s2 /\ Len(s1) + 1 = 3
    BY <1>1, <1>4
  <2> QED BY <1>2, <1>3, <2>1 DEF Joins
<1>8. ToSet(s) = {r, w, k}
  BY <1>1, <1>2, <1>3 DEF Joins
<1>9. /\ r.do = "read" /\ r.reg = "pin" /\ r.pin = p
      /\ w.do = "write" /\ w.reg = "pin" /\ w.pin = p
      /\ k.do = "ack" /\ k.pin = p
  BY DEF Read, Acc, LockedWrite
<1> HIDE DEF r, w, k
<1>10. CallAcc(r, c) /\ CallAcc(w, c) /\ CallAcc(k, c)
  BY <1>9, WordsOf DEF CallAcc, Word
<1>11. Acked(s)
  <2> SUFFICES ASSUME NEW i \in DOMAIN s, SetsType(s[i])
               PROVE  i + 1 \in DOMAIN s /\ s[i + 1].do = "ack" /\ s[i + 1].pin = s[i].pin
    BY DEF Acked
  <2>1. i = 1 \/ i = 2 \/ i = 3
    BY <1>5
  <2>2. i = 2
    BY <1>6, <1>7, <1>9, <2>1 DEF SetsType
  <2> QED BY <1>5, <1>6, <1>7, <1>9, <2>2
<1>12. s # <<>>
  BY <1>3, <1>5, ProgramAt DEF Fresh
<1>13. esp32s31_irq_set_type(p, t) = s
  BY DEF esp32s31_irq_set_type, s, s1, s2
<1> QED BY <1>3, <1>6, <1>8, <1>9, <1>10, <1>11, <1>12, <1>13

LEMMA IrqReady ==
  ASSUME NEW p \in Pins, NEW t, NEW v
  PROVE  /\ Ready(Locked(esp32s31_irq_set_type(p, t) \o esp32s31_irq_unmask(p)),
                  TheCall("irq", p, v))
         /\ Ready(Locked(esp32s31_irq_set_type(p, t)), TheCall("type", p, v))
         /\ Ready(Locked(esp32s31_irq_mask(p)), TheCall("noirq", p, v))
<1> DEFINE on == [ena |-> TRUE]
           no == [ena |-> FALSE]
           s == esp32s31_irq_set_type(p, t)
           m == Rmw("pin", p, on)
           n == Rmw("pin", p, no)
<1>1. DOMAIN on = {"ena"} /\ DOMAIN no = {"ena"}
  OBVIOUS
<1>2. esp32s31_irq_unmask(p) = m /\ esp32s31_irq_mask(p) = n
  BY DEF esp32s31_irq_unmask, esp32s31_irq_mask
<1> HIDE DEF on, no
<1>3. ASSUME NEW c, c.pin = p, c.op # "output"
      PROVE  /\ Fresh(s) /\ Acked(s) /\ s # <<>> /\ s[1].do = "read"
             /\ \A a \in ToSet(s) : CallAcc(a, c)
             /\ Ready(m, c) /\ Ready(n, c)
  <2>1. Ready(m, c) /\ Ready(n, c)
    BY <1>1, <1>3, ReadyRmw
  <2> QED BY <1>3, <2>1, SetTypeIs
<1>4. n # <<>> /\ n[1].do = "read"
  <2>1. DOMAIN n = 1 .. 2 /\ n[1] = Read("pin", p)
    BY RmwIs
  <2> HIDE DEF n
  <2> QED BY <2>1 DEF Read, Acc
<1> HIDE DEF s, m, n
<1>5. ASSUME NEW c, c.pin = p, c.op # "output" PROVE Ready(Locked(s), c) /\ Ready(Locked(n), c)
  <2>1. /\ Fresh(s) /\ Acked(s) /\ s # <<>> /\ s[1].do = "read"
        /\ \A a \in ToSet(s) : CallAcc(a, c)
        /\ Ready(n, c)
    BY <1>3, <1>5
  <2>2. Ready(Locked(s), c)
    BY <2>1, ReadyLocked
  <2>3. Fresh(n) /\ Acked(n) /\ \A a \in ToSet(n) : CallAcc(a, c)
    BY <2>1 DEF Ready, TaskAcc
  <2> QED BY <1>4, <2>2, <2>3, ReadyLocked
<1>6. ASSUME NEW c, c.pin = p, c.op # "output" PROVE Ready(Locked(s \o m), c)
  <2>1. /\ Fresh(s) /\ Acked(s) /\ s # <<>> /\ s[1].do = "read"
        /\ \A a \in ToSet(s) : CallAcc(a, c)
        /\ Fresh(m) /\ Acked(m) /\ \A a \in ToSet(m) : CallAcc(a, c)
    <3>1. Ready(m, c)
      BY <1>3, <1>6
    <3>2. Fresh(m) /\ Acked(m) /\ \A a \in ToSet(m) : CallAcc(a, c)
      BY <3>1 DEF Ready, TaskAcc
    <3> QED BY <1>3, <1>6, <3>2
  <2>2. Fresh(s \o m) /\ Joins(s \o m, s, m) /\ Acked(s \o m)
    BY <2>1, FreshConcat, AckedConcat
  <2> DEFINE u == s \o m
  <2> HIDE DEF u
  <2>3. Joins(u, s, m) /\ Fresh(u) /\ Acked(u)
    BY <2>2 DEF u
  <2>4. 1 \in DOMAIN s
    BY <2>1, ProgramAt DEF Fresh
  <2>5. 1 \in DOMAIN u /\ u[1] = s[1]
    BY <2>3, <2>4 DEF Joins
  <2>6. u # <<>>
    BY <2>5
  <2>7. \A a \in ToSet(u) : CallAcc(a, c)
    BY <2>1, <2>3 DEF Joins
  <2>8. Ready(Locked(u), c)
    BY <2>1, <2>3, <2>5, <2>6, <2>7, ReadyLocked
  <2> QED BY <2>8 DEF u
<1>7. /\ TheCall("irq", p, v).pin = p /\ TheCall("irq", p, v).op = "irq"
      /\ TheCall("type", p, v).pin = p /\ TheCall("type", p, v).op = "type"
      /\ TheCall("noirq", p, v).pin = p /\ TheCall("noirq", p, v).op = "noirq"
  BY DEF TheCall
<1> QED BY <1>2, <1>5, <1>6, <1>7 DEF s

-----------------------------------------------------------------------------
(* The handler's programs.                                                 *)
HandlerReady(s) == Fresh(s) /\ Reported(s) /\ \A a \in ToSet(s) : HandlerAcc(a)

LEMMA ReportedBy ==
  ASSUME NEW s, NEW t, NEW p, Fresh(s), Fresh(t), Len(t) = 1, t[1].do = "event", t[1].pin = p,
         \A a \in ToSet(s) : a.do = "ack" => a.pin = p
  PROVE  Reported(s \o t)
<1> DEFINE u == s \o t
<1>1. Joins(u, s, t)
  BY FreshConcat
<1>2. /\ Len(s) \in Nat /\ DOMAIN s = 1 .. Len(s) /\ DOMAIN t = 1 .. 1
  BY ProgramAt DEF Fresh
<1> HIDE DEF u
<1>3. /\ \A i \in DOMAIN s : i \in DOMAIN u /\ u[i] = s[i]
      /\ \A k \in DOMAIN t : Len(s) + k \in DOMAIN u /\ u[Len(s) + k] = t[k]
      /\ \A i \in DOMAIN u : i \in DOMAIN s \/ \E k \in DOMAIN t : i = Len(s) + k
  BY <1>1 DEF Joins
<1>4. Len(s) + 1 \in DOMAIN u /\ u[Len(s) + 1] = t[1]
  BY <1>2, <1>3
<1>5. ASSUME NEW i \in DOMAIN u, u[i].do = "ack" PROVE u[i].pin = p /\ Len(s) + 1 > i
  <2>1. i # Len(s) + 1
    BY <1>4, <1>5
  <2>2. i \in DOMAIN s
    BY <1>2, <1>3, <2>1
  <2>3. u[i] = s[i] /\ s[i] \in ToSet(s)
    BY <1>3, <2>2 DEF ToSet
  <2> QED BY <1>2, <1>5, <2>2, <2>3
<1>6. Reported(u)
  BY <1>4, <1>5 DEF Reported
<1> QED BY <1>6 DEF u

LEMMA ReportedThen ==
  ASSUME NEW s, NEW t, Fresh(s), Fresh(t), Reported(s), \A a \in ToSet(t) : a.do # "ack"
  PROVE  Reported(s \o t)
<1> DEFINE u == s \o t
<1>1. Joins(u, s, t)
  BY FreshConcat
<1> HIDE DEF u
<1>2. /\ \A i \in DOMAIN s : i \in DOMAIN u /\ u[i] = s[i]
      /\ \A k \in DOMAIN t : Len(s) + k \in DOMAIN u /\ u[Len(s) + k] = t[k]
      /\ \A i \in DOMAIN u : i \in DOMAIN s \/ \E k \in DOMAIN t : i = Len(s) + k
  BY <1>1 DEF Joins
<1>3. ASSUME NEW i \in DOMAIN u, u[i].do = "ack"
      PROVE  \E j \in DOMAIN u : j > i /\ u[j].do = "event" /\ u[j].pin = u[i].pin
  <2>1. i \in DOMAIN s
    BY <1>2, <1>3 DEF ToSet
  <2>2. PICK j \in DOMAIN s : j > i /\ s[j].do = "event" /\ s[j].pin = s[i].pin
    BY <1>2, <1>3, <2>1 DEF Reported
  <2> QED BY <1>2, <2>1, <2>2
<1>4. Reported(u)
  BY <1>3 DEF Reported
<1> QED BY <1>4 DEF u

LEMMA FlowReady ==
  ASSUME NEW p \in Pins
  PROVE  HandlerReady(Flow(p))
<1> DEFINE on == [ena |-> TRUE]
           no == [ena |-> FALSE]
           m == Rmw("pin", p, no)
           n == Rmw("pin", p, on)
           k == Acc("ack", "status", p, 0)
           e == Acc("event", Nothing, p, 0)
           a == esp32s31_irq_ack(p)
           t == <<e>>
           Ok(s) == Fresh(s) /\ \A x \in ToSet(s) : HandlerAcc(x)
           NoAck(s) == \A x \in ToSet(s) : x.do # "ack"
<1>1. DOMAIN on = {"ena"} /\ DOMAIN no = {"ena"}
  OBVIOUS
<1> HIDE DEF on, no
<1>2. k.do = "ack" /\ k.pin = p /\ e.do = "event" /\ e.pin = p /\ IsAcc(e)
  BY DEF Acc, IsAcc
<1>3. /\ Read("pin", p).do = "read" /\ Read("pin", p).reg = "pin" /\ Read("pin", p).pin = p
      /\ LockedWrite("pin", p, on).do = "write" /\ LockedWrite("pin", p, on).reg = "pin"
      /\ LockedWrite("pin", p, on).pin = p /\ LockedWrite("pin", p, on).val = on
      /\ LockedWrite("pin", p, no).do = "write" /\ LockedWrite("pin", p, no).reg = "pin"
      /\ LockedWrite("pin", p, no).pin = p /\ LockedWrite("pin", p, no).val = no
  BY DEF Read, Acc, LockedWrite
<1>4. Ok(m) /\ NoAck(m)
  <2>1. Fresh(m) /\ ToSet(m) = {Read("pin", p), LockedWrite("pin", p, no)}
    BY RmwIs
  <2> HIDE DEF m
  <2> QED BY <1>1, <1>3, <2>1 DEF HandlerAcc
<1>5. Ok(n) /\ NoAck(n)
  <2>1. Fresh(n) /\ ToSet(n) = {Read("pin", p), LockedWrite("pin", p, on)}
    BY RmwIs
  <2> HIDE DEF n
  <2> QED BY <1>1, <1>3, <2>1 DEF HandlerAcc
<1> HIDE DEF m, n, k, e
<1>6. Ok(a) /\ ToSet(a) = {k}
  <2>1. Fresh(a) /\ ToSet(a) = {k}
    BY AckIs DEF k
  <2> QED BY <1>2, <2>1 DEF HandlerAcc
<1>7. Ok(t) /\ ToSet(t) = {e} /\ Len(t) = 1 /\ t[1] = e
  <2>1. Fresh(t) /\ ToSet(t) = {e} /\ Len(t) = 1 /\ t[1] = e
    BY <1>2, FreshOne
  <2> HIDE DEF t
  <2> QED BY <1>2, <2>1 DEF HandlerAcc
<1> HIDE DEF a, t
<1>8. ASSUME NEW x, NEW y, Ok(x), Ok(y)
      PROVE  Ok(x \o y) /\ ToSet(x \o y) = ToSet(x) \cup ToSet(y)
  <2>1. Fresh(x \o y) /\ ToSet(x \o y) = ToSet(x) \cup ToSet(y)
    BY <1>8, FreshConcat DEF Joins
  <2> QED BY <1>8, <2>1
<1>9. Ok(a \o t) /\ Reported(a \o t)
  BY <1>2, <1>6, <1>7, <1>8, ReportedBy
<1>10. Ok((m \o a) \o t) /\ Reported((m \o a) \o t)
  <2>1. Ok(m \o a) /\ ToSet(m \o a) = ToSet(m) \cup ToSet(a)
    BY <1>4, <1>6, <1>8
  <2>2. \A x \in ToSet(m \o a) : x.do = "ack" => x.pin = p
    BY <1>2, <1>4, <1>6, <2>1
  <2> QED BY <1>2, <1>7, <1>8, <2>1, <2>2, ReportedBy
<1>11. Ok(((m \o a) \o t) \o n) /\ Reported(((m \o a) \o t) \o n)
  BY <1>5, <1>8, <1>10, ReportedThen
<1>12. Flow(p) = IF IsLevel(Type(p)) THEN ((m \o a) \o t) \o n ELSE a \o t
  BY DEF Flow, esp32s31_irq_mask, esp32s31_irq_unmask, m, n, a, t, e, on, no
<1> QED BY <1>9, <1>11, <1>12 DEF HandlerReady

-----------------------------------------------------------------------------
(* The tool's programs.                                                    *)
UpdateAccs(p, set) == {Read("iomux", p), Write("iomux", p, set)}

LEMMA UpdateIs ==
  ASSUME NEW p, NEW set
  PROVE  Fresh(iomux_update(p, set)) /\ ToSet(iomux_update(p, set)) = UpdateAccs(p, set)
<1> DEFINE a == Read("iomux", p)
           b == Write("iomux", p, set)
<1>1. IsAcc(a) /\ IsAcc(b) /\ a.do = "read" /\ Word(a) = Word(b)
  BY DEF IsAcc, Read, Write, Acc, Word
<1> HIDE DEF a, b
<1>2. Fresh(<<a, b>>) /\ ToSet(<<a, b>>) = {a, b}
  BY <1>1, FreshPair
<1> QED BY <1>2 DEF iomux_update, UpdateAccs, a, b

LEMMA CnntIs ==
  ASSUME NEW p, NEW f
  PROVE  /\ Fresh(cnnt_select(p, f))
         /\ \A a \in ToSet(cnnt_select(p, f)) :
              a.do \in {"read", "write"} /\ a.reg = "cnnt" /\ a.pin = 0
<1>1. CASE CnntField(p, f) = Nothing
  BY <1>1, FreshNone DEF cnnt_select
<1>2. CASE CnntField(p, f) # Nothing
  <2> DEFINE set == [x \in {CnntField(p, f)} |-> TRUE]
             a == Read("cnnt", 0)
             b == Write("cnnt", 0, set)
             s == <<a, b>>
  <2>1. cnnt_select(p, f) = s
    BY <1>2 DEF cnnt_select
  <2> HIDE DEF set
  <2>2. /\ IsAcc(a) /\ IsAcc(b) /\ a.do = "read" /\ Word(a) = Word(b)
        /\ a.reg = "cnnt" /\ b.reg = "cnnt" /\ b.do = "write" /\ a.pin = 0 /\ b.pin = 0
    BY DEF IsAcc, Read, Write, Acc, Word
  <2> HIDE DEF a, b
  <2>3. Fresh(s) /\ ToSet(s) = {a, b}
    BY <2>2, FreshPair
  <2> HIDE DEF s
  <2> QED BY <2>1, <2>2, <2>3
<1> QED BY <1>1, <1>2

ModeSet(mode) == IF mode \in Range(Alts) THEN [func |-> Func(mode), ie |-> TRUE]
                 ELSE [func |-> 1, ie |-> mode # "no"]
SelAcc(p) == Acc("sel", "out", p, GpioOut)
OeAcc(p, mode) == Acc("bit", "oe", p, mode = "op")

LEMMA ModeIs ==
  ASSUME NEW p, NEW mode
  PROVE  LET s == pin_set_mode(p, mode)
             A == ToSet(s)
         IN /\ Fresh(s) /\ UpdateAccs(p, ModeSet(mode)) \subseteq A
            /\ mode \notin Range(Alts) => SelAcc(p) \in A /\ OeAcc(p, mode) \in A
            /\ \A a \in A : \/ a.do \in {"read", "write"} /\ a.reg = "cnnt" /\ a.pin = 0
                            \/ mode \notin Range(Alts) /\ a \in {SelAcc(p), OeAcc(p, mode)}
                            \/ a \in UpdateAccs(p, ModeSet(mode))
<1> DEFINE set == ModeSet(mode)
           s3 == iomux_update(p, set)
<1>1. Fresh(s3) /\ ToSet(s3) = UpdateAccs(p, set)
  <2> HIDE DEF set
  <2> QED BY UpdateIs
<1>2. CASE mode \in Range(Alts)
  <2> DEFINE s1 == cnnt_select(p, Func(mode))
             s == s1 \o s3
  <2>1. pin_set_mode(p, mode) = s
    BY <1>2 DEF pin_set_mode, ModeSet
  <2>2. Fresh(s1) /\ \A a \in ToSet(s1) : a.do \in {"read", "write"} /\ a.reg = "cnnt" /\ a.pin = 0
    BY CnntIs
  <2> HIDE DEF s1, s3, set
  <2>3. Fresh(s) /\ ToSet(s) = ToSet(s1) \cup ToSet(s3)
    BY <1>1, <2>2, FreshConcat DEF Joins
  <2> HIDE DEF s
  <2> QED BY <1>1, <1>2, <2>1, <2>2, <2>3 DEF set
<1>3. CASE mode \notin Range(Alts)
  <2> DEFINE s1 == Sel("out", p, GpioOut)
             s2 == Bit("oe", p, mode = "op")
             s == (s1 \o s2) \o s3
  <2>1. pin_set_mode(p, mode) = s
    BY <1>3 DEF pin_set_mode, ModeSet
  <2>2. Fresh(s1) /\ ToSet(s1) = {SelAcc(p)} /\ Fresh(s2) /\ ToSet(s2) = {OeAcc(p, mode)}
    BY SelIs, BitIs DEF SelAcc, OeAcc
  <2> HIDE DEF s1, s2, s3, set
  <2>3. Fresh(s1 \o s2) /\ ToSet(s1 \o s2) = ToSet(s1) \cup ToSet(s2)
    BY <2>2, FreshConcat DEF Joins
  <2>4. Fresh(s) /\ ToSet(s) = ToSet(s1 \o s2) \cup ToSet(s3)
    BY <1>1, <2>3, FreshConcat DEF Joins
  <2> HIDE DEF s
  <2> QED BY <1>1, <1>3, <2>1, <2>2, <2>3, <2>4 DEF set
<1> QED BY <1>2, <1>3

PullSet(pull) == [wpu |-> pull = "up", wpd |-> pull = "down"]
OutAcc(p, opt) == Acc("bit", "outbit", p, opt.drive = "dh")
HasMatrix(opt) == opt.mode # Nothing /\ opt.mode \notin Range(Alts)

SetAcc(a, p, opt) ==
  \/ opt.drive # Nothing /\ a = OutAcc(p, opt)
  \/ a.do \in {"read", "write"} /\ a.reg = "cnnt" /\ a.pin = 0
  \/ HasMatrix(opt) /\ a \in {SelAcc(p), OeAcc(p, opt.mode)}
  \/ opt.mode # Nothing /\ a \in UpdateAccs(p, ModeSet(opt.mode))
  \/ opt.pull # Nothing /\ a \in UpdateAccs(p, PullSet(opt.pull))

LEMMA SetIs ==
  ASSUME NEW p, NEW opt
  PROVE  LET s == SetProgram(p, opt)
         IN /\ Fresh(s) /\ \A a \in ToSet(s) : SetAcc(a, p, opt)
            /\ opt.drive # Nothing => OutAcc(p, opt) \in ToSet(s)
            /\ HasMatrix(opt) => SelAcc(p) \in ToSet(s) /\ OeAcc(p, opt.mode) \in ToSet(s)
            /\ opt.mode # Nothing => UpdateAccs(p, ModeSet(opt.mode)) \subseteq ToSet(s)
            /\ opt.pull # Nothing => UpdateAccs(p, PullSet(opt.pull)) \subseteq ToSet(s)
            /\ \A i \in DOMAIN s : i > 1 => s[i].reg # "outbit"
<1> DEFINE none == <<>>
           s1 == IF opt.drive # Nothing THEN Bit("outbit", p, opt.drive = "dh") ELSE none
           s2 == IF opt.mode # Nothing THEN pin_set_mode(p, opt.mode) ELSE none
           s3 == IF opt.pull # Nothing THEN pin_set_pull(p, opt.pull) ELSE none
           t == s1 \o s2
           s == t \o s3
<1>1. SetProgram(p, opt) = s
  BY DEF SetProgram
<1>2. Fresh(none) /\ ToSet(none) = {}
  BY FreshNone
<1> HIDE DEF none
<1>3. /\ Fresh(s1) /\ (\A i \in DOMAIN s1 : ~(i > 1))
      /\ ToSet(s1) = IF opt.drive # Nothing THEN {OutAcc(p, opt)} ELSE {}
  <2>1. CASE opt.drive # Nothing
    <3>1. Fresh(s1) /\ ToSet(s1) = {OutAcc(p, opt)} /\ Len(s1) = 1
      BY <2>1, BitIs DEF OutAcc
    <3> HIDE DEF s1
    <3>2. DOMAIN s1 = 1 .. 1
      BY <3>1, ProgramAt DEF Fresh
    <3> QED BY <2>1, <3>1, <3>2
  <2>2. CASE opt.drive = Nothing
    <3>1. s1 = none
      BY <2>2
    <3>2. DOMAIN none = {}
      BY DEF none
    <3> QED BY <1>2, <2>2, <3>1, <3>2
  <2> QED BY <2>1, <2>2
<1>4. /\ Fresh(s2)
      /\ opt.mode # Nothing => UpdateAccs(p, ModeSet(opt.mode)) \subseteq ToSet(s2)
      /\ HasMatrix(opt) => SelAcc(p) \in ToSet(s2) /\ OeAcc(p, opt.mode) \in ToSet(s2)
      /\ \A a \in ToSet(s2) :
            \/ a.do \in {"read", "write"} /\ a.reg = "cnnt" /\ a.pin = 0
            \/ HasMatrix(opt) /\ a \in {SelAcc(p), OeAcc(p, opt.mode)}
            \/ opt.mode # Nothing /\ a \in UpdateAccs(p, ModeSet(opt.mode))
  <2>1. CASE opt.mode # Nothing
    <3> DEFINE m == opt.mode
    <3>1. s2 = pin_set_mode(p, m)
      BY <2>1
    <3> HIDE DEF s2
    <3>2. HasMatrix(opt) <=> m \notin Range(Alts)
      BY <2>1 DEF HasMatrix
    <3> HIDE DEF m
    <3>3. /\ Fresh(s2) /\ UpdateAccs(p, ModeSet(m)) \subseteq ToSet(s2)
          /\ m \notin Range(Alts) => SelAcc(p) \in ToSet(s2) /\ OeAcc(p, m) \in ToSet(s2)
          /\ \A a \in ToSet(s2) : \/ a.do \in {"read", "write"} /\ a.reg = "cnnt" /\ a.pin = 0
                                  \/ m \notin Range(Alts) /\ a \in {SelAcc(p), OeAcc(p, m)}
                                  \/ a \in UpdateAccs(p, ModeSet(m))
      BY <3>1, ModeIs
    <3> QED BY <2>1, <3>2, <3>3 DEF m
  <2>2. CASE opt.mode = Nothing
    BY <1>2, <2>2 DEF HasMatrix
  <2> QED BY <2>1, <2>2
<1>5. /\ Fresh(s3)
      /\ ToSet(s3) = IF opt.pull # Nothing THEN UpdateAccs(p, PullSet(opt.pull)) ELSE {}
  <2>1. CASE opt.pull # Nothing
    <3>1. s3 = iomux_update(p, PullSet(opt.pull))
      BY <2>1 DEF pin_set_pull, PullSet
    <3> HIDE DEF s3
    <3> QED BY <2>1, <3>1, UpdateIs
  <2>2. CASE opt.pull = Nothing
    BY <1>2, <2>2
  <2> QED BY <2>1, <2>2
<1> HIDE DEF s1, s2, s3
<1>6. Fresh(t) /\ Joins(t, s1, s2)
  BY <1>3, <1>4, FreshConcat
<1> HIDE DEF t
<1>7. Fresh(s) /\ Joins(s, t, s3)
  BY <1>5, <1>6, FreshConcat
<1> HIDE DEF s
<1>8. ToSet(s) = (ToSet(s1) \cup ToSet(s2)) \cup ToSet(s3)
  BY <1>6, <1>7 DEF Joins
<1>9. \A a \in ToSet(s) : SetAcc(a, p, opt)
  BY <1>3, <1>4, <1>5, <1>8 DEF SetAcc
<1>10. \A a \in ToSet(s2) \cup ToSet(s3) : a.reg # "outbit"
  BY <1>4, <1>5 DEF UpdateAccs, SelAcc, OeAcc, Read, Write, Acc
<1>11. ASSUME NEW i \in DOMAIN s, i > 1 PROVE s[i].reg # "outbit"
  <2>1. CASE i \in DOMAIN t
    <3>1. s[i] = t[i]
      BY <1>7, <2>1 DEF Joins
    <3>2. i \notin DOMAIN s1
      BY <1>3, <1>11
    <3>3. PICK k \in DOMAIN s2 : i = Len(s1) + k
      BY <1>6, <2>1, <3>2 DEF Joins
    <3>4. t[i] = s2[k] /\ s2[k] \in ToSet(s2)
      BY <1>6, <3>3 DEF Joins, ToSet
    <3> QED BY <1>10, <3>1, <3>4
  <2>2. CASE i \notin DOMAIN t
    <3>1. PICK k \in DOMAIN s3 : i = Len(t) + k
      BY <1>7, <2>2 DEF Joins
    <3>2. s[i] = s3[k] /\ s3[k] \in ToSet(s3)
      BY <1>7, <3>1 DEF Joins, ToSet
    <3> QED BY <1>10, <3>2
  <2> QED BY <2>1, <2>2
<1>12. /\ opt.drive # Nothing => OutAcc(p, opt) \in ToSet(s)
       /\ HasMatrix(opt) => SelAcc(p) \in ToSet(s) /\ OeAcc(p, opt.mode) \in ToSet(s)
       /\ opt.mode # Nothing => UpdateAccs(p, ModeSet(opt.mode)) \subseteq ToSet(s)
       /\ opt.pull # Nothing => UpdateAccs(p, PullSet(opt.pull)) \subseteq ToSet(s)
  BY <1>3, <1>4, <1>5, <1>8
<1> QED BY <1>1, <1>7, <1>9, <1>11, <1>12

(* The header tables name GPIOs of the chip.                               *)
LEMMA HeadersInRange ==
  /\ \A i \in DOMAIN wroom3 : LET r == wroom3[i] IN
        r[3] = NoGpio \/ \A n \in r[1] .. r[2] : r[3] + (n - r[1]) \in 0 .. 61
  /\ \A i \in DOMAIN j2 : LET r == j2[i] IN
        r[3] = NoGpio \/ \A n \in r[1] .. r[2] : r[3] + (n - r[1]) \in 0 .. 61
<1>1. DOMAIN wroom3 = 1 .. 15 /\ DOMAIN j2 = 1 .. 27
  BY DEF wroom3, j2
<1>2. ASSUME NEW i \in 1 .. 15
      PROVE  wroom3[i][3] = NoGpio
             \/ \A n \in wroom3[i][1] .. wroom3[i][2] : wroom3[i][3] + (n - wroom3[i][1]) \in 0 .. 61
  BY DEF wroom3, NoGpio
<1>3. ASSUME NEW i \in 1 .. 27
      PROVE  j2[i][3] = NoGpio
             \/ \A n \in j2[i][1] .. j2[i][2] : j2[i][3] + (n - j2[i][1]) \in 0 .. 61
  BY DEF j2, NoGpio
<1> QED BY <1>1, <1>2, <1>3

LEMMA NumInRange ==
  ASSUME NEW num, NEW header, num_to_gpio(num, header) # NoGpio
  PROVE  num_to_gpio(num, header) \in 0 .. 61
<1>1. ASSUME NEW hdr, pad_gpio(hdr, num) # NoGpio,
             \A i \in DOMAIN hdr : LET r == hdr[i] IN
               r[3] = NoGpio \/ \A n \in r[1] .. r[2] : r[3] + (n - r[1]) \in 0 .. 61
      PROVE  pad_gpio(hdr, num) \in 0 .. 61
  <2> DEFINE hit == {i \in DOMAIN hdr : num \in hdr[i][1] .. hdr[i][2]}
             c == CHOOSE i \in hit : TRUE
  <2>1. pad_gpio(hdr, num) = IF hit = {} \/ hdr[c][3] = NoGpio THEN NoGpio
                             ELSE hdr[c][3] + (num - hdr[c][1])
    BY DEF pad_gpio
  <2>2. hit # {} /\ hdr[c][3] # NoGpio
    BY <1>1, <2>1
  <2>3. c \in hit
    BY <2>2
  <2> HIDE DEF c
  <2> QED BY <1>1, <2>1, <2>2, <2>3
<1>2. CASE header = "j2"
  BY <1>1, <1>2, HeadersInRange DEF num_to_gpio
<1>3. CASE header = "wroom3"
  BY <1>1, <1>3, HeadersInRange DEF num_to_gpio
<1>4. CASE header \notin {"j2", "wroom3"}
  BY <1>4 DEF num_to_gpio, pin_exists
<1> QED BY <1>2, <1>3, <1>4

-----------------------------------------------------------------------------
(* The inductive invariant, step by step.                                  *)
PinInv == ProgramInv /\ WordInv /\ EdgeInv /\ DriveInv /\ ToolInv

(* A call starts its program while nothing else of Linux runs.             *)
LEMMA CallStep ==
  ASSUME NEW op, NEW p \in Pins, NEW v, NEW s, PinInv, Call(op, p, v, s),
         Ready(s, TheCall(op, p, v)), DOMAIN owner' = Pins,
         op = "mux" => owner'[p] = "mux",
         op = "request" => /\ s # <<>> => s[1].do = "bit"
                           /\ \A i \in DOMAIN s : i > 1 => s[i].do # "bit",
         op = "output" => /\ s # <<>> => s[1].reg = "outbit"
                          /\ \A i \in DOMAIN s : i > 1 => s[i].reg = "oe"
  PROVE  PinInv'
<1>1. /\ UNCHANGED <<regs, out, oe, outSel, inSel, status, tool, ttmp, tset, chained, htmp, todo>>
      /\ UNCHANGED <<meant, raced, fresh, latched, event>>
      /\ task = <<>> /\ ~Serving /\ task' = s
      /\ call' = IF s = <<>> THEN NoCall ELSE TheCall(op, p, v)
  BY DEF Call, registers, pads, service, history, TheCall
<1>2. /\ IsProgram(s) /\ Paired(s) /\ Acked(s) /\ (\A a \in ToSet(s) : TaskAcc(a, TheCall(op, p, v)))
      /\ s # <<>> => Head(s) = s[1] /\ s[1].do # "write"
  <2>1. Fresh(s)
    BY DEF Ready
  <2>2. s # <<>> => Head(s) = s[1]
    BY <2>1, ProgramTail DEF Fresh
  <2> QED BY <2>1, <2>2 DEF Ready, Fresh
<1>3. /\ NoCall.op = Nothing /\ TheCall(op, p, v).op = op /\ TheCall(op, p, v).pin = p
      /\ TheCall(op, p, v).clean = TRUE
  BY DEF NoCall, TheCall
<1>4. ProgramInv'
  <2>1. TypeOfRun'
    <3>1. call' = [op |-> call'.op, pin |-> call'.pin, val |-> call'.val, clean |-> call'.clean]
      BY <1>1 DEF NoCall, TheCall
    <3> QED BY <1>1, <3>1 DEF PinInv, ProgramInv, TypeOfRun
  <2>2. \A a \in ToSet(s) : TaskAcc(a, call')
    <3>1. CASE s = <<>>
      BY <3>1, FreshNone
    <3>2. CASE s # <<>>
      BY <1>1, <1>2, <3>2
    <3> QED BY <3>1, <3>2
  <2> QED BY <1>1, <1>2, <2>1, <2>2 DEF PinInv, ProgramInv
<1>5. WordInv'
  <2>1. ~Serving'
    BY <1>1 DEF Serving
  <2> QED BY <1>1, <1>2, <2>1 DEF PinInv, WordInv, ChangesKept
<1>6. EdgeInv'
  BY <1>1 DEF PinInv, EdgeInv, EventsMatchType, Type
<1>7. DriveInv'
  <2>1. call'.op # Nothing => call'.op = op /\ call'.pin = p /\ s # <<>>
    BY <1>1, <1>3
  <2> HIDE DEF NoCall
  <2> QED BY <1>1, <1>2, <2>1 DEF PinInv, DriveInv, Nothing
<1>8. ToolInv'
  BY <1>1 DEF PinInv, ToolInv, Done
<1> QED BY <1>4, <1>5, <1>6, <1>7, <1>8 DEF PinInv

LEMMA NoneReady ==
  ASSUME NEW c
  PROVE  Ready(<<>>, c)
<1>1. \A a : a \notin ToSet(<<>>)
  BY FreshNone
<1> QED BY <1>1, FreshNone DEF Ready

LEMMA CallsKeep ==
  ASSUME PinInv, NEW p \in Pins,
         \/ RequestGpio(p) \/ FreePin(p) \/ FreeIrq(p)
         \/ \E c \in Cells : SetMux(p, c)
         \/ \E high \in BOOLEAN : UseGpio(p, high)
         \/ \E c \in Configs : Configure(p, c)
         \/ \E t \in IrqTypes : RequestIrq(p, t) \/ ChangeType(p, t)
  PROVE  PinInv'
<1>1. DOMAIN owner = Pins
  BY DEF PinInv, DriveInv
<1>2. CASE RequestGpio(p)
  <2> DEFINE s == esp32s31_gpio_request_enable(p)
  <2>1. Call("request", p, 0, s) /\ DOMAIN owner' = Pins
    BY <1>1, <1>2 DEF RequestGpio
  <2>2. /\ Ready(s, TheCall("request", p, 0)) /\ s # <<>> /\ s[1].do = "bit"
        /\ \A i \in DOMAIN s : i > 1 => s[i].do # "bit"
    BY RequestReady
  <2> HIDE DEF s
  <2> QED BY <2>1, <2>2, CallStep
<1>3. CASE FreePin(p)
  <2>1. Call("free", p, 0, <<>>) /\ DOMAIN owner' = Pins
    BY <1>1, <1>3 DEF FreePin
  <2> DEFINE s == <<>>
  <2>2. Ready(s, TheCall("free", p, 0))
    BY NoneReady
  <2> HIDE DEF s
  <2> QED BY <2>1, <2>2, CallStep DEF s
<1>4. CASE FreeIrq(p)
  <2> DEFINE s == Locked(esp32s31_irq_mask(p))
  <2>1. Call("noirq", p, 0, s) /\ DOMAIN owner' = Pins
    BY <1>1, <1>4 DEF FreeIrq
  <2>2. Ready(s, TheCall("noirq", p, 0))
    BY IrqReady
  <2> HIDE DEF s
  <2> QED BY <2>1, <2>2, CallStep
<1>5. CASE \E c \in Cells : SetMux(p, c)
  <2>1. PICK c \in Cells : SetMux(p, c)
    BY <1>5
  <2> DEFINE none == <<>>
             s == IF p >= 62 \/ c.sig \notin Sigs THEN none ELSE esp32s31_mux_one(p, c)
  <2>2. Call("mux", p, 0, s) /\ DOMAIN owner' = Pins /\ owner'[p] = "mux"
    BY <1>1, <2>1 DEF SetMux
  <2>3. Ready(s, TheCall("mux", p, 0))
    <3>1. Ready(none, TheCall("mux", p, 0)) /\ Ready(esp32s31_mux_one(p, c), TheCall("mux", p, 0))
      BY NoneReady, MuxReady
    <3> HIDE DEF none
    <3> QED BY <3>1
  <2> HIDE DEF s
  <2> QED BY <2>2, <2>3, CallStep
<1>6. CASE \E high \in BOOLEAN : UseGpio(p, high)
  <2>1. PICK high \in BOOLEAN : UseGpio(p, high)
    BY <1>6
  <2>2. DOMAIN owner' = Pins
    BY <1>1, <2>1 DEF UseGpio
  <2>3. CASE Call("level", p, high, esp32s31_gpio_set(p, high))
    <3> DEFINE c == TheCall("level", p, high)
               s == Bit("outbit", p, high)
    <3>1. c.op = "level" /\ c.pin = p /\ c.val = high
      BY DEF TheCall
    <3>2. Call("level", p, high, s)
      BY <2>3 DEF esp32s31_gpio_set
    <3> HIDE DEF c
    <3>3. Ready(s, c)
      BY <3>1, ReadyBit
    <3> HIDE DEF s
    <3> QED BY <2>2, <3>2, <3>3, CallStep DEF c
  <2>4. CASE Call("output", p, high, esp32s31_gpio_direction_output(p, high))
    <3> DEFINE s == esp32s31_gpio_direction_output(p, high)
    <3>1. /\ Ready(s, TheCall("output", p, high)) /\ s # <<>> /\ s[1].reg = "outbit"
          /\ \A i \in DOMAIN s : i > 1 => s[i].reg = "oe"
      BY OutputReady
    <3> HIDE DEF s
    <3> QED BY <2>2, <2>4, <3>1, CallStep DEF s
  <2>5. CASE Call("input", p, 0, esp32s31_gpio_direction_input(p))
    <3> DEFINE c == TheCall("input", p, 0)
               s == Bit("oe", p, FALSE)
    <3>1. c.op = "input" /\ c.pin = p
      BY DEF TheCall
    <3>2. Call("input", p, 0, s)
      BY <2>5 DEF esp32s31_gpio_direction_input
    <3> HIDE DEF c
    <3>3. Ready(s, c)
      BY <3>1, ReadyBit
    <3> HIDE DEF s
    <3> QED BY <2>2, <3>2, <3>3, CallStep DEF c
  <2> QED BY <2>1, <2>3, <2>4, <2>5 DEF UseGpio
<1>7. CASE \E c \in Configs : Configure(p, c)
  <2>1. PICK c \in Configs : Configure(p, c)
    BY <1>7
  <2> DEFINE s == esp32s31_config_one(p, c)
  <2>2. Call("config", p, 0, s) /\ DOMAIN owner' = Pins
    BY <1>1, <2>1 DEF Configure
  <2>3. Ready(s, TheCall("config", p, 0))
    BY ConfigReady
  <2> HIDE DEF s
  <2> QED BY <2>2, <2>3, CallStep
<1>8. CASE \E t \in IrqTypes : RequestIrq(p, t) \/ ChangeType(p, t)
  <2>1. PICK t \in IrqTypes : RequestIrq(p, t) \/ ChangeType(p, t)
    BY <1>8
  <2> DEFINE s == Locked(esp32s31_irq_set_type(p, t) \o esp32s31_irq_unmask(p))
             u == Locked(esp32s31_irq_set_type(p, t))
  <2>2. DOMAIN owner' = Pins /\ (Call("irq", p, 0, s) \/ Call("type", p, 0, u))
    BY <1>1, <2>1 DEF RequestIrq, ChangeType
  <2>3. Ready(s, TheCall("irq", p, 0)) /\ Ready(u, TheCall("type", p, 0))
    BY IrqReady
  <2> HIDE DEF s, u
  <2> QED BY <2>2, <2>3, CallStep
<1> QED BY <1>2, <1>3, <1>4, <1>5, <1>6, <1>7, <1>8

(* The pads start with the words that all writers mean.                    *)
LEMMA PinStarts ==
  ASSUME PinInit
  PROVE  PinInv
<1>1. IsProgram(<<>>) /\ Paired(<<>>) /\ Acked(<<>>) /\ Reported(<<>>) /\ \A a : a \notin ToSet(<<>>)
  <2>1. Reported(<<>>)
    BY DEF Reported
  <2> QED BY <2>1, FreshNone DEF Fresh
<1>2. NoCall.op = Nothing /\ ToolOff.pc = "off" /\ Nothing = "none"
  BY DEF NoCall, ToolOff, Nothing
<1>3. ProgramInv
  <2>1. TypeOfRun
    BY DEF PinInit, TypeOfRun, NoCall, ToolOff
  <2> HIDE DEF NoCall, ToolOff
  <2> QED BY <1>1, <1>2, <2>1 DEF PinInit, ProgramInv
<1>4. WordInv
  <2>1. DOMAIN regs = Words /\ DOMAIN meant = Words /\ regs = meant
    BY DEF PinInit, esp32s31_irq_init
  <2>2. \A w \in Words : DOMAIN regs[w] = Fields(w)
    BY DEF PinInit, esp32s31_irq_init, Fields
  <2> QED BY <2>1, <2>2 DEF PinInit, WordInv, ChangesKept
<1>5. EdgeInv
  BY DEF PinInit, EdgeInv, EventsMatchType
<1>6. DriveInv
  <2> HIDE DEF NoCall, ToolOff
  <2> QED BY <1>2 DEF PinInit, DriveInv
<1>7. ToolInv
  <2> HIDE DEF NoCall, ToolOff
  <2> QED BY <1>2 DEF PinInit, ToolInv
<1> QED BY <1>3, <1>4, <1>5, <1>6, <1>7 DEF PinInv

(* The steps that leave the registers alone.                               *)
LEMMA PadsKeep ==
  ASSUME PinInv, NEW p \in Pins, PadChange(p)
  PROVE  PinInv'
<1>1. /\ UNCHANGED <<regs, out, oe, outSel, inSel, owner, task, tmp, call, tool, ttmp, tset>>
      /\ UNCHANGED <<chained, htmp, todo, meant, raced, event>>
  BY DEF PadChange, registers, core, service
<1>2. ProgramInv' /\ WordInv'
  BY <1>1 DEF PinInv, ProgramInv, TypeOfRun, WordInv, ChangesKept, Serving
<1>3. DriveInv' /\ ToolInv'
  BY <1>1 DEF PinInv, DriveInv, ToolInv, Done
<1>4. EdgeInv'
  <2> DEFINE hit == Type(p) = "both" \/ Type(p) = IF p \notin level THEN "rising" ELSE "falling"
  <2>1. /\ status' = IF hit THEN status \cup {p} ELSE status
        /\ fresh' = fresh \/ (hit /\ fresh' = fresh \cup {p})
        /\ latched' = IF hit THEN [latched EXCEPT ![p] = Type(p)] ELSE latched
    BY DEF PadChange
  <2> HIDE DEF hit
  <2>2. \A q \in Pins : (q \in status' /\ latched'[q] # Type(q)) => q \in status /\ latched[q] # Type(q)
    BY <2>1 DEF PinInv, EdgeInv
  <2>3. DOMAIN latched' = Pins
    BY <2>1 DEF PinInv, EdgeInv
  <2> QED BY <1>1, <2>1, <2>2, <2>3 DEF PinInv, EdgeInv, EventsMatchType, Type
<1> QED BY <1>2, <1>3, <1>4 DEF PinInv

LEMMA InterruptKeeps ==
  ASSUME PinInv, (\E b \in 0 .. 1 : TakeInterrupt(b)) \/ esp32s31_gpio_irq_handler
  PROVE  PinInv'
<1>1. /\ UNCHANGED <<regs, out, oe, outSel, inSel, owner, task, tmp, call, tool, ttmp, tset>>
      /\ UNCHANGED <<htmp, status, meant, raced, fresh, latched, event>>
  BY DEF TakeInterrupt, esp32s31_gpio_irq_handler, registers, pads, core, history
<1>2. /\ todo' \subseteq Pins
      /\ chained' = chained \/ (chained = <<>> /\ \E p \in Pins : chained' = Flow(p))
      /\ task # <<>> /\ Head(task).off = TRUE => ~Serving'
  <2>1. CASE \E b \in 0 .. 1 : TakeInterrupt(b)
    BY <2>1 DEF TakeInterrupt, Quiet, Pending
  <2>2. CASE esp32s31_gpio_irq_handler
    BY <2>2 DEF esp32s31_gpio_irq_handler, PinInv, ProgramInv, WordInv, Serving
  <2> QED BY <2>1, <2>2
<1>3. /\ IsProgram(chained') /\ Paired(chained') /\ (\A a \in ToSet(chained') : HandlerAcc(a))
      /\ Reported(chained')
      /\ chained' = chained \/ (chained' # <<>> => Head(chained').do # "write")
  <2>1. CASE chained' = chained
    BY <2>1 DEF PinInv, ProgramInv
  <2>2. CASE \E p \in Pins : chained' = Flow(p)
    <3>1. HandlerReady(chained')
      BY <2>2, FlowReady
    <3>2. Fresh(chained')
      BY <3>1 DEF HandlerReady
    <3>3. chained' # <<>> => Head(chained') = chained'[1]
      BY <3>2, ProgramTail DEF Fresh
    <3> QED BY <3>1, <3>2, <3>3 DEF HandlerReady, Fresh
  <2> QED BY <1>2, <2>1, <2>2
<1>4. ProgramInv'
  BY <1>1, <1>2, <1>3 DEF PinInv, ProgramInv, TypeOfRun
<1>5. WordInv'
  BY <1>1, <1>2, <1>3 DEF PinInv, WordInv, ChangesKept
<1>6. EdgeInv'
  <2>1. \A i \in DOMAIN chained : chained' = chained
    BY <1>2
  <2> QED BY <1>1, <2>1 DEF PinInv, EdgeInv, EventsMatchType, Type
<1>7. DriveInv' /\ ToolInv'
  BY <1>1 DEF PinInv, DriveInv, ToolInv, Done
<1> QED BY <1>4, <1>5, <1>6, <1>7 DEF PinInv

(* What an access does to the words.                                       *)
Changes(a, v) ==
  /\ DOMAIN regs' = Words /\ DOMAIN meant' = Words
  /\ \A w \in Words : DOMAIN regs'[w] = Fields(w)
  /\ \A w \in Words : a.do # "write" \/ w # Word(a) =>
        regs'[w] = regs[w] /\ meant'[w] = meant[w]
  /\ a.do = "write" => \A f \in Fields(Word(a)) :
        regs'[Word(a)][f] = IF f \in DOMAIN a.val THEN a.val[f] ELSE v[f]
  /\ a.do = "write" /\ v = regs[Word(a)] /\ regs[Word(a)] = meant[Word(a)] =>
        regs'[Word(a)] = meant'[Word(a)]
  /\ out' = Bits(a, "outbit", out) /\ oe' = Bits(a, "oe", oe)
  /\ DOMAIN outSel' = Pins
  /\ \A p \in Pins : outSel'[p] = IF a.do = "sel" /\ a.reg = "out" /\ a.pin = p THEN a.val ELSE outSel[p]

LEMMA AccessChanges ==
  ASSUME NEW a, NEW v, Access(a, v), WordInv, a.do = "write" => Word(a) \in Words
  PROVE  Changes(a, v)
<1>1. /\ DOMAIN regs = Words /\ DOMAIN meant = Words /\ DOMAIN outSel = Pins
      /\ \A w \in Words : DOMAIN regs[w] = Fields(w)
  BY DEF WordInv
<1>2. /\ out' = Bits(a, "outbit", out) /\ oe' = Bits(a, "oe", oe)
      /\ outSel' = IF a.do = "sel" /\ a.reg = "out" THEN [outSel EXCEPT ![a.pin] = a.val] ELSE outSel
  BY DEF Access
<1>3. /\ DOMAIN outSel' = Pins
      /\ \A p \in Pins : outSel'[p] = IF a.do = "sel" /\ a.reg = "out" /\ a.pin = p THEN a.val ELSE outSel[p]
  BY <1>1, <1>2
<1>4. CASE a.do # "write"
  <2>1. regs' = regs /\ meant' = meant
    BY <1>4 DEF Access
  <2> QED BY <1>1, <1>2, <1>3, <1>4, <2>1 DEF Changes
<1>5. CASE a.do = "write"
  <2> DEFINE W == Word(a)
             new(old, base) == [f \in DOMAIN old |-> IF f \in DOMAIN a.val THEN a.val[f] ELSE base[f]]
  <2>1. /\ regs' = [regs EXCEPT ![W] = new(regs[W], v)]
        /\ meant' = [meant EXCEPT ![W] = new(meant[W], meant[W])]
    BY <1>5 DEF Access, Word
  <2>2. W \in Words
    BY <1>5
  <2>3. DOMAIN new(regs[W], v) = Fields(W)
    BY <1>1, <2>2
  <2>4. \A f \in Fields(W) : new(regs[W], v)[f] = IF f \in DOMAIN a.val THEN a.val[f] ELSE v[f]
    BY <1>1, <2>2
  <2>5. v = regs[W] /\ regs[W] = meant[W] => new(regs[W], v) = new(meant[W], meant[W])
    BY Zenon
  <2> DEFINE x == new(regs[W], v)
             y == new(meant[W], meant[W])
  <2>6. /\ regs' = [regs EXCEPT ![W] = x] /\ meant' = [meant EXCEPT ![W] = y]
        /\ DOMAIN x = Fields(W)
        /\ \A f \in Fields(W) : x[f] = IF f \in DOMAIN a.val THEN a.val[f] ELSE v[f]
        /\ v = regs[W] /\ regs[W] = meant[W] => x = y
    BY <2>1, <2>3, <2>4, <2>5
  <2> HIDE DEF new, x, y, W
  <2>7. /\ DOMAIN regs' = Words /\ DOMAIN meant' = Words
        /\ regs'[W] = x /\ meant'[W] = y
        /\ \A w \in Words \ {W} : regs'[w] = regs[w] /\ meant'[w] = meant[w]
    BY <1>1, <2>2, <2>6
  <2> QED BY <1>1, <1>2, <1>3, <1>5, <2>6, <2>7 DEF Changes, W
<1> QED BY <1>4, <1>5

(* A write of a program that has read its word loses no change of another, *)
(* unless the tool has raced for the word.                                 *)
LEMMA WritesKept ==
  ASSUME NEW a, NEW v, Changes(a, v), WordInv,
         a.do = "write" => v = regs[Word(a)] \/ Word(a) \in raced, raced \subseteq raced'
  PROVE  ChangesKept'
<1> SUFFICES ASSUME NEW w \in Words, w \notin raced' PROVE regs'[w] = meant'[w]
  BY DEF ChangesKept
<1>1. regs[w] = meant[w]
  BY DEF WordInv, ChangesKept
<1>2. CASE a.do = "write" /\ w = Word(a)
  BY <1>1, <1>2 DEF Changes
<1>3. CASE a.do # "write" \/ w # Word(a)
  BY <1>1, <1>3 DEF Changes
<1> QED BY <1>2, <1>3

LEMMA SetShape ==
  ASSUME NEW p \in Pins, NEW opt, NEW b, SetAcc(b, p, opt)
  PROVE  /\ b.do \in {"read", "write", "sel", "bit"}
         /\ b.do \in {"read", "write"} => Word(b) \in Words
         /\ b.do \in {"read", "write"} => b.reg \in {"cnnt", "iomux"}
         /\ b.reg # "cnnt" => b.pin = p
         /\ b.do = "sel" => b.reg = "out"
         /\ b.do = "bit" => b.reg \in {"oe", "outbit"} /\ b.val \in BOOLEAN
<1>1. CASE b = OutAcc(p, opt)
  BY <1>1 DEF OutAcc, Acc
<1>2. CASE b.do \in {"read", "write"} /\ b.reg = "cnnt" /\ b.pin = 0
  BY <1>2, WordsOf DEF Word
<1>3. CASE b = SelAcc(p)
  BY <1>3 DEF SelAcc, Acc
<1>4. CASE b = OeAcc(p, opt.mode)
  BY <1>4 DEF OeAcc, Acc
<1>5. ASSUME NEW set, b \in UpdateAccs(p, set)
      PROVE  b.do \in {"read", "write"} /\ b.reg = "iomux" /\ b.pin = p /\ Word(b) \in Words
  <2>1. b.do \in {"read", "write"} /\ b.reg = "iomux" /\ b.pin = p
    BY <1>5 DEF UpdateAccs, Read, Write, Acc
  <2> QED BY <2>1, WordsOf DEF Word
<1> QED BY <1>1, <1>2, <1>3, <1>4, <1>5 DEF SetAcc

(* The tool runs the program of one set.                                   *)
LEMMA ToolRuns ==
  ASSUME ProgramInv, tset.pc = "set"
  PROVE  /\ tset.pin \in Pins /\ tset.cmd \in Commands
         /\ \A b \in ToSet(tool) : b \in ToolAccs(tset.pin, tset.cmd.opt)
         /\ \A b \in ToolAccs(tset.pin, tset.cmd.opt) : SetAcc(b, tset.pin, tset.cmd.opt)
         /\ tool # <<>> => /\ SetAcc(Head(tool), tset.pin, tset.cmd.opt)
                           /\ Head(tool).do = "write" => Word(Head(tool)) \in Words
<1>1. /\ tset.pin \in Pins /\ tset.cmd \in Commands
      /\ \A b \in ToSet(tool) : b \in ToolAccs(tset.pin, tset.cmd.opt)
  BY DEF ProgramInv
<1>2. \A b \in ToolAccs(tset.pin, tset.cmd.opt) : SetAcc(b, tset.pin, tset.cmd.opt)
  BY SetIs DEF ToolAccs
<1>3. tool # <<>> => Head(tool) \in ToSet(tool)
  BY ProgramTail DEF ProgramInv
<1> QED BY <1>1, <1>2, <1>3, SetShape

(* What the tool has set stays when an access touches something else.      *)
LEMMA DoneKept ==
  ASSUME NEW a, NEW v, Changes(a, v), NEW p \in Pins, NEW opt, NEW b, SetAcc(b, p, opt),
         b.reg # "cnnt", Done(b), a.do = "write" => Word(a) # Word(b),
         a.do \in {"sel", "bit"} => a.pin # p \/ a.reg # b.reg
  PROVE  Done(b)'
<1>1. /\ b.do \in {"read", "write", "sel", "bit"} /\ b.pin = p
      /\ b.do \in {"read", "write"} => Word(b) \in Words
      /\ b.do = "sel" => b.reg = "out"
      /\ b.do = "bit" => b.reg \in {"oe", "outbit"}
  BY SetShape
<1>2. CASE b.do = "write"
  BY <1>1, <1>2 DEF Changes, Done
<1>3. CASE b.do = "sel"
  BY <1>1, <1>3 DEF Changes, Done
<1>4. CASE b.do = "bit"
  <2>1. (b.pin \in oe') = (b.pin \in oe) \/ b.reg # "oe"
    BY <1>1, <1>4 DEF Changes, Bits
  <2>2. (b.pin \in out') = (b.pin \in out) \/ b.reg # "outbit"
    BY <1>1, <1>4 DEF Changes, Bits
  <2> QED BY <1>1, <1>4, <2>1, <2>2 DEF Done
<1>5. CASE b.do = "read"
  BY <1>5 DEF Done
<1> QED BY <1>1, <1>2, <1>3, <1>4, <1>5

(* A driver access leaves what the tool has read, or races with the tool.  *)
LEMMA ToolReadKept ==
  ASSUME PinInv, NEW a, NEW v, Changes(a, v), tool # <<>>, Head(tool).do = "write",
         raced' = raced \cup Races(a)
  PROVE  ttmp = regs'[Word(Head(tool))] \/ Word(Head(tool)) \in raced'
<1>1. tset.pc = "set"
  BY DEF PinInv, ProgramInv
<1>2. Word(Head(tool)) \in Words
  BY <1>1, ToolRuns DEF PinInv
<1>3. ttmp = regs[Word(Head(tool))] \/ Word(Head(tool)) \in raced
  BY DEF PinInv, WordInv
<1>4. CASE a.do = "write" /\ Word(a) = Word(Head(tool))
  BY <1>4 DEF Races, Word
<1>5. CASE a.do # "write" \/ Word(a) # Word(Head(tool))
  BY <1>2, <1>3, <1>5 DEF Changes
<1> QED BY <1>4, <1>5

LEMMA TaskKeeps ==
  ASSUME PinInv, TaskStep
  PROVE  PinInv'
<1> DEFINE a == Head(task)
           t == Tail(task)
<1>1. /\ IsProgram(task) /\ Paired(task) /\ Acked(task) /\ task # <<>>
      /\ \A b \in ToSet(task) : TaskAcc(b, call)
  BY DEF TaskStep, PinInv, ProgramInv
<1>2. /\ IsProgram(t) /\ Paired(t) /\ Acked(t) /\ a = task[1] /\ a \in ToSet(task)
      /\ ToSet(t) \subseteq ToSet(task) /\ 1 \in DOMAIN task
      /\ \A i \in DOMAIN t : i + 1 \in DOMAIN task /\ t[i] = task[i + 1] /\ i \in Nat
      /\ t # <<>> => 2 \in DOMAIN task /\ Head(t) = task[2] /\ 1 \in DOMAIN t
      /\ 2 \in DOMAIN task => t # <<>>
  <2>1. \A i \in DOMAIN t : i \in Nat
    BY <1>1, ProgramTail, ProgramAt
  <2>2. 1 \in DOMAIN task /\ (t # <<>> => 1 \in DOMAIN t)
    BY <1>1, ProgramTail, ProgramAt
  <2>3. 2 \in DOMAIN task => 2 - 1 \in DOMAIN t
    BY <1>1, ProgramTail
  <2> HIDE DEF t
  <2>4. 2 \in DOMAIN task => t # <<>>
    BY <2>3
  <2> QED BY <1>1, <2>1, <2>2, <2>4, ProgramTail DEF t
<1>3. /\ ~Serving /\ Access(a, tmp) /\ tmp' = Latch(a) /\ raced' = raced \cup Races(a)
      /\ tset' = IF Meets(a) THEN [tset EXCEPT !.clean = FALSE] ELSE tset
      /\ fresh' = IF a.do \in {"ack", "ackbank"} THEN fresh \ {a.pin} ELSE fresh
      /\ task' = t /\ call' = IF t = <<>> THEN NoCall ELSE call
      /\ UNCHANGED <<owner, todo, chained, htmp, tool, ttmp, event>>
  BY DEF TaskStep, core, service
<1> HIDE DEF a, t
<1>4. /\ TaskAcc(a, call) /\ a.do # "ackbank"
      /\ a.do \in {"read", "write"} => Word(a) \in Words
      /\ a.do = "write" => tmp = regs[Word(a)]
  BY <1>1, <1>2 DEF PinInv, WordInv, a, TaskAcc, CallAcc
<1>5. Changes(a, tmp)
  BY <1>3, <1>4, AccessChanges DEF PinInv
<1>6. /\ tset' = [pc |-> tset'.pc, cmd |-> tset'.cmd, nums |-> tset'.nums, used |-> tset'.used,
                  pin |-> tset'.pin, clean |-> tset'.clean]
      /\ tset'.pc = tset.pc /\ tset'.cmd = tset.cmd /\ tset'.pin = tset.pin
      /\ tset'.clean => tset.clean /\ ~Meets(a)
  <2>1. tset = [pc |-> tset.pc, cmd |-> tset.cmd, nums |-> tset.nums, used |-> tset.used,
                pin |-> tset.pin, clean |-> tset.clean]
    BY DEF PinInv, ProgramInv, TypeOfRun
  <2>2. CASE Meets(a)
    <3>1. tset' = [pc |-> tset.pc, cmd |-> tset.cmd, nums |-> tset.nums, used |-> tset.used,
                   pin |-> tset.pin, clean |-> FALSE]
      <4>1. tset' = [tset EXCEPT !.clean = FALSE]
        BY <1>3, <2>2
      <4> QED BY <2>1, <4>1
    <3> QED BY <3>1
  <2>3. CASE ~Meets(a)
    BY <1>3, <2>1, <2>3
  <2> QED BY <2>2, <2>3
<1>7. call' = call \/ (call' = NoCall /\ t = <<>>)
  BY <1>3
<1>8. ProgramInv'
  <2>1. TypeOfRun'
    <3>1. call' = [op |-> call'.op, pin |-> call'.pin, val |-> call'.val, clean |-> call'.clean]
      BY <1>7 DEF NoCall, PinInv, ProgramInv, TypeOfRun
    <3> QED BY <1>6, <3>1 DEF TypeOfRun
  <2>2. \A b \in ToSet(t) : TaskAcc(b, call')
    <3>1. CASE t = <<>>
      BY <3>1, FreshNone
    <3>2. CASE t # <<>>
      BY <1>1, <1>2, <1>7, <3>2
    <3> QED BY <3>1, <3>2
  <2> QED BY <1>2, <1>3, <1>6, <2>1, <2>2 DEF PinInv, ProgramInv
<1>9. WordInv'
  <2>1. ChangesKept'
    BY <1>3, <1>4, <1>5, WritesKept DEF PinInv
  <2>2. ASSUME t # <<>>, Head(t).do = "write" PROVE tmp' = regs'[Word(Head(t))]
    <3>1. a.do = "read" /\ Word(a) = Word(Head(t))
      BY <1>1, <1>2, <2>2 DEF Paired
    <3> QED BY <1>3, <1>4, <1>5, <3>1 DEF Latch, Word, Changes
  <2>3. tool # <<>> /\ Head(tool).do = "write" =>
           ttmp = regs'[Word(Head(tool))] \/ Word(Head(tool)) \in raced'
    BY <1>3, <1>5, ToolReadKept
  <2>4. chained = <<>> /\ ~Serving'
    BY <1>3 DEF Serving
  <2> QED BY <1>3, <1>5, <2>1, <2>2, <2>3, <2>4 DEF WordInv, Changes
<1>10. EdgeInv'
  <2>1. /\ status' = IF a.do = "ack" THEN status \ {a.pin} ELSE status
        /\ latched' = [p \in Pins |-> IF p \in status' THEN latched[p] ELSE Nothing]
    BY <1>3, <1>4 DEF Access
  <2>2. ASSUME NEW p \in Pins, p \in status', latched'[p] # Type(p)'
        PROVE  t # <<>> /\ Head(t).do = "ack" /\ Head(t).pin = p
    <3>1. CASE SetsType(a) /\ a.pin = p
      BY <1>1, <1>2, <3>1 DEF Acked
    <3>2. CASE ~(SetsType(a) /\ a.pin = p)
      <4>1. Type(p)' = Type(p)
        <5>1. <<"pin", p>> \in Words /\ "type" \in Fields(<<"pin", p>>)
          BY WordsOf DEF Fields
        <5>2. CASE a.do = "write" /\ Word(a) = <<"pin", p>>
          BY <1>4, <1>5, <3>2, <5>1, <5>2 DEF Changes, Type, SetsType, Word
        <5>3. CASE a.do # "write" \/ Word(a) # <<"pin", p>>
          BY <1>5, <5>1, <5>3 DEF Changes, Type
        <5> QED BY <5>2, <5>3
      <4>2. p \in status /\ latched[p] # Type(p)
        BY <2>1, <2>2, <4>1
      <4>3. a.do = "ack" /\ a.pin = p
        BY <4>2 DEF PinInv, EdgeInv, a
      <4> QED BY <2>1, <2>2, <4>3
    <3> QED BY <3>1, <3>2
  <2>3. \A p \in fresh' : p \in status' \/ \E i \in DOMAIN chained : chained[i].do = "event" /\ chained[i].pin = p
    BY <1>3, <1>4, <2>1 DEF PinInv, EdgeInv
  <2> QED BY <1>3, <2>1, <2>2, <2>3 DEF PinInv, EdgeInv, EventsMatchType
<1>11. DriveInv'
  <2>1. NoCall.op = Nothing
    BY DEF NoCall
  <2>2. t # <<>> => call' = call
    BY <1>7, <1>3
  <2>3. ASSUME call.op = "request", call.clean, t # <<>> PROVE call.pin \notin oe'
    <3>1. CASE a.do = "bit"
      BY <1>4, <1>5, <2>3, <3>1 DEF TaskAcc, CallAcc, Changes, Bits
    <3>2. CASE a.do # "bit"
      <4>1. call.pin \notin oe
        BY <1>1, <2>3, <3>2 DEF PinInv, DriveInv, a
      <4> QED BY <1>5, <3>2, <4>1 DEF Changes, Bits
    <3> QED BY <3>1, <3>2
  <2>4. ASSUME call.op = "output", call.clean, t # <<>>, Head(t).reg = "oe"
        PROVE (call.pin \in out') = call.val
    <3>1. a.do = "bit" /\ a.reg \in {"oe", "outbit"} /\ a.pin = call.pin /\ call.val \in BOOLEAN
          /\ (a.reg = "outbit" => a.val = call.val)
      BY <1>4, <2>4 DEF TaskAcc, CallAcc
    <3>2. CASE a.reg = "oe"
      <4>1. (call.pin \in out) = call.val
        BY <1>1, <2>4, <3>2 DEF PinInv, DriveInv, a
      <4>2. out' = out
        BY <1>5, <3>2 DEF Changes, Bits
      <4> QED BY <4>1, <4>2
    <3>3. CASE a.reg = "outbit"
      <4>1. out' = IF call.val THEN out \cup {call.pin} ELSE out \ {call.pin}
        BY <1>5, <3>1, <3>3 DEF Changes, Bits
      <4> QED BY <3>1, <4>1
    <3> QED BY <3>1, <3>2, <3>3
  <2>5. call.op = "request" => \A i \in DOMAIN t : i > 1 => t[i].do # "bit"
    BY <1>2 DEF PinInv, DriveInv
  <2>6. call.op = "output" => \A i \in DOMAIN t : i > 1 => t[i].reg = "oe"
    BY <1>2 DEF PinInv, DriveInv
  <2> HIDE DEF NoCall
  <2> QED BY <1>3, <1>7, <2>1, <2>2, <2>3, <2>4, <2>5, <2>6 DEF PinInv, DriveInv, Nothing
<1>12. ToolInv'
  <2> SUFFICES ASSUME tset.pc = "set", tset.clean, ~Meets(a),
                      NEW b \in ToolAccs(tset.pin, tset.cmd.opt), b.reg # "cnnt",
                      b \notin ToSet(tool), ~(b.do = "write" /\ Word(b) \in raced')
               PROVE  Done(b)'
    BY <1>3, <1>6 DEF ToolInv
  <2>1. SetAcc(b, tset.pin, tset.cmd.opt) /\ tset.pin \in Pins
    BY ToolRuns DEF PinInv
  <2>2. Done(b)
    BY <1>3 DEF PinInv, ToolInv
  <2>3. a.do \in {"write", "bit", "sel"} => a.pin # tset.pin
    BY DEF Meets
  <2>4. b.pin = tset.pin
    BY <2>1, SetShape
  <2> QED BY <1>5, <2>1, <2>2, <2>3, <2>4, DoneKept DEF Word
<1> QED BY <1>8, <1>9, <1>10, <1>11, <1>12 DEF PinInv

(* While the handler runs, the task is not in a section with interrupts    *)
(* off: it does not write and does not acknowledge.                        *)
LEMMA TaskOpen ==
  ASSUME PinInv, task # <<>>, Serving \/ ~Head(task).off
  PROVE  Head(task).off # TRUE /\ Head(task).do \notin {"write", "ack"}
<1>1. TaskAcc(Head(task), call)
  BY ProgramTail DEF PinInv, ProgramInv
<1>2. Head(task).off # TRUE
  BY DEF PinInv, WordInv
<1> QED BY <1>1, <1>2 DEF TaskAcc

LEMMA HandlerKeeps ==
  ASSUME PinInv, HandlerStep
  PROVE  PinInv'
<1> DEFINE a == Head(chained)
           t == Tail(chained)
<1>1. /\ IsProgram(chained) /\ Paired(chained) /\ Reported(chained) /\ chained # <<>>
      /\ \A b \in ToSet(chained) : HandlerAcc(b)
  BY DEF HandlerStep, PinInv, ProgramInv
<1>2. /\ IsProgram(t) /\ Paired(t) /\ Reported(t) /\ a = chained[1] /\ a \in ToSet(chained)
      /\ ToSet(t) \subseteq ToSet(chained) /\ 1 \in DOMAIN chained
      /\ \A i \in DOMAIN t : t[i] = chained[i + 1]
      /\ \A i \in DOMAIN chained : i \in Nat /\ (i = 1 \/ i - 1 \in DOMAIN t)
      /\ t # <<>> => 2 \in DOMAIN chained /\ Head(t) = chained[2]
  <2>1. 1 \in DOMAIN chained /\ \A i \in DOMAIN chained : i \in Nat
    BY <1>1, ProgramAt
  <2> HIDE DEF t
  <2> QED BY <1>1, <2>1, ProgramTail DEF t
<1>3. /\ Access(a, htmp) /\ htmp' = Latch(a) /\ raced' = raced \cup Races(a)
      /\ fresh' = IF a.do = "event" THEN fresh \ {a.pin} ELSE fresh
      /\ event' = IF a.do = "ack" /\ a.pin \in status
                  THEN [event EXCEPT ![a.pin] = <<latched[a.pin], Type(a.pin)>>]
                  ELSE IF a.do = "event" THEN [event EXCEPT ![a.pin] = <<Nothing, Nothing>>]
                  ELSE event
      /\ chained' = t
      /\ UNCHANGED <<owner, call, task, tmp, todo, tool, ttmp, tset>>
  BY DEF HandlerStep, core
<1> HIDE DEF a, t
<1>4. /\ HandlerAcc(a)
      /\ a.do \in {"read", "write"} => Word(a) \in Words
      /\ a.do = "write" => htmp = regs[Word(a)]
  <2>1. HandlerAcc(a)
    BY <1>1, <1>2
  <2>2. a.do = "write" => htmp = regs[Word(a)]
    BY <1>1 DEF PinInv, WordInv, a
  <2> QED BY <2>1, <2>2, WordsOf DEF HandlerAcc, Word
<1>5. Changes(a, htmp)
  BY <1>3, <1>4, AccessChanges DEF PinInv
<1>6. task # <<>> => Head(task).off # TRUE /\ Head(task).do \notin {"write", "ack"}
  BY <1>1, TaskOpen DEF Serving
<1>7. ProgramInv'
  BY <1>1, <1>2, <1>3 DEF PinInv, ProgramInv, TypeOfRun
<1>8. WordInv'
  <2>1. ChangesKept'
    BY <1>3, <1>4, <1>5, WritesKept DEF PinInv
  <2>2. ASSUME t # <<>>, Head(t).do = "write" PROVE htmp' = regs'[Word(Head(t))]
    <3>1. a.do = "read" /\ Word(a) = Word(Head(t))
      BY <1>1, <1>2, <2>2 DEF Paired
    <3> QED BY <1>3, <1>4, <1>5, <3>1 DEF Latch, Word, Changes
  <2>3. tool # <<>> /\ Head(tool).do = "write" =>
           ttmp = regs'[Word(Head(tool))] \/ Word(Head(tool)) \in raced'
    BY <1>3, <1>5, ToolReadKept
  <2> QED BY <1>3, <1>5, <1>6, <2>1, <2>2, <2>3 DEF WordInv, Changes
<1>9. EdgeInv'
  <2>1. /\ status' = IF a.do = "ack" THEN status \ {a.pin} ELSE status
        /\ latched' = [p \in Pins |-> IF p \in status' THEN latched[p] ELSE Nothing]
    BY <1>3, <1>4 DEF Access, HandlerAcc
  <2>2. ASSUME NEW p \in Pins PROVE Type(p)' = Type(p)
    <3>1. <<"pin", p>> \in Words /\ "type" \in Fields(<<"pin", p>>)
      BY WordsOf DEF Fields
    <3>2. CASE a.do = "write" /\ Word(a) = <<"pin", p>>
      <4>1. "type" \notin DOMAIN a.val
        BY <1>4, <3>2 DEF HandlerAcc
      <4> QED BY <1>4, <1>5, <3>1, <3>2, <4>1 DEF Changes, Type
    <3>3. CASE a.do # "write" \/ Word(a) # <<"pin", p>>
      BY <1>5, <3>1, <3>3 DEF Changes, Type
    <3> QED BY <3>2, <3>3
  <2>3. \A p \in Pins : p \in status => latched[p] = Type(p)
    BY <1>6 DEF PinInv, EdgeInv
  <2>4. ASSUME NEW p \in Pins, p \in status' PROVE latched'[p] = Type(p)'
    BY <2>1, <2>2, <2>3, <2>4
  <2>5. ASSUME NEW p \in fresh', p \notin status'
        PROVE  \E i \in DOMAIN t : t[i].do = "event" /\ t[i].pin = p
    <3>1. p \in fresh /\ (a.do = "event" => a.pin # p)
      BY <1>3, <2>5
    <3>2. PICK i \in DOMAIN chained : i # 1 /\ chained[i].do = "event" /\ chained[i].pin = p
      <4>1. CASE p \in status
        <5>1. a.do = "ack" /\ a.pin = p
          BY <2>1, <2>5, <4>1
        <5>2. \E j \in DOMAIN chained : j > 1 /\ chained[j].do = "event" /\ chained[j].pin = p
          BY <1>1, <1>2, <5>1 DEF Reported
        <5> QED BY <1>2, <5>2
      <4>2. CASE p \notin status
        <5>1. PICK i \in DOMAIN chained : chained[i].do = "event" /\ chained[i].pin = p
          BY <3>1, <4>2 DEF PinInv, EdgeInv
        <5> QED BY <1>2, <3>1, <5>1
      <4> QED BY <4>1, <4>2
    <3>3. i - 1 \in DOMAIN t /\ (i - 1) + 1 = i
      BY <1>2, <3>2
    <3>4. t[i - 1] = chained[i]
      BY <1>2, <3>3
    <3> QED BY <3>2, <3>3, <3>4
  <2>6. DOMAIN event' = Pins /\ \A p \in Pins : event'[p][1] = event'[p][2]
    <3>1. DOMAIN event = Pins /\ a.pin \in Pins /\ \A p \in Pins : event[p][1] = event[p][2]
      BY <1>4 DEF PinInv, EdgeInv, EventsMatchType, HandlerAcc
    <3>2. CASE a.do = "ack" /\ a.pin \in status
      <4> DEFINE x == <<latched[a.pin], Type(a.pin)>>
      <4>1. x[1] = x[2]
        BY <2>3, <3>1, <3>2
      <4>2. event' = [event EXCEPT ![a.pin] = x]
        BY <1>3, <3>2
      <4> HIDE DEF x
      <4> QED BY <3>1, <4>1, <4>2
    <3>3. CASE ~(a.do = "ack" /\ a.pin \in status)
      BY <1>3, <3>1, <3>3
    <3> QED BY <3>2, <3>3
  <2> QED BY <1>3, <2>1, <2>4, <2>5, <2>6 DEF EdgeInv, EventsMatchType
<1>10. DriveInv'
  BY <1>3, <1>4, <1>5 DEF PinInv, DriveInv, Changes, Bits, HandlerAcc
<1>11. ToolInv'
  <2> SUFFICES ASSUME tset.pc = "set", tset.clean,
                      NEW b \in ToolAccs(tset.pin, tset.cmd.opt), b.reg # "cnnt",
                      b \notin ToSet(tool), ~(b.do = "write" /\ Word(b) \in raced')
               PROVE  Done(b)'
    BY <1>3 DEF ToolInv
  <2>1. SetAcc(b, tset.pin, tset.cmd.opt) /\ tset.pin \in Pins
    BY ToolRuns DEF PinInv
  <2>2. Done(b)
    BY <1>3 DEF PinInv, ToolInv
  <2>3. CASE b.do = "write"
    <3>1. b.reg = "iomux"
      BY <2>1, <2>3, SetShape
    <3>2. a.do = "write" => Word(a) # Word(b)
      BY <1>4, <3>1 DEF HandlerAcc, Word
    <3> QED BY <1>4, <1>5, <2>1, <2>2, <3>2, DoneKept DEF HandlerAcc
  <2>4. CASE b.do # "write"
    BY <1>4, <1>5, <2>1, <2>2, <2>4, SetShape DEF Done, Changes, Bits, HandlerAcc
  <2> QED BY <2>3, <2>4
<1> QED BY <1>7, <1>8, <1>9, <1>10, <1>11 DEF PinInv

-----------------------------------------------------------------------------
(* The tool.                                                               *)
LEMMA SetFields ==
  ASSUME NEW p, NEW opt, NEW a, SetAcc(a, p, opt), a.do = "write", a.reg # "cnnt"
  PROVE  \/ a = Write("iomux", p, ModeSet(opt.mode)) /\ DOMAIN a.val = {"func", "ie"}
         \/ a = Write("iomux", p, PullSet(opt.pull)) /\ DOMAIN a.val = {"wpu", "wpd"}
<1>1. /\ OutAcc(p, opt).do = "bit" /\ SelAcc(p).do = "sel" /\ OeAcc(p, opt.mode).do = "bit"
      /\ Read("iomux", p).do = "read"
  BY DEF OutAcc, SelAcc, OeAcc, Read, Acc
<1>2. a \in {Write("iomux", p, ModeSet(opt.mode)), Write("iomux", p, PullSet(opt.pull))}
  BY <1>1 DEF SetAcc, UpdateAccs
<1>3. DOMAIN ModeSet(opt.mode) = {"func", "ie"} /\ DOMAIN PullSet(opt.pull) = {"wpu", "wpd"}
  <2>1. DOMAIN ModeSet(opt.mode) = {"func", "ie"}
    BY DEF ModeSet
  <2>2. DOMAIN PullSet(opt.pull) = {"wpu", "wpd"}
    BY DEF PullSet
  <2> QED BY <2>1, <2>2
<1>4. \A set : Write("iomux", p, set).val = set
  BY DEF Write, Acc
<1> QED BY <1>2, <1>3, <1>4

(* Two accesses of one set do not undo each other.                         *)
LEMMA SetApart ==
  ASSUME NEW p \in Pins, NEW opt, NEW a, NEW b, SetAcc(a, p, opt), SetAcc(b, p, opt), a # b,
         b.reg # "cnnt"
  PROVE  /\ a.do = "write" /\ b.do = "write" /\ Word(a) = Word(b) =>
               \A f \in DOMAIN b.val : f \notin DOMAIN a.val
         /\ a.do \in {"sel", "bit"} => a.reg # b.reg
<1>1. ASSUME a.do = "write", b.do = "write", Word(a) = Word(b), NEW f \in DOMAIN b.val
      PROVE  f \notin DOMAIN a.val
  <2>1. a.reg # "cnnt"
    BY <1>1 DEF Word
  <2> QED BY <1>1, <2>1, SetFields
<1>2. ASSUME a.do \in {"sel", "bit"} PROVE a.reg # b.reg
  <2>1. \A set : \A x \in UpdateAccs(p, set) : x.reg = "iomux" /\ x.do \in {"read", "write"}
    BY DEF UpdateAccs, Read, Write, Acc
  <2>2. OutAcc(p, opt).reg = "outbit" /\ SelAcc(p).reg = "out" /\ OeAcc(p, opt.mode).reg = "oe"
    BY DEF OutAcc, SelAcc, OeAcc, Acc
  <2>3. a \in {OutAcc(p, opt), SelAcc(p), OeAcc(p, opt.mode)}
    BY <1>2, <2>1 DEF SetAcc
  <2>4. b \in {OutAcc(p, opt), SelAcc(p), OeAcc(p, opt.mode)} \/ b.reg = "iomux"
    BY <2>1 DEF SetAcc
  <2> QED BY <2>2, <2>3, <2>4
<1> QED BY <1>1, <1>2

LEMMA ToolKeeps ==
  ASSUME PinInv, ToolStep
  PROVE  PinInv'
<1> DEFINE a == Head(tool)
           t == Tail(tool)
<1>1. IsProgram(tool) /\ Paired(tool) /\ tool # <<>> /\ tset.pc = "set"
  BY DEF ToolStep, PinInv, ProgramInv
<1>2. /\ IsProgram(t) /\ Paired(t) /\ a = tool[1] /\ ToSet(tool) = {a} \cup ToSet(t)
      /\ 1 \in DOMAIN tool /\ \A i \in DOMAIN t : i \in Nat /\ i + 1 \in DOMAIN tool /\ t[i] = tool[i + 1]
      /\ t # <<>> => 2 \in DOMAIN tool /\ Head(t) = tool[2]
  <2>1. 1 \in DOMAIN tool /\ \A i \in DOMAIN t : i \in Nat
    BY <1>1, ProgramTail, ProgramAt
  <2> HIDE DEF t
  <2> QED BY <1>1, <2>1, ProgramTail DEF t
<1>3. /\ ~Serving /\ (task # <<>> => ~Head(task).off)
      /\ Access(a, ttmp) /\ ttmp' = Latch(a)
      /\ call' = IF call.pin = tset.pin THEN [call EXCEPT !.clean = FALSE] ELSE call
      /\ tool' = t
      /\ UNCHANGED <<owner, task, tmp, todo, chained, htmp, tset, raced, fresh, event>>
  BY DEF ToolStep, Quiet, core, service
<1> HIDE DEF a, t
<1> DEFINE p == tset.pin
           opt == tset.cmd.opt
<1>4. /\ p \in Pins /\ SetAcc(a, p, opt) /\ \A b \in ToolAccs(p, opt) : SetAcc(b, p, opt)
  BY <1>1, ToolRuns DEF PinInv, a
<1> HIDE DEF p, opt
<1>5. /\ a.do \in {"read", "write", "sel", "bit"}
      /\ a.do \in {"read", "write"} => Word(a) \in Words /\ a.reg \in {"cnnt", "iomux"}
      /\ a.do \in {"sel", "bit"} => a.pin = p
      /\ a.do = "write" => ttmp = regs[Word(a)] \/ Word(a) \in raced
      /\ a.do = "bit" => a.reg \in {"oe", "outbit"} /\ a.val \in BOOLEAN
      /\ a.do = "sel" => a.reg = "out"
      /\ a.reg # "cnnt" => a.pin = p
  <2>1. a.do = "write" => ttmp = regs[Word(a)] \/ Word(a) \in raced
    BY <1>1 DEF PinInv, WordInv, a
  <2> QED BY <1>4, <2>1, SetShape
<1>6. Changes(a, ttmp)
  BY <1>3, <1>5, AccessChanges DEF PinInv
<1>7. task # <<>> => Head(task).do # "write"
  BY <1>3, TaskOpen
<1>8. /\ call' = [op |-> call'.op, pin |-> call'.pin, val |-> call'.val, clean |-> call'.clean]
      /\ call'.op = call.op /\ call'.pin = call.pin /\ call'.val = call.val
      /\ call'.clean => call.clean /\ call.pin # p
  <2>1. call = [op |-> call.op, pin |-> call.pin, val |-> call.val, clean |-> call.clean]
    BY DEF PinInv, ProgramInv, TypeOfRun
  <2>2. CASE call.pin = p
    <3>1. call' = [op |-> call.op, pin |-> call.pin, val |-> call.val, clean |-> FALSE]
      <4>1. call' = [call EXCEPT !.clean = FALSE]
        BY <1>3, <2>2 DEF p
      <4> QED BY <2>1, <4>1
    <3> QED BY <3>1
  <2>3. CASE call.pin # p
    BY <1>3, <2>1, <2>3 DEF p
  <2> QED BY <2>2, <2>3
<1>9. ProgramInv'
  <2>1. TypeOfRun'
    BY <1>3, <1>8 DEF TypeOfRun, PinInv, ProgramInv
  <2>2. ASSUME NEW b \in ToSet(task) PROVE TaskAcc(b, call')
    <3>1. TaskAcc(b, call)
      BY DEF PinInv, ProgramInv
    <3> QED BY <1>8, <3>1 DEF TaskAcc, CallAcc
  <2> QED BY <1>1, <1>2, <1>3, <2>1, <2>2 DEF PinInv, ProgramInv
<1>10. WordInv'
  <2>1. ChangesKept'
    BY <1>3, <1>5, <1>6, WritesKept DEF PinInv
  <2>2. ASSUME t # <<>>, Head(t).do = "write" PROVE ttmp' = regs'[Word(Head(t))]
    <3>1. a.do = "read" /\ Word(a) = Word(Head(t))
      BY <1>1, <1>2, <2>2 DEF Paired
    <3> QED BY <1>3, <1>5, <1>6, <3>1 DEF Latch, Word, Changes
  <2>3. chained = <<>> /\ ~Serving'
    BY <1>3 DEF Serving
  <2> QED BY <1>3, <1>6, <1>7, <2>1, <2>2, <2>3 DEF WordInv, Changes
<1>11. EdgeInv'
  <2>1. /\ status' = status
        /\ latched' = [q \in Pins |-> IF q \in status' THEN latched[q] ELSE Nothing]
    BY <1>3, <1>5 DEF Access
  <2>2. ASSUME NEW q \in Pins PROVE Type(q)' = Type(q)
    <3>1. <<"pin", q>> \in Words
      BY WordsOf
    <3>2. a.do = "write" => Word(a) # <<"pin", q>>
      BY <1>5 DEF Word
    <3> QED BY <1>6, <3>1, <3>2 DEF Changes, Type
  <2> QED BY <1>3, <2>1, <2>2 DEF PinInv, EdgeInv, EventsMatchType
<1>12. DriveInv'
  <2>1. call.pin # p => (call.pin \in oe' <=> call.pin \in oe) /\ (call.pin \in out' <=> call.pin \in out)
    BY <1>5, <1>6 DEF Changes, Bits
  <2>2. \A i \in DOMAIN t : i > 1 => t[i].reg # "outbit"
    BY <1>2 DEF PinInv, DriveInv
  <2> QED BY <1>3, <1>8, <2>1, <2>2 DEF PinInv, DriveInv
<1>13. ToolInv'
  <2> SUFFICES ASSUME tset.clean, NEW b \in ToolAccs(p, opt), b.reg # "cnnt", b \notin ToSet(t),
                      ~(b.do = "write" /\ Word(b) \in raced)
               PROVE  Done(b)'
    BY <1>3 DEF ToolInv, p, opt
  <2>1. SetAcc(b, p, opt)
    BY <1>4
  <2>2. CASE b = a
    <3>1. CASE a.do = "write"
      <4>1. DOMAIN a.val \subseteq Fields(Word(a))
        <5>1. DOMAIN a.val \subseteq {"func", "ie", "wpu", "wpd"}
          BY <1>4, <2>2, <3>1, SetFields
        <5>2. a.reg = "iomux"
          BY <1>5, <2>2, <3>1
        <5> QED BY <5>1, <5>2 DEF Fields, Word
      <4> QED BY <1>6, <2>2, <3>1, <4>1 DEF Changes, Done
    <3>2. CASE a.do = "sel"
      BY <1>4, <1>5, <1>6, <2>2, <3>2 DEF Changes, Done
    <3>3. CASE a.do = "bit"
      <4>1. a.reg = "oe" => (a.pin \in oe') = a.val
        BY <1>5, <1>6, <3>3 DEF Changes, Bits
      <4>2. a.reg = "outbit" => (a.pin \in out') = a.val
        BY <1>5, <1>6, <3>3 DEF Changes, Bits
      <4> QED BY <1>5, <2>2, <3>3, <4>1, <4>2 DEF Done
    <3>4. CASE a.do = "read"
      BY <2>2, <3>4 DEF Done
    <3> QED BY <1>5, <3>1, <3>2, <3>3, <3>4
  <2>3. CASE b # a
    <3>1. Done(b)
      BY <1>1, <1>2, <2>3 DEF PinInv, ToolInv, p, opt
    <3>2. /\ a.do = "write" /\ b.do = "write" /\ Word(a) = Word(b) =>
                \A f \in DOMAIN b.val : f \notin DOMAIN a.val
          /\ a.do \in {"sel", "bit"} => a.reg # b.reg
      BY <1>4, <2>1, <2>3, SetApart
    <3>3. CASE a.do = "write" /\ Word(a) = Word(b)
      <4>1. CASE b.do = "write"
        <5>1. DOMAIN b.val \subseteq Fields(Word(b))
          <6>1. DOMAIN b.val \subseteq {"func", "ie", "wpu", "wpd"}
            BY <2>1, <4>1, SetFields
          <6>2. b.reg = "iomux"
            BY <1>4, <2>1, <4>1, SetShape
          <6> QED BY <6>1, <6>2 DEF Fields, Word
        <5>2. \A f \in DOMAIN b.val : regs[Word(b)][f] = b.val[f]
          BY <3>1, <4>1 DEF Done
        <5>3. ttmp = regs[Word(b)]
          BY <1>5, <3>3, <4>1
        <5>4. \A f \in DOMAIN b.val : regs'[Word(b)][f] = b.val[f]
          BY <1>6, <3>2, <3>3, <4>1, <5>1, <5>2, <5>3 DEF Changes
        <5> QED BY <4>1, <5>4 DEF Done
      <4>2. CASE b.do # "write"
        <5>1. b.do = "read" \/ b.do \in {"sel", "bit"}
          BY <1>4, <2>1, <4>2, SetShape
        <5>2. b.do \in {"sel", "bit"} => b.reg \in {"out", "oe", "outbit"}
          BY <1>4, <2>1, SetShape
        <5>3. b.do = "read"
          BY <1>5, <3>3, <5>1, <5>2 DEF Word
        <5> QED BY <5>3 DEF Done
      <4> QED BY <4>1, <4>2
    <3>4. CASE ~(a.do = "write" /\ Word(a) = Word(b))
      BY <1>4, <1>6, <2>1, <3>1, <3>2, <3>4, DoneKept
    <3> QED BY <3>3, <3>4
  <2> QED BY <2>2, <2>3
<1> QED BY <1>9, <1>10, <1>11, <1>12, <1>13 DEF PinInv

LEMMA ToolOpenDoneKeep ==
  ASSUME PinInv, ToolOpen \/ ToolDone
  PROVE  PinInv'
<1>1. /\ UNCHANGED <<regs, out, oe, outSel, inSel, status, owner, call, task, tmp, todo, chained>>
      /\ UNCHANGED <<htmp, tool, ttmp, meant, raced, fresh, latched, event>>
  BY DEF ToolOpen, ToolDone, registers, pads, core, service, history
<1>2. /\ tset' = [pc |-> tset'.pc, cmd |-> tset'.cmd, nums |-> tset'.nums, used |-> tset'.used,
                  pin |-> tset'.pin, clean |-> tset'.clean]
      /\ tset'.pc \in {"next", "end"} /\ tool = <<>>
      /\ tset'.pc = "next" => tset'.cmd \in Commands
  <2>1. CASE ToolOpen
    <3>1. tool = <<>>
      BY <2>1 DEF ToolOpen, PinInv, ProgramInv
    <3>2. PICK cmd \in Commands :
            tset' = [pc |-> "next", cmd |-> cmd, nums |-> cmd.nums,
                     used |-> {p \in Pins : owner[p] # "free"}, pin |-> NoGpio, clean |-> TRUE]
      BY <2>1 DEF ToolOpen
    <3> QED BY <3>1, <3>2
  <2>2. CASE ToolDone
    <3>1. tool = <<>> /\ tset.pc \in {"set", "next"} /\ tset.cmd \in Commands
      BY <2>2 DEF ToolDone, PinInv, ProgramInv
    <3>2. tset = [pc |-> tset.pc, cmd |-> tset.cmd, nums |-> tset.nums, used |-> tset.used,
                  pin |-> tset.pin, clean |-> tset.clean]
      BY DEF PinInv, ProgramInv, TypeOfRun
    <3>3. CASE tset.pc = "set"
      <4>1. tset' = [tset EXCEPT !.pc = "next"]
        BY <2>2, <3>3 DEF ToolDone
      <4>2. tset' = [pc |-> "next", cmd |-> tset.cmd, nums |-> tset.nums, used |-> tset.used,
                     pin |-> tset.pin, clean |-> tset.clean]
        BY <3>2, <4>1
      <4> QED BY <3>1, <4>2
    <3>4. CASE tset.pc # "set"
      <4>1. tset' = [ToolOff EXCEPT !.pc = "end"]
        BY <2>2, <3>4 DEF ToolDone
      <4>2. tset' = [pc |-> "end", cmd |-> Nothing, nums |-> {}, used |-> {}, pin |-> NoGpio,
                     clean |-> TRUE]
        BY <4>1 DEF ToolOff
      <4> QED BY <3>1, <4>2
    <3> QED BY <3>3, <3>4
  <2> QED BY <2>1, <2>2
<1>3. ProgramInv'
  BY <1>1, <1>2 DEF PinInv, ProgramInv, TypeOfRun
<1>4. WordInv' /\ DriveInv'
  BY <1>1 DEF PinInv, WordInv, ChangesKept, Serving, DriveInv
<1>5. EdgeInv' /\ ToolInv'
  BY <1>1, <1>2 DEF PinInv, EdgeInv, EventsMatchType, Type, ToolInv
<1> QED BY <1>3, <1>4, <1>5 DEF PinInv

LEMMA SetKeeps ==
  ASSUME PinInv, do_gpio_set
  PROVE  PinInv'
<1>1. /\ UNCHANGED <<regs, out, oe, outSel, inSel, status, owner, call, task, tmp, todo, chained>>
      /\ UNCHANGED <<htmp, ttmp, meant, raced, fresh, latched, event>>
      /\ tset.pc = "next" /\ tool = <<>>
  BY DEF do_gpio_set, registers, pads, core, service, history, PinInv, ProgramInv
<1> DEFINE n == CHOOSE m \in tset.nums : \A k \in tset.nums : m <= k
           p == num_to_gpio(n, tset.cmd.header)
           opt == tset.cmd.opt
           s == SetProgram(p, opt)
           alone == task = <<>> \/ call.pin # p
           skip == \/ p = NoGpio \/ set_refusal(p) \/ NotAnOutput(p, opt) \/ s = <<>>
<1>2. \/ tset' = [tset EXCEPT !.nums = @ \ {n}] /\ tool' = tool
      \/ /\ tset' = [tset EXCEPT !.nums = @ \ {n}, !.pc = "set", !.pin = p, !.clean = alone]
         /\ tool' = s /\ p # NoGpio /\ ~set_refusal(p)
  <2>1. IF skip THEN tset' = [tset EXCEPT !.nums = @ \ {n}] /\ UNCHANGED tool
        ELSE /\ tset' = [tset EXCEPT !.nums = @ \ {n}, !.pc = "set", !.pin = p, !.clean = alone]
             /\ tool' = s
    BY DEF do_gpio_set
  <2> QED BY <2>1
<1>3. p # NoGpio /\ ~set_refusal(p) => p \in Pins
  <2> SUFFICES ASSUME p # NoGpio, ~set_refusal(p) PROVE p \in Pins
    OBVIOUS
  <2>1. p \in 0 .. 61
    BY NumInRange
  <2> HIDE DEF p
  <2>2. p \notin Reserved
    BY DEF set_refusal
  <2> QED BY <2>1, <2>2, PinsAssumption
<1>4. /\ tset = [pc |-> tset.pc, cmd |-> tset.cmd, nums |-> tset.nums, used |-> tset.used,
                 pin |-> tset.pin, clean |-> tset.clean]
      /\ tset.cmd \in Commands
  BY <1>1 DEF PinInv, ProgramInv, TypeOfRun
<1>5. /\ IsProgram(s) /\ Paired(s)
      /\ s # <<>> => Head(s).do # "write"
  <2>1. Fresh(s)
    BY SetIs
  <2> HIDE DEF s
  <2>2. s # <<>> => Head(s) = s[1]
    BY <2>1, ProgramTail DEF Fresh
  <2> QED BY <2>1, <2>2 DEF Fresh
<1>6. \A i \in DOMAIN s : i > 1 => s[i].reg # "outbit"
  BY SetIs
<1>7. ToSet(s) = ToolAccs(p, opt)
  BY DEF ToolAccs
<1> HIDE DEF n, p, s, alone
<1>8. CASE tset' = [tset EXCEPT !.nums = @ \ {n}] /\ tool' = tool
  <2>1. tset' = [pc |-> tset.pc, cmd |-> tset.cmd, nums |-> tset.nums \ {n}, used |-> tset.used,
                 pin |-> tset.pin, clean |-> tset.clean]
    BY <1>4, <1>8
  <2>2. ProgramInv'
    BY <1>1, <1>4, <1>8, <2>1 DEF PinInv, ProgramInv, TypeOfRun
  <2>3. WordInv' /\ DriveInv'
    BY <1>1, <1>8 DEF PinInv, WordInv, ChangesKept, Serving, DriveInv
  <2>4. EdgeInv' /\ ToolInv'
    BY <1>1, <2>1 DEF PinInv, EdgeInv, EventsMatchType, Type, ToolInv
  <2> QED BY <2>2, <2>3, <2>4 DEF PinInv
<1>9. CASE /\ tset' = [tset EXCEPT !.nums = @ \ {n}, !.pc = "set", !.pin = p, !.clean = alone]
           /\ tool' = s /\ p # NoGpio /\ ~set_refusal(p)
  <2>1. tset' = [pc |-> "set", cmd |-> tset.cmd, nums |-> tset.nums \ {n}, used |-> tset.used,
                 pin |-> p, clean |-> alone]
    BY <1>4, <1>9
  <2>2. ProgramInv'
    BY <1>1, <1>3, <1>4, <1>5, <1>7, <1>9, <2>1 DEF PinInv, ProgramInv, TypeOfRun
  <2>3. WordInv' /\ DriveInv'
    BY <1>1, <1>5, <1>6, <1>9 DEF PinInv, WordInv, ChangesKept, Serving, DriveInv
  <2>4. EdgeInv'
    BY <1>1 DEF PinInv, EdgeInv, EventsMatchType, Type
  <2>5. ToolInv'
    BY <1>7, <1>9, <2>1 DEF ToolInv
  <2> QED BY <2>2, <2>3, <2>4, <2>5 DEF PinInv
<1> QED BY <1>2, <1>8, <1>9

LEMMA PinSteps ==
  ASSUME PinInv, [PinNext]_pinVars
  PROVE  PinInv'
<1>1. CASE UNCHANGED pinVars
  <2>1. /\ UNCHANGED <<regs, out, oe, outSel, inSel, status, owner, call, task, tmp, todo, chained>>
        /\ UNCHANGED <<htmp, tool, ttmp, tset, meant, raced, fresh, latched, event>>
    BY <1>1 DEF pinVars, registers, pads, core, service, history
  <2>2. ProgramInv'
    BY <2>1 DEF PinInv, ProgramInv, TypeOfRun
  <2>3. WordInv'
    BY <2>1 DEF PinInv, WordInv, ChangesKept, Serving
  <2>4. DriveInv'
    BY <2>1 DEF PinInv, DriveInv
  <2>5. EdgeInv'
    BY <2>1 DEF PinInv, EdgeInv, EventsMatchType, Type
  <2>6. ToolInv'
    BY <2>1 DEF PinInv, ToolInv, Done
  <2> QED BY <2>2, <2>3, <2>4, <2>5, <2>6 DEF PinInv
<1>2. CASE PinNext
  <2>1. CASE \E p \in Pins : PadChange(p)
    BY <2>1, PadsKeep
  <2>2. CASE \E p \in Pins :
                \/ RequestGpio(p) \/ FreePin(p) \/ FreeIrq(p)
                \/ \E c \in Cells : SetMux(p, c)
                \/ \E high \in BOOLEAN : UseGpio(p, high)
                \/ \E c \in Configs : Configure(p, c)
                \/ \E t \in IrqTypes : RequestIrq(p, t) \/ ChangeType(p, t)
    BY <2>2, CallsKeep
  <2>3. CASE TaskStep
    BY <2>3, TaskKeeps
  <2>4. CASE (\E b \in 0 .. 1 : TakeInterrupt(b)) \/ esp32s31_gpio_irq_handler
    BY <2>4, InterruptKeeps
  <2>5. CASE HandlerStep
    BY <2>5, HandlerKeeps
  <2>6. CASE ToolOpen \/ ToolDone
    BY <2>6, ToolOpenDoneKeep
  <2>7. CASE do_gpio_set
    BY <2>7, SetKeeps
  <2>8. CASE ToolStep
    BY <2>8, ToolKeeps
  <2> QED BY <1>2, <2>1, <2>2, <2>3, <2>4, <2>5, <2>6, <2>7, <2>8 DEF PinNext
<1> QED BY <1>1, <1>2

-----------------------------------------------------------------------------
(* What the invariant says.                                                *)
LEMMA PinAlways == PinInit /\ [][PinNext]_pinVars => []PinInv
<1>1. PinInit => PinInv
  BY PinStarts
<1>2. PinInv /\ [PinNext]_pinVars => PinInv'
  BY PinSteps
<1> QED BY <1>1, <1>2, PTL

LEMMA EdgesFollow == PinInv => EdgesReachConsumer
BY DEF PinInv, EdgeInv, EdgesReachConsumer, NoEdgeLost

LEMMA ShownFollows == PinInv => SetIsShown
<1> SUFFICES ASSUME PinInv, tset.pc = "set", tool = <<>>, tset.clean,
                    <<"iomux", tset.pin>> \notin raced
             PROVE  LET st == pin_get(tset.pin)
                        opt == tset.cmd.opt
                    IN /\ opt.mode \notin {Nothing, "a1"} =>
                             \/ st.mode = opt.mode
                             \/ st.mode = "mx" /\ \E s \in Sigs : inSel[s] = tset.pin
                       /\ opt.pull # Nothing => /\ st.wpu = (opt.pull = "up")
                                                /\ st.wpd = (opt.pull = "down")
                       /\ opt.drive # Nothing => st.out = (opt.drive = "dh")
  BY DEF SetIsShown
<1> DEFINE p == tset.pin
           opt == tset.cmd.opt
           s == SetProgram(p, opt)
           mux == regs[<<"iomux", p>>]
<1>1. /\ p \in Pins /\ opt.mode \in {Nothing, "op", "ip", "no", "a0", "a1", "a2", "a3", "a4"}
  BY ToolRuns, PinsAssumption DEF PinInv, Nothing
<1>2. \A a \in ToSet(s) : a.reg = "cnnt" \/ Done(a) \/ (a.do = "write" /\ Word(a) \in raced)
  BY FreshNone DEF PinInv, ToolInv, ToolAccs
<1>3. /\ opt.drive # Nothing => OutAcc(p, opt) \in ToSet(s)
      /\ HasMatrix(opt) => SelAcc(p) \in ToSet(s) /\ OeAcc(p, opt.mode) \in ToSet(s)
      /\ opt.mode # Nothing => UpdateAccs(p, ModeSet(opt.mode)) \subseteq ToSet(s)
      /\ opt.pull # Nothing => UpdateAccs(p, PullSet(opt.pull)) \subseteq ToSet(s)
  BY SetIs
<1>4. ASSUME NEW set, UpdateAccs(p, set) \subseteq ToSet(s)
      PROVE  \A f \in DOMAIN set : mux[f] = set[f]
  <2> DEFINE w == Write("iomux", p, set)
  <2>1. w.do = "write" /\ w.reg = "iomux" /\ w.pin = p /\ w.val = set
    BY DEF Write, Acc
  <2>2. w \in ToSet(s)
    BY <1>4 DEF UpdateAccs
  <2> HIDE DEF w, s
  <2>3. Word(w) = <<"iomux", p>>
    BY <2>1 DEF Word
  <2>4. Done(w)
    BY <1>2, <2>1, <2>2, <2>3
  <2> QED BY <2>1, <2>3, <2>4 DEF Done
<1> HIDE DEF s
<1>5. pin_get(p).wpu = mux.wpu /\ pin_get(p).wpd = mux.wpd /\ pin_get(p).out = (p \in out)
  BY DEF pin_get
<1>6. pin_get(p).mode = IF mux.func # 1 THEN Alts[mux.func + 1]
                        ELSE IF matrix_signals(p) THEN "mx"
                        ELSE IF p \in oe THEN "op" ELSE IF mux.ie THEN "ip" ELSE "no"
  BY DEF pin_get
<1> HIDE DEF p, opt, mux
<1>7. ASSUME opt.mode \notin {Nothing, "a1"}
      PROVE  \/ pin_get(p).mode = opt.mode
             \/ pin_get(p).mode = "mx" /\ \E x \in Sigs : inSel[x] = p
  <2>1. \A f \in DOMAIN ModeSet(opt.mode) : mux[f] = ModeSet(opt.mode)[f]
    BY <1>3, <1>4, <1>7
  <2>2. Range(Alts) = {"a0", "a1", "a2", "a3", "a4"}
    BY DEF Range, Alts
  <2>3. CASE opt.mode \in Range(Alts)
    <3> DEFINE g == Func(opt.mode)
    <3>1. g \in 0 .. 4 /\ Alts[g + 1] = opt.mode
      <4>1. \E f \in 0 .. 4 : Alts[f + 1] = opt.mode
        BY <2>2, <2>3 DEF Alts
      <4> QED BY <4>1 DEF Func
    <3> HIDE DEF g
    <3>2. mux.func = g
      <4>1. ModeSet(opt.mode) = [func |-> g, ie |-> TRUE]
        BY <2>3 DEF ModeSet, g
      <4> QED BY <2>1, <4>1
    <3>3. g # 1
      BY <1>7, <3>1 DEF Alts
    <3> QED BY <1>6, <3>1, <3>2, <3>3
  <2>4. CASE opt.mode \notin Range(Alts)
    <3> DEFINE on == opt.mode # "no"
    <3>1. opt.mode \in {"op", "ip", "no"} /\ HasMatrix(opt)
      BY <1>1, <1>7, <2>2, <2>4 DEF HasMatrix
    <3>2. mux.func = 1 /\ mux.ie = on
      <4>1. ModeSet(opt.mode) = [func |-> 1, ie |-> on]
        BY <2>4 DEF ModeSet
      <4> HIDE DEF on
      <4> QED BY <2>1, <4>1
    <3>3. outSel[p] = GpioOut
      <4>1. SelAcc(p).do = "sel" /\ SelAcc(p).reg = "out" /\ SelAcc(p).pin = p /\ SelAcc(p).val = GpioOut
        BY DEF SelAcc, Acc
      <4> QED BY <1>2, <1>3, <3>1, <4>1 DEF Done
    <3>4. p \in oe <=> opt.mode = "op"
      <4> DEFINE b == OeAcc(p, opt.mode)
      <4>1. b.do = "bit" /\ b.reg = "oe" /\ b.pin = p /\ b.val = (opt.mode = "op")
        BY DEF OeAcc, Acc
      <4>2. Done(b)
        BY <1>2, <1>3, <3>1, <4>1
      <4> HIDE DEF b
      <4> QED BY <4>1, <4>2 DEF Done
    <3>5. matrix_signals(p) => \E x \in Sigs : inSel[x] = p
      BY <3>3 DEF matrix_signals
    <3> QED BY <1>6, <3>1, <3>2, <3>4, <3>5
  <2> QED BY <2>3, <2>4
<1>8. ASSUME opt.pull # Nothing
      PROVE  /\ pin_get(p).wpu = (opt.pull = "up") /\ pin_get(p).wpd = (opt.pull = "down")
  <2>1. \A f \in DOMAIN PullSet(opt.pull) : mux[f] = PullSet(opt.pull)[f]
    BY <1>3, <1>4, <1>8
  <2>2. mux.wpu = (opt.pull = "up") /\ mux.wpd = (opt.pull = "down")
    BY <2>1 DEF PullSet
  <2> QED BY <1>5, <2>2
<1>9. ASSUME opt.drive # Nothing PROVE pin_get(p).out = (opt.drive = "dh")
  <2> DEFINE b == OutAcc(p, opt)
  <2>1. b.do = "bit" /\ b.reg = "outbit" /\ b.pin = p /\ b.val = (opt.drive = "dh")
    BY DEF OutAcc, Acc
  <2>2. Done(b)
    BY <1>2, <1>3, <1>9, <2>1
  <2> HIDE DEF b
  <2>3. (p \in out) = (opt.drive = "dh")
    BY <2>1, <2>2 DEF Done
  <2> QED BY <1>5, <2>3
<1> QED BY <1>7, <1>8, <1>9 DEF p, opt

LEMMA PadsStart ==
  ASSUME PinInv, [PinNext]_pinVars, NEW p \in Pins, owner[p] = "gpio", ~Drives(p), Drives(p)'
  PROVE  /\ task' # task /\ call.clean =>
                call.op = "output" /\ call.pin = p /\ (p \in out) = call.val
         /\ tool' # tool /\ tset.clean =>
                /\ tset.pin = p
                /\ tset.cmd.opt.drive # Nothing => (p \in out) = (tset.cmd.opt.drive = "dh")
<1> DEFINE w == <<"iomux", p>>
<1>1. ~UNCHANGED <<regs, outSel, oe>>
  BY DEF Drives
<1>2. w \in Words /\ w[1] = "iomux" /\ Fields(w) = {"wpu", "wpd", "ie", "drv", "func"}
  BY WordsOf DEF Fields
<1> HIDE DEF w
<1>3. CASE TaskStep
  <2> DEFINE a == Head(task)
  <2>1. /\ task # <<>> /\ Access(a, tmp) /\ tool' = tool
    BY <1>3 DEF TaskStep
  <2>2. TaskAcc(a, call) /\ (a.do = "write" => tmp = regs[Word(a)])
    BY <2>1, ProgramTail DEF PinInv, ProgramInv, WordInv
  <2>3. Changes(a, tmp)
    BY <2>1, <2>2, AccessChanges DEF PinInv, TaskAcc, CallAcc
  <2> SUFFICES ASSUME call.clean
               PROVE  call.op = "output" /\ call.pin = p /\ (p \in out) = call.val
    BY <2>1
  <2>4. a.do # "bit" => call.op # "request" \/ call.pin \notin oe
    BY <2>1 DEF PinInv, DriveInv
  <2>5. a.reg = "oe" /\ call.op = "output" => (call.pin \in out) = call.val
    BY <2>1 DEF PinInv, DriveInv
  <2>6. call.op = "mux" => call.pin # p
    BY DEF PinInv, DriveInv
  <2> HIDE DEF a
  <2>7. CASE a.do = "write"
    <3>1. outSel'[p] = outSel[p] /\ oe' = oe
      BY <2>3, <2>7 DEF Changes, Bits
    <3>2. regs'[w].func # regs[w].func /\ p \in oe
      BY <3>1 DEF Drives, w
    <3>3. Word(a) = w /\ "func" \in DOMAIN a.val
      BY <1>2, <2>2, <2>3, <2>7, <3>2 DEF Changes
    <3>4. a.pin = call.pin /\ call.op \in {"mux", "request"} /\ a.pin = p
      BY <2>2, <2>7, <3>3 DEF TaskAcc, CallAcc, Word, w
    <3> QED BY <2>4, <2>6, <2>7, <3>2, <3>4
  <2>8. CASE a.do = "sel"
    <3>1. regs'[w] = regs[w] /\ oe' = oe
      BY <1>2, <2>3, <2>8 DEF Changes, Bits
    <3>2. outSel'[p] # outSel[p] /\ p \in oe
      BY <3>1 DEF Drives, w
    <3>3. a.reg = "out" /\ a.pin = p
      BY <2>3, <3>2 DEF Changes
    <3>4. a.pin = call.pin /\ call.op \in {"mux", "request"}
      BY <2>2, <2>8, <3>3 DEF TaskAcc, CallAcc
    <3> QED BY <2>4, <2>6, <2>8, <3>2, <3>3, <3>4
  <2>9. CASE a.do = "bit"
    <3>1. regs'[w] = regs[w] /\ outSel'[p] = outSel[p]
      BY <1>2, <2>3, <2>9 DEF Changes
    <3>2. p \notin oe /\ p \in oe'
      BY <3>1 DEF Drives, w
    <3>3. a.reg = "oe" /\ a.val /\ a.pin = p
      BY <2>3, <3>2 DEF Changes, Bits
    <3>4. call.op = "output" /\ a.pin = call.pin
      BY <2>2, <2>9, <3>3 DEF TaskAcc, CallAcc
    <3> QED BY <2>5, <3>3, <3>4
  <2>10. CASE a.do \in {"read", "ack"}
    <3>1. regs'[w] = regs[w] /\ outSel'[p] = outSel[p] /\ oe' = oe
      BY <1>2, <2>3, <2>10 DEF Changes, Bits
    <3> QED BY <3>1 DEF Drives, w
  <2> QED BY <2>2, <2>7, <2>8, <2>9, <2>10 DEF TaskAcc, CallAcc
<1>4. CASE ToolStep
  <2> DEFINE a == Head(tool)
             q == tset.pin
             opt == tset.cmd.opt
  <2>1. tool # <<>> /\ Access(a, ttmp) /\ task' = task
    BY <1>4 DEF ToolStep
  <2>2. tset.pc = "set" /\ q \in Pins /\ SetAcc(a, q, opt)
    BY <2>1, ToolRuns DEF PinInv, ProgramInv
  <2>3. a.do = "write" => Word(a) \in Words
    BY <2>2, SetShape
  <2>4. Changes(a, ttmp)
    BY <2>1, <2>3, AccessChanges DEF PinInv
  <2>5. IsProgram(tool)
    BY DEF PinInv, ProgramInv
  <2> SUFFICES ASSUME tset.clean
               PROVE  /\ q = p
                      /\ opt.drive # Nothing => (p \in out) = (opt.drive = "dh")
    BY <2>1
  <2>6. q = p /\ a.reg # "outbit"
    <3> HIDE DEF a, q, opt
    <3>1. /\ regs'[w] # regs[w] \/ outSel'[p] # outSel[p] \/ (p \in oe' /\ p \notin oe)
      BY DEF Drives, w
    <3>2. CASE regs'[w] # regs[w]
      <4>1. a.do = "write" /\ Word(a) = w
        BY <1>2, <2>4, <3>2 DEF Changes
      <4>2. a.reg = "iomux" /\ a.pin = p
        BY <4>1 DEF Word, w
      <4> QED BY <2>2, <4>2, SetShape
    <3>3. CASE outSel'[p] # outSel[p]
      <4>1. a.reg = "out" /\ a.pin = p
        BY <2>4, <3>3 DEF Changes
      <4> QED BY <2>2, <4>1, SetShape
    <3>4. CASE p \in oe' /\ p \notin oe
      <4>1. a.reg = "oe" /\ a.pin = p
        BY <2>4, <3>4 DEF Changes, Bits
      <4> QED BY <2>2, <4>1, SetShape
    <3> QED BY <3>1, <3>2, <3>3, <3>4
  <2>7. ASSUME opt.drive # Nothing PROVE (q \in out) = (opt.drive = "dh")
    <3> DEFINE b == OutAcc(q, opt)
    <3>1. b.do = "bit" /\ b.reg = "outbit" /\ b.pin = q /\ b.val = (opt.drive = "dh")
      BY DEF OutAcc, Acc
    <3>2. b \in ToolAccs(q, opt)
      BY <2>7, SetIs DEF ToolAccs
    <3> HIDE DEF b
    <3>3. b \notin ToSet(tool)
      <4> SUFFICES ASSUME NEW i \in DOMAIN tool, tool[i] = b PROVE FALSE
        BY DEF ToSet
      <4>1. DOMAIN tool = 1 .. Len(tool) /\ a = tool[1]
        BY <2>1, <2>5, ProgramAt, ProgramTail
      <4>2. i > 1
        BY <2>6, <3>1, <4>1
      <4> QED BY <3>1, <4>2 DEF PinInv, DriveInv
    <3>4. Done(b)
      BY <2>2, <3>1, <3>2, <3>3 DEF PinInv, ToolInv
    <3> QED BY <3>1, <3>4 DEF Done
  <2> QED BY <2>6, <2>7
<1>5. CASE UNCHANGED <<task, tool>>
  BY <1>5
<1>6. CASE UNCHANGED pinVars
  BY <1>5, <1>6 DEF pinVars
<1>7. \/ UNCHANGED pinVars \/ TaskStep \/ ToolStep \/ UNCHANGED <<task, tool>>
      \/ UNCHANGED <<regs, outSel, oe>>
  <2>1. CASE \E x \in Pins : PadChange(x)
    BY <2>1 DEF PadChange
  <2>2. CASE \E x \in Pins :
                \/ RequestGpio(x) \/ FreePin(x) \/ FreeIrq(x)
                \/ \E c \in Cells : SetMux(x, c)
                \/ \E high \in BOOLEAN : UseGpio(x, high)
                \/ \E c \in Configs : Configure(x, c)
                \/ \E t \in IrqTypes : RequestIrq(x, t) \/ ChangeType(x, t)
    <3>1. \E op, x, v, s : Call(op, x, v, s)
      BY <2>2 DEF RequestGpio, FreePin, FreeIrq, SetMux, UseGpio, Configure, RequestIrq, ChangeType
    <3> QED BY <3>1 DEF Call, registers
  <2>3. CASE (\E b \in 0 .. 1 : TakeInterrupt(b)) \/ esp32s31_gpio_irq_handler \/ HandlerStep
    BY <2>3 DEF TakeInterrupt, esp32s31_gpio_irq_handler, HandlerStep
  <2>4. CASE ToolOpen \/ do_gpio_set \/ ToolDone
    BY <2>4 DEF ToolOpen, do_gpio_set, ToolDone, registers
  <2> QED BY <2>1, <2>2, <2>3, <2>4 DEF PinNext
<1> QED BY <1>1, <1>3, <1>4, <1>5, <1>6, <1>7

(* No change of a register field is lost, whoever is interrupted in the    *)
(* middle of a change (esp32s31_iomux_rmw, esp32s31_pin_rmw; the race that *)
(* the tool warns of excepted).                                            *)
THEOREM ChangesStay == PinInit /\ [][PinNext]_pinVars => []ChangesKept
<1>1. PinInv => ChangesKept
  BY DEF PinInv, WordInv
<1> QED BY <1>1, PinAlways, PTL

(* After an edge on a pin with an enabled interrupt, the handler of its    *)
(* consumer still runs, and only for an edge of the type in force          *)
(* (esp32s31_irq_ack, esp32s31_irq_set_type, esp32s31_gpio_irq_handler).   *)
THEOREM EdgesArrive == PinInit /\ [][PinNext]_pinVars => []EdgesReachConsumer
BY EdgesFollow, PinAlways, PTL

(* "get" shows what "set" has written (pin_set_mode, pin_get).             *)
THEOREM SetShown == PinInit /\ [][PinNext]_pinVars => []SetIsShown
BY ShownFollows, PinAlways, PTL

(* A pad of a GPIO user starts to drive in a direction_output or a set     *)
(* only, at its level (esp32s31_gpio_request_enable,                       *)
(* esp32s31_gpio_direction_output, do_gpio_set).                           *)
THEOREM PadsDriveRight == PinInit /\ [][PinNext]_pinVars => PadsStartRight
<1> DEFINE Starts == \A p \in Pins : owner[p] = "gpio" /\ ~Drives(p) /\ Drives(p)' =>
          /\ task' # task /\ call.clean =>
                call.op = "output" /\ call.pin = p /\ (p \in out) = call.val
          /\ tool' # tool /\ tset.clean =>
                /\ tset.pin = p
                /\ tset.cmd.opt.drive # Nothing =>
                      (p \in out) = (tset.cmd.opt.drive = "dh")
<1>1. PinInv /\ [PinNext]_pinVars => [Starts]_pinVars
  BY PadsStart
<1> HIDE DEF Starts
<1>2. PinInit /\ [][PinNext]_pinVars => [][Starts]_pinVars
  BY <1>1, PinAlways, PTL
<1> QED BY <1>2 DEF PadsStartRight, Starts
=============================================================================
