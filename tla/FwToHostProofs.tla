--------------------------- MODULE FwToHostProofs ---------------------------
(***************************************************************************)
(* Theorems about FwToHost, for every ring size, every wrap of the         *)
(* counters, every set of frame lengths and any number of frames, binds    *)
(* and unbinds.                                                            *)
(***************************************************************************)
EXTENDS FwToHost, ShmLayoutProofs

(* The invariant is RingInv with what each side may rely on after its      *)
(* check.  Between the check of ring_push() and its store of head the free *)
(* space can only grow, and the copy stays where it was put; between the   *)
(* load of head in esp_shm_read() and its store of tail, the first record  *)
(* stays the first.  So the length that esp_shm_read() finds is always the *)
(* one that was written, and a broken record is never seen.                *)
WritePcs == {"idle", "load", "copy", "publish", "kick", "bell", "setwait",
             "check", "take"}

WriteInv ==
  /\ wrPc \in WritePcs
  /\ wrPc # "idle" => wrFrame \in Frame
  /\ wrPc \in {"copy", "publish"} => RecordLen(wrFrame.len) + Sub(head, tail) <= Size
  /\ wrPc = "publish" => Intact(data, head, wrFrame)
  /\ nextId \in Nat

ReadInv ==
  /\ rdPc = "copy" => /\ ring # <<>>
                      /\ EntryLen(ring[1]) <= Sub(rdHead, tail)
  /\ rdPc = "free" => /\ ring # <<>>
                      /\ rdBuf.len = ring[1].frame.len
                      /\ rdBuf.id # Ids + 1 => rdBuf = ring[1].frame

ShmInv == RingInv(ring, head, tail, data) /\ WriteInv /\ ReadInv

(* WriterIsWoken needs to know what a second try of ring_push() meets: the *)
(* wait flag that was set before it, or the reader that has seen it.       *)
RetryInv ==
  wrPc = "load" /\ wrTry # 1 =>
    spaceSem \/ bellFw \/ rdPc \in {"clearwait", "bell"} \/ wait

(* What esp_shm_read() finds after it has loaded a head: the first record, *)
(* with a length that passes the check.                                    *)
LEMMA CopyFinds ==
  ASSUME RingInv(ring, head, tail, data), ReadInv, rdPc = "copy"
  PROVE  /\ ring # <<>> /\ ring[1] \in Entry
         /\ LenAt(data, tail) = ring[1].frame.len
         /\ LenOk(LenAt(data, tail), Size, rdHead, tail)
         /\ ring_copy_out(data, tail, LenAt(data, tail)) = ring[1].frame
<1>1. ring # <<>> /\ EntryLen(ring[1]) <= Sub(rdHead, tail)
  BY DEF ReadInv
<1>2. /\ ring[1] \in Entry
      /\ LenAt(data, tail) = ring[1].frame.len
      /\ ring_copy_out(data, tail, ring[1].frame.len) = ring[1].frame
  BY <1>1, RingFirst
<1>3. ring[1].frame.len \in FrameLens
  BY <1>2, EntryFacts DEF Frame
<1>4. MinLen <= ring[1].frame.len /\ ring[1].frame.len <= Size
  BY <1>3, FrameAssumption, SizeAssumption DEF FrameLens, RecordLen
<1> QED BY <1>1, <1>2, <1>4 DEF LenOk, EntryLen

LEMMA InitShm == Init => ShmInv /\ RetryInv /\ WriterIsWoken
<1> SUFFICES ASSUME Init PROVE ShmInv /\ RetryInv /\ WriterIsWoken
  OBVIOUS
<1> USE DEF Init
<1>1. RingInv(ring, head, tail, data)
  BY RingEmpty
<1>2. WriteInv
  BY DEF WriteInv, WritePcs
<1>3. ReadInv
  BY DEF ReadInv
<1>4. RetryInv /\ WriterIsWoken
  BY DEF RetryInv, WriterIsWoken
<1> QED BY <1>1, <1>2, <1>3, <1>4 DEF ShmInv

LEMMA StepShm == ShmInv /\ [Next]_vars => ShmInv'
<1> SUFFICES ASSUME ShmInv, [Next]_vars PROVE ShmInv'
  OBVIOUS
<1> USE DEF shmVars, bellVars, wrVars, linuxVars, histVars
<1>a. RingInv(ring, head, tail, data) /\ WriteInv /\ ReadInv
  BY DEF ShmInv
<1>b. /\ head \in Count /\ tail \in Count /\ ring \in Seq(Entry)
      /\ Sub(head, tail) \in Nat
  BY <1>a, SubType DEF RingInv, Counters
<1>1. CASE \/ shm_write \/ PushLoad \/ PushKick \/ WriteSetWait \/ WriteInTime
           \/ WriteTake \/ WriteBell \/ WriteLate
  <2> USE DEF shm_write, PushLoad, PushKick, WriteSetWait, WriteInTime, WriteTake,
              WriteBell, WriteLate
  <2>1. UNCHANGED <<ring, head, tail, data, rdPc, rdHead, rdBuf>>
    BY <1>1
  <2>2. RingInv(ring, head, tail, data)' /\ ReadInv'
    BY <1>a, <2>1 DEF ReadInv
  <2>3. CASE shm_write
    <3>1. PICK len \in Lens : wrFrame' = [id |-> nextId, len |-> len]
      BY <2>3
    <3>2. wrFrame' \in Frame
      BY <1>a, <2>3, <3>1, RxAssumption, IdsAssumption DEF Frame, WriteInv
    <3>3. wrPc' = "load" /\ nextId' \in Nat
      BY <1>a, <2>3 DEF WriteInv
    <3>4. WriteInv'
      BY <3>2, <3>3 DEF WriteInv, WritePcs
    <3> QED BY <2>2, <3>4 DEF ShmInv
  <2>4. CASE PushLoad
    <3>1. RecordLen(wrFrame.len) \in Nat
      BY <1>a, <2>4, RecordLenBounds DEF WriteInv, Frame
    <3>2. wrPc' = "copy" => RecordLen(wrFrame.len) + Sub(head, tail) <= Size
      BY <1>b, <2>4, <3>1, SizeAssumption
    <3>3. wrPc' \in {"copy", "setwait", "check"} /\ wrFrame' = wrFrame /\ nextId' = nextId
      BY <2>4
    <3>4. wrFrame \in Frame
      BY <1>a, <2>4 DEF WriteInv
    <3>5. WriteInv'
      BY <1>a, <2>1, <3>2, <3>3, <3>4 DEF WriteInv, WritePcs
    <3> QED BY <2>2, <3>5 DEF ShmInv
  <2>5. CASE PushKick \/ WriteSetWait \/ WriteInTime \/ WriteTake
    <3>1. /\ wrPc' \in {"bell", "load", "take"} /\ wrFrame' = wrFrame
          /\ nextId' = nextId /\ wrPc # "idle"
      BY <2>5
    <3>2. WriteInv'
      BY <1>a, <3>1 DEF WriteInv, WritePcs
    <3> QED BY <2>2, <3>2 DEF ShmInv
  <2>6. CASE WriteBell \/ WriteLate
    <3>1. wrPc' = "idle" /\ nextId' = nextId
      BY <2>6
    <3>2. WriteInv'
      BY <1>a, <3>1 DEF WriteInv, WritePcs
    <3> QED BY <2>2, <3>2 DEF ShmInv
  <2> QED BY <1>1, <2>3, <2>4, <2>5, <2>6
<1>2. CASE PushCopy
  <2> USE DEF PushCopy
  <2>1. wrFrame \in Frame /\ RecordLen(wrFrame.len) + Sub(head, tail) <= Size
    BY <1>a, <1>2 DEF WriteInv
  <2>2. /\ RingInv(ring, head, tail, ring_copy_in(data, head, wrFrame))
        /\ Intact(ring_copy_in(data, head, wrFrame), head, wrFrame)
    BY <1>a, <2>1, RingCopy
  <2>3. /\ data' = ring_copy_in(data, head, wrFrame)
        /\ UNCHANGED <<ring, head, tail, wrFrame, nextId, rdPc, rdHead, rdBuf>>
        /\ wrPc' = "publish"
    BY <1>2
  <2>4. RingInv(ring, head, tail, data)' /\ Intact(data, head, wrFrame)'
    BY <2>2, <2>3
  <2>5. WriteInv'
    BY <1>a, <2>1, <2>3, <2>4 DEF WriteInv, WritePcs
  <2>6. ReadInv'
    BY <1>a, <2>3 DEF ReadInv
  <2> QED BY <2>4, <2>5, <2>6 DEF ShmInv
<1>3. CASE PushPublish
  <2> USE DEF PushPublish
  <2>1. /\ wrFrame \in Frame /\ RecordLen(wrFrame.len) + Sub(head, tail) <= Size
        /\ Intact(data, head, wrFrame)
    BY <1>a, <1>3 DEF WriteInv
  <2>2. RingInv(Append(ring, [pos |-> head, frame |-> wrFrame]),
                Add(head, RecordLen(wrFrame.len)), tail, data)
    BY <1>a, <2>1, RingPush
  <2>3. /\ ring' = Append(ring, [pos |-> head, frame |-> wrFrame])
        /\ head' = Add(head, RecordLen(wrFrame.len))
        /\ UNCHANGED <<tail, data, wrFrame, nextId, rdPc, rdHead, rdBuf>>
        /\ wrPc' = "kick"
    BY <1>3
  <2>4. RingInv(ring, head, tail, data)'
    BY <2>2, <2>3
  <2>5. WriteInv'
    BY <1>a, <2>1, <2>3 DEF WriteInv, WritePcs
  <2>6. ring # <<>> => ring' # <<>> /\ ring'[1] = ring[1]
    BY <1>b, <2>3
  <2>7. ReadInv'
    BY <1>a, <2>3, <2>6 DEF ReadInv
  <2> QED BY <2>4, <2>5, <2>7 DEF ShmInv
<1>4. CASE ReadLoad
  <2> USE DEF ReadLoad
  <2>1. /\ UNCHANGED <<ring, head, tail, data, wrPc, wrFrame, nextId>>
        /\ rdPc' \in {"idle", "copy"}
    BY <1>4
  <2>2. rdPc' = "copy" => ring # <<>> /\ EntryLen(ring[1]) <= Sub(rdHead', tail)
    <3> SUFFICES ASSUME rdPc' = "copy"
                 PROVE  ring # <<>> /\ EntryLen(ring[1]) <= Sub(rdHead', tail)
      OBVIOUS
    <3>1. head # tail /\ rdHead' = head
      BY <1>4
    <3>2. ring # <<>>
      BY <1>a, <3>1 DEF RingInv, FirstAtTail
    <3> QED BY <1>a, <3>1, <3>2, RingFirst
  <2>3. RingInv(ring, head, tail, data)' /\ WriteInv'
    BY <1>a, <2>1 DEF WriteInv
  <2>4. ReadInv'
    BY <2>1, <2>2 DEF ReadInv
  <2> QED BY <2>3, <2>4 DEF ShmInv
<1>5. CASE ReadCopy \/ ReadNoMemory
  <2>1. rdPc = "copy" /\ UNCHANGED <<head, data, wrPc, wrFrame, nextId>>
    BY <1>5 DEF ReadCopy, ReadNoMemory
  <2>2. /\ ring # <<>> /\ ring[1] \in Entry
        /\ LenAt(data, tail) = ring[1].frame.len
        /\ LenOk(LenAt(data, tail), Size, rdHead, tail)
        /\ ring_copy_out(data, tail, LenAt(data, tail)) = ring[1].frame
    BY <1>a, <2>1, CopyFinds
  <2>3. /\ UNCHANGED <<ring, tail>> /\ rdPc' = "free"
        /\ rdBuf'.len = ring[1].frame.len
        /\ rdBuf'.id # Ids + 1 => rdBuf' = ring[1].frame
    <3>1. CASE ReadCopy
      BY <2>2, <3>1 DEF ReadCopy
    <3>2. CASE ReadNoMemory
      BY <2>2, <3>2 DEF ReadNoMemory, Dropped
    <3> QED BY <1>5, <3>1, <3>2
  <2>4. RingInv(ring, head, tail, data)' /\ WriteInv'
    BY <1>a, <2>1, <2>3 DEF WriteInv
  <2>5. ReadInv'
    BY <2>2, <2>3 DEF ReadInv
  <2> QED BY <2>4, <2>5 DEF ShmInv
<1>6. CASE ReadFree
  <2> USE DEF ReadFree
  <2>1. ring # <<>> /\ RecordLen(rdBuf.len) = EntryLen(ring[1])
    BY <1>a, <1>6 DEF ReadInv, EntryLen
  <2>2. /\ tail' = Add(tail, EntryLen(ring[1])) /\ ring' = Tail(ring)
        /\ UNCHANGED <<head, data, wrPc, wrFrame, nextId>> /\ rdPc' = "checkwait"
    BY <1>6, <2>1
  <2>3. RingInv(ring, head, tail, data)'
    BY <1>a, <2>1, <2>2, RingFree
  <2>4. Sub(head, tail') <= Sub(head, tail) /\ Sub(head, tail') \in Nat
    <3>1. /\ ring[1] \in Entry /\ EntryLen(ring[1]) <= Sub(head, tail)
          /\ EntryLen(ring[1]) \in Nat
      BY <1>a, <2>1, RingFirst, EntryFacts
    <3>2. Sub(head, tail') = Sub(head, tail) - EntryLen(ring[1])
      BY <1>b, <2>2, <3>1, UsedAfterFree
    <3> QED BY <1>b, <3>1, <3>2
  <2>5. wrPc \in {"copy", "publish"} => RecordLen(wrFrame.len) + Sub(head, tail') <= Size
    <3>1. wrPc \in {"copy", "publish"} =>
            /\ RecordLen(wrFrame.len) \in Nat
            /\ RecordLen(wrFrame.len) + Sub(head, tail) <= Size
      BY <1>a, RecordLenBounds DEF WriteInv, Frame
    <3> QED BY <1>b, <2>4, <3>1, SizeAssumption
  <2>6. WriteInv'
    BY <1>a, <2>2, <2>5 DEF WriteInv
  <2>7. ReadInv'
    BY <2>2 DEF ReadInv
  <2> QED BY <2>3, <2>6, <2>7 DEF ShmInv
<1>7. CASE RxWork \/ ReadCheckWait \/ ReadClearWait \/ ReadBell
  <2> USE DEF RxWork, ReadCheckWait, ReadClearWait, ReadBell
  <2>1. /\ UNCHANGED <<ring, head, tail, data, wrPc, wrFrame, nextId>>
        /\ rdPc' \in {"load", "clearwait", "bell"}
    BY <1>7
  <2>2. RingInv(ring, head, tail, data)' /\ WriteInv' /\ ReadInv'
    BY <1>a, <2>1 DEF WriteInv, ReadInv
  <2> QED BY <2>2 DEF ShmInv
<1>8. CASE \/ WriteTimeOver \/ shm_doorbell_isr \/ esp_shm_probe \/ esp_shm_remove
           \/ RemoveDone \/ esp_shm_irq \/ OtherBellHost \/ OtherBellFw
           \/ UNCHANGED vars
  <2>1. UNCHANGED <<ring, head, tail, data, wrPc, wrFrame, nextId, rdPc, rdHead, rdBuf>>
    BY <1>8 DEF WriteTimeOver, shm_doorbell_isr, esp_shm_probe, esp_shm_remove, RemoveDone,
       esp_shm_irq, OtherBellHost, OtherBellFw, vars
  <2>2. RingInv(ring, head, tail, data)' /\ WriteInv' /\ ReadInv'
    BY <1>a, <2>1 DEF WriteInv, ReadInv
  <2> QED BY <2>2 DEF ShmInv
<1> QED BY <1>1, <1>2, <1>3, <1>4, <1>5, <1>6, <1>7, <1>8 DEF Next, WriteStep, ReadStep

-----------------------------------------------------------------------------
(* The wait flag and the space: a step of the writer, of the reader, of    *)
(* the others.  The case that matters is the drop of a broken record,      *)
(* which would free space and wake nobody: CopyFinds says it never comes.  *)
LEMMA StepWoken ==
  ShmInv /\ RetryInv /\ WriterIsWoken /\ [Next]_vars => (RetryInv /\ WriterIsWoken)'
<1> SUFFICES ASSUME ShmInv, RetryInv, WriterIsWoken, [Next]_vars
             PROVE  RetryInv' /\ WriterIsWoken'
  OBVIOUS
<1> USE DEF shmVars, bellVars, wrVars, linuxVars, histVars
<1>a. RingInv(ring, head, tail, data) /\ WriteInv /\ ReadInv
  BY DEF ShmInv
<1>b. head \in Count /\ tail \in Count /\ Sub(head, tail) \in Nat
  BY <1>a, SubType DEF RingInv, Counters
<1>1. CASE PushLoad
  <2> USE DEF PushLoad
  <2>1. wrPc' # "load" /\ wrPc' # "take"
    BY <1>1
  <2>2. RetryInv'
    BY <2>1 DEF RetryInv
  <2>3. CASE wrPc' # "check"
    BY <2>1, <2>2, <2>3 DEF WriterIsWoken
  <2>4. CASE wrPc' = "check"
    <3>1. /\ wrPc = "load" /\ wrTry # 1
          /\ ~(RecordLen(wrFrame.len) <= Size - Sub(head, tail))
          /\ UNCHANGED <<head, tail, wait, bellFw, spaceSem, rdPc, wrFrame>>
      BY <1>1, <2>4
    <3>2. RecordLen(wrFrame.len) \in Nat
      BY <1>a, <3>1, RecordLenBounds DEF WriteInv, Frame
    <3>3. RecordLen(wrFrame.len) > Size - Sub(head, tail)
      BY <1>b, <3>1, <3>2, SizeAssumption
    <3>4. spaceSem \/ bellFw \/ rdPc \in {"clearwait", "bell"} \/ wait
      BY <3>1 DEF RetryInv
    <3> QED BY <2>2, <3>1, <3>3, <3>4 DEF WriterIsWoken
  <2> QED BY <2>3, <2>4
<1>2. CASE WriteSetWait
  BY <1>2 DEF WriteSetWait, RetryInv, WriterIsWoken
<1>3. CASE WriteTake \/ shm_write
  BY <1>3 DEF WriteTake, shm_write, RetryInv, WriterIsWoken
<1>4. CASE WriteInTime
  BY <1>4 DEF WriteInTime, RetryInv, WriterIsWoken
<1>5. CASE PushCopy \/ PushPublish \/ PushKick \/ WriteBell \/ WriteLate
  BY <1>5 DEF PushCopy, PushPublish, PushKick, WriteBell, WriteLate, RetryInv,
     WriterIsWoken
<1>6. CASE ReadCopy \/ ReadNoMemory
  <2>1. rdPc = "copy"
    BY <1>6 DEF ReadCopy, ReadNoMemory
  <2>2. LenOk(LenAt(data, tail), Size, rdHead, tail)
    BY <1>a, <2>1, CopyFinds
  <2>3. UNCHANGED <<head, tail, wait, bellFw, wrPc, wrFrame, wrTry, spaceSem>>
    BY <1>6, <2>2 DEF ReadCopy, ReadNoMemory
  <2> QED BY <2>1, <2>3 DEF RetryInv, WriterIsWoken
<1>7. CASE ReadFree
  BY <1>7 DEF ReadFree, RetryInv, WriterIsWoken
<1>8. CASE ReadCheckWait
  BY <1>8 DEF ReadCheckWait, RetryInv, WriterIsWoken
<1>9. CASE ReadClearWait \/ ReadBell
  BY <1>9 DEF ReadClearWait, ReadBell, RetryInv, WriterIsWoken
<1>10. CASE ReadLoad \/ RxWork
  BY <1>10 DEF ReadLoad, RxWork, RetryInv, WriterIsWoken
<1>11. CASE shm_doorbell_isr \/ OtherBellFw
  BY <1>11 DEF shm_doorbell_isr, OtherBellFw, RetryInv, WriterIsWoken
<1>12. CASE \/ WriteTimeOver \/ esp_shm_probe \/ esp_shm_remove \/ RemoveDone
            \/ esp_shm_irq \/ OtherBellHost \/ UNCHANGED vars
  BY <1>12 DEF WriteTimeOver, esp_shm_probe, esp_shm_remove, RemoveDone, esp_shm_irq,
     OtherBellHost, vars, RetryInv, WriterIsWoken
<1> QED BY <1>1, <1>2, <1>3, <1>4, <1>5, <1>6, <1>7, <1>8, <1>9, <1>10, <1>11, <1>12
        DEF Next, WriteStep, ReadStep

(* A shm_write() that waits for space has a wake-up on its way or a full   *)
(* ring in front of it, for every ring size and every frame length: the    *)
(* wait flag set before the second try is enough, also when the flag of an *)
(* earlier timeout is still set.                                           *)
THEOREM WokenCorrect == Spec => []WriterIsWoken
<1>1. Init => ShmInv /\ RetryInv /\ WriterIsWoken
  BY InitShm
<1>2. ShmInv /\ RetryInv /\ WriterIsWoken /\ [Next]_vars
        => (ShmInv /\ RetryInv /\ WriterIsWoken)'
  BY StepShm, StepWoken
<1> QED BY <1>1, <1>2, PTL DEF Spec

-----------------------------------------------------------------------------
(* The refinement of FrameChannel: each step of FwToHost is a step of the  *)
(* channel or leaves it as it is.                                          *)
LEMMA ChannelInit == Init => Channel!Init
<1> SUFFICES ASSUME Init PROVE Channel!Init
  OBVIOUS
<1>1. /\ ring = <<>> /\ ~Writing /\ wrPc = "idle" /\ rdPc = "idle"
  BY DEF Init, Writing
<1>2. InFlight = <<>>
  <2>1. <<>> \in Seq(Entry) /\ Len(<<>>) = 0
    OBVIOUS
  <2>2. Frames(<<>>) \in Seq(Frame) /\ Len(Frames(<<>>)) = 0
    BY <2>1, FramesType
  <2>3. Frames(<<>>) = <<>>
    BY <2>2
  <2> QED BY <1>1, <2>3 DEF InFlight, Frames
<1>3. Queued = <<>> /\ Handed = NoFrame /\ GivesUp = FALSE /\ HasNoMemory = FALSE
  BY <1>1 DEF Queued, Handed, GivesUp, HasNoMemory
<1> QED BY <1>2, <1>3 DEF Channel!Init

(* What the channel sees of the writer, and what it sees of the reader.    *)
SenderView == <<Queued, GivesUp>>
ReaderView == <<Handed, HasNoMemory>>

LEMMA ChannelStep == ShmInv /\ [Next]_vars => [Channel!Next]_(Channel!vars)
<1> SUFFICES ASSUME ShmInv, [Next]_vars
             PROVE  Channel!Next \/ UNCHANGED <<SenderView, InFlight, ReaderView>>
  BY DEF Channel!vars, SenderView, ReaderView
<1> USE DEF shmVars, bellVars, wrVars, linuxVars, histVars
<1>a. RingInv(ring, head, tail, data) /\ WriteInv /\ ReadInv /\ ring \in Seq(Entry)
  BY DEF ShmInv, RingInv
<1>b. Frames(ring) \in Seq(Frame) /\ (Writing => wrFrame \in Frame)
  BY <1>a, FramesType DEF WriteInv, Writing
<1>c. InFlight = Frames(ring) /\ InFlight' = Frames(ring')
  BY DEF InFlight, Frames
<1>d. UNCHANGED <<rdPc, rdBuf>> => UNCHANGED ReaderView
  BY DEF ReaderView, Handed, HasNoMemory
<1>e. UNCHANGED <<wrPc, wrFrame, wrLate>> => UNCHANGED SenderView
  BY DEF SenderView, Queued, GivesUp, Writing
<1>f. UNCHANGED ring => UNCHANGED InFlight
  BY <1>c
<1>1. CASE shm_write
  <2> USE DEF shm_write
  <2>1. PICK len \in Lens : wrFrame' = [id |-> nextId, len |-> len]
    BY <1>1
  <2>2. wrFrame' \in Frame
    BY <1>a, <1>1, <2>1, RxAssumption, IdsAssumption DEF Frame, WriteInv
  <2>3. /\ Queued = <<>> /\ Queued' = <<wrFrame'>>
        /\ GivesUp = FALSE /\ UNCHANGED GivesUp
    BY <1>1 DEF Queued, GivesUp, Writing
  <2>4. Queued' = Append(Queued, wrFrame')
    BY <2>3
  <2>5. UNCHANGED InFlight /\ UNCHANGED Handed /\ UNCHANGED HasNoMemory
    BY <1>1, <1>d, <1>f DEF ReaderView
  <2>6. Channel!Accept
    BY <2>2, <2>3, <2>4, <2>5 DEF Channel!Accept
  <2> QED BY <2>6 DEF Channel!Next
<1>2. CASE PushPublish
  <2> USE DEF PushPublish
  <2> DEFINE e == [pos |-> head, frame |-> wrFrame]
  <2>1. wrFrame \in Frame /\ e \in Entry /\ e.frame = wrFrame
    BY <1>a, <1>2 DEF WriteInv, RingInv, Counters, Entry
  <2>2. /\ ring' = Append(ring, e)
        /\ Queued = <<wrFrame>> /\ Queued' = <<>>
        /\ GivesUp = FALSE /\ UNCHANGED GivesUp
    BY <1>2 DEF Queued, GivesUp, Writing
  <2>3. Frames(ring') = Append(Frames(ring), wrFrame)
    <3> HIDE DEF e
    <3> QED BY <1>a, <2>1, <2>2, FramesAppend
  <2>4. Queued # <<>> /\ Head(Queued) = wrFrame /\ Tail(Queued) = <<>>
    BY <2>1, <2>2
  <2>5. InFlight' = Append(InFlight, Head(Queued))
    BY <1>c, <2>3, <2>4
  <2>6. UNCHANGED Handed /\ UNCHANGED HasNoMemory
    BY <1>2, <1>d DEF ReaderView
  <2>7. Channel!Send
    BY <2>2, <2>4, <2>5, <2>6 DEF Channel!Send
  <2> QED BY <2>7 DEF Channel!Next
<1>3. CASE WriteLate
  <2> USE DEF WriteLate
  <2>1. /\ Queued = <<wrFrame>> /\ Queued' = <<>>
        /\ GivesUp = TRUE /\ GivesUp' = FALSE
    BY <1>3 DEF Queued, GivesUp, Writing
  <2>2. Queued # <<>>
    BY <2>1
  <2>3. UNCHANGED InFlight /\ UNCHANGED Handed /\ UNCHANGED HasNoMemory
    BY <1>3, <1>d, <1>f DEF ReaderView
  <2>4. Channel!Drop
    BY <2>1, <2>2, <2>3 DEF Channel!Drop
  <2> QED BY <2>4 DEF Channel!Next
<1>4. CASE PushLoad \/ WriteTimeOver
  <2> USE DEF PushLoad, WriteTimeOver
  <2>1. UNCHANGED Queued
    BY <1>4 DEF Queued, Writing
  <2>2. UNCHANGED InFlight /\ UNCHANGED Handed /\ UNCHANGED HasNoMemory
    BY <1>4, <1>d, <1>f DEF ReaderView
  <2>3. GivesUp = FALSE /\ GivesUp' \in BOOLEAN
    BY <1>4 DEF GivesUp
  <2>4. CASE GivesUp' = FALSE
    BY <2>1, <2>2, <2>3, <2>4 DEF SenderView, ReaderView
  <2>5. CASE GivesUp' = TRUE
    <3>1. Channel!GiveUp
      BY <2>1, <2>2, <2>3, <2>5 DEF Channel!GiveUp
    <3> QED BY <3>1 DEF Channel!Next
  <2> QED BY <2>3, <2>4, <2>5
<1>5. CASE PushCopy \/ PushKick \/ WriteSetWait \/ WriteInTime \/ WriteTake \/ WriteBell
  <2> USE DEF PushCopy, PushKick, WriteSetWait, WriteInTime, WriteTake, WriteBell
  <2>1. UNCHANGED Queued
    BY <1>5 DEF Queued, Writing
  <2>2. GivesUp = FALSE /\ GivesUp' = FALSE
    BY <1>5 DEF GivesUp
  <2>3. UNCHANGED InFlight /\ UNCHANGED ReaderView
    BY <1>5, <1>d, <1>f
  <2> QED BY <2>1, <2>2, <2>3 DEF SenderView
<1>6. CASE ReadCopy \/ ReadNoMemory
  <2>1. rdPc = "copy"
    BY <1>6 DEF ReadCopy, ReadNoMemory
  <2>2. /\ ring # <<>> /\ ring[1] \in Entry
        /\ LenOk(LenAt(data, tail), Size, rdHead, tail)
        /\ ring_copy_out(data, tail, LenAt(data, tail)) = ring[1].frame
    BY <1>a, <2>1, CopyFinds
  <2>3. UNCHANGED <<ring, wrPc, wrFrame, wrLate>> /\ rdPc' = "free"
    BY <1>6, <2>2 DEF ReadCopy, ReadNoMemory
  <2>4. UNCHANGED InFlight /\ UNCHANGED SenderView
    BY <1>e, <1>f, <2>3
  <2>5. Handed = NoFrame /\ Handed' = NoFrame /\ HasNoMemory = FALSE
    BY <2>1, <2>3 DEF Handed, HasNoMemory
  <2>6. CASE ReadCopy
    <3>1. rdBuf' = ring[1].frame
      BY <2>2, <2>6 DEF ReadCopy
    <3>2. rdBuf'.id # Ids + 1
      BY <2>2, <3>1, IdsAssumption DEF Entry, Frame
    <3>3. HasNoMemory' = FALSE
      BY <3>2 DEF HasNoMemory
    <3> QED BY <2>4, <2>5, <3>3 DEF ReaderView
  <2>7. CASE ReadNoMemory
    <3>1. HasNoMemory' = TRUE
      BY <2>3, <2>7 DEF HasNoMemory, ReadNoMemory, Dropped
    <3>2. InFlight # <<>>
      BY <1>a, <1>c, <2>2, FramesTail
    <3>3. UNCHANGED Queued /\ UNCHANGED GivesUp
      BY <2>4 DEF SenderView
    <3>4. Channel!NoMemory
      BY <2>4, <2>5, <3>1, <3>2, <3>3 DEF Channel!NoMemory
    <3> QED BY <3>4 DEF Channel!Next
  <2> QED BY <1>6, <2>6, <2>7
<1>7. CASE ReadFree
  <2> USE DEF ReadFree
  <2>1. /\ ring # <<>>
        /\ rdBuf.id # Ids + 1 => rdBuf = ring[1].frame
    BY <1>a, <1>7 DEF ReadInv
  <2>2. /\ ring' = Tail(ring) /\ rdBuf' = rdBuf
        /\ rdPc = "free" /\ rdPc' = "checkwait"
        /\ UNCHANGED <<wrPc, wrFrame, wrLate>>
    BY <1>7
  <2>3. /\ Frames(ring') = Tail(Frames(ring)) /\ Frames(ring) # <<>>
        /\ Head(Frames(ring)) = ring[1].frame
    BY <1>a, <2>1, <2>2, FramesTail
  <2>4. /\ InFlight # <<>> /\ Head(InFlight) = ring[1].frame
        /\ InFlight' = Tail(InFlight)
    BY <1>c, <2>3
  <2>5. UNCHANGED Queued /\ UNCHANGED GivesUp
    BY <1>e, <2>2 DEF SenderView
  <2>6. /\ Handed = NoFrame /\ Handed' = IF rdBuf.id # Ids + 1 THEN rdBuf ELSE NoFrame
        /\ HasNoMemory = (rdBuf.id = Ids + 1) /\ HasNoMemory' = FALSE
    BY <2>2 DEF Handed, HasNoMemory
  <2>7. CASE rdBuf.id # Ids + 1
    <3>1. HasNoMemory = FALSE /\ Handed' = Head(InFlight)
      BY <2>1, <2>4, <2>6, <2>7
    <3>2. Channel!Deliver
      BY <2>4, <2>5, <2>6, <3>1 DEF Channel!Deliver
    <3> QED BY <3>2 DEF Channel!Next
  <2>8. CASE rdBuf.id = Ids + 1
    <3>1. HasNoMemory = TRUE /\ Handed' = Handed
      BY <2>6, <2>8
    <3>2. Channel!Lose
      BY <2>4, <2>5, <2>6, <3>1 DEF Channel!Lose
    <3> QED BY <3>2 DEF Channel!Next
  <2> QED BY <2>7, <2>8
<1>8. CASE ReadCheckWait \/ ReadBell
  <2> USE DEF ReadCheckWait, ReadBell
  <2>1. UNCHANGED InFlight /\ UNCHANGED SenderView
    BY <1>8, <1>e, <1>f
  <2>2. HasNoMemory = FALSE /\ HasNoMemory' = FALSE
    BY <1>8 DEF HasNoMemory
  <2>3. CASE rdPc' = "clearwait"
    <3>1. rdPc = "checkwait" /\ rdBuf' = rdBuf
      BY <1>8, <2>3
    <3>2. UNCHANGED Handed
      BY <2>3, <3>1 DEF Handed
    <3> QED BY <2>1, <2>2, <3>2 DEF ReaderView
  <2>4. CASE rdPc' # "clearwait"
    <3>1. rdPc' = "load"
      BY <1>8, <2>4
    <3>2. Handed' = NoFrame
      BY <3>1 DEF Handed
    <3>3. CASE Handed = NoFrame
      BY <2>1, <2>2, <3>2, <3>3 DEF ReaderView
    <3>4. CASE Handed # NoFrame
      <4>1. UNCHANGED Queued /\ UNCHANGED GivesUp
        BY <2>1 DEF SenderView
      <4>2. Channel!Return
        BY <2>1, <2>2, <3>2, <3>4, <4>1 DEF Channel!Return
      <4> QED BY <4>2 DEF Channel!Next
    <3> QED BY <3>3, <3>4
  <2> QED BY <2>3, <2>4
<1>9. CASE RxWork \/ ReadLoad \/ ReadClearWait
  <2> USE DEF RxWork, ReadLoad, ReadClearWait
  <2>1. UNCHANGED InFlight /\ UNCHANGED SenderView
    BY <1>9, <1>e, <1>f
  <2>2. UNCHANGED Handed /\ HasNoMemory = FALSE /\ HasNoMemory' = FALSE
    BY <1>9 DEF Handed, HasNoMemory
  <2> QED BY <2>1, <2>2 DEF ReaderView
<1>10. CASE \/ shm_doorbell_isr \/ esp_shm_probe \/ esp_shm_remove \/ RemoveDone
            \/ esp_shm_irq \/ OtherBellHost \/ OtherBellFw \/ UNCHANGED vars
  <2>1. UNCHANGED <<ring, wrPc, wrFrame, wrLate, rdPc, rdBuf>>
    BY <1>10 DEF shm_doorbell_isr, esp_shm_probe, esp_shm_remove, RemoveDone,
       esp_shm_irq, OtherBellHost, OtherBellFw, vars
  <2> QED BY <1>d, <1>e, <1>f, <2>1
<1> QED BY <1>1, <1>2, <1>3, <1>4, <1>5, <1>6, <1>7, <1>8, <1>9, <1>10
        DEF Next, WriteStep, ReadStep

(* Linux gets every frame of the firmware whole, in order and at most      *)
(* once, across any number of binds and unbinds.  A frame that goes into   *)
(* the ring is lost only where Linux failed to allocate memory for it;     *)
(* before that it is lost only where the writer has found its time over    *)
(* after two tries without space, and then it is never half sent.  For     *)
(* every ring size, every wrap of the counters and every set of lengths.   *)
THEOREM ChannelCorrect == Spec => ChannelSpec
<1>1. Init => ShmInv
  BY InitShm
<1>2. ShmInv /\ [Next]_vars => ShmInv'
  BY StepShm
<1>3. Init => Channel!Init
  BY ChannelInit
<1>4. ShmInv /\ [Next]_vars => [Channel!Next]_(Channel!vars)
  BY ChannelStep
<1> QED BY <1>1, <1>2, <1>3, <1>4, PTL DEF Spec, ChannelSpec, Channel!Spec

=============================================================================
