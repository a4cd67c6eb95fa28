--------------------------- MODULE HostToFwProofs ---------------------------
(***************************************************************************)
(* Theorems about HostToFw, for every ring size, every wrap of the         *)
(* counters, every set of frame lengths and every queue limit.             *)
(***************************************************************************)
EXTENDS HostToFw, ShmLayoutProofs, SequenceTheorems

-----------------------------------------------------------------------------
(* The types alone are not inductive: the flush takes the first frame of a *)
(* queue that it has not checked in the same step.                         *)
TypeInv == TypeOK /\ QueueBounded

LEMMA InitTypes == Init => TypeInv
<1> USE SizeAssumption, FrameAssumption, IdsAssumption, TxAssumption
<1> SUFFICES ASSUME Init PROVE TypeInv
  OBVIOUS
<1>1. data \in [Words -> Nat \X Nat]
  BY DEF Init, ZeroWords
<1>2. txQueue \in Seq(Frame) /\ Len(txQueue) = 0
  BY DEF Init
<1>3. FlagTypes
  BY Zenon DEF Init, FlagTypes
<1>4. PcTypes
  BY DEF Init, PcTypes, TxPcs, RxPcs, ResetPcs
<1>5. DataTypes
  BY <1>1, <1>2 DEF Init, DataTypes, Count, NoFrame, Requests
<1>6. QueueBounded
  BY <1>2 DEF Init, QueueBounded
<1> QED BY <1>3, <1>4, <1>5, <1>6 DEF TypeInv, TypeOK

LEMMA StepFlags == FlagTypes /\ [Next]_vars => FlagTypes'
<1> SUFFICES ASSUME FlagTypes, [Next]_vars PROVE FlagTypes'
  OBVIOUS
<1> USE DEF FlagTypes, shmVars, bellVars, queueVars, flushVars, linuxVars,
            rxVars, histVars
<1>1. CASE esp_shm_write \/ esp_shm_tx_work
  BY <1>1, Zenon DEF esp_shm_write, esp_shm_tx_work, FlushFrom
<1>2. CASE TxFlush
  BY <1>2, Zenon DEF TxFlush, PushLoad, PushCopy, PushPublish, PushKick,
       FlushSetWait, FlushFlow, FlushBell
<1>3. CASE SessionReset
  BY <1>3, Zenon DEF SessionReset, esp_shm_quiesce_for_fw_reset, CancelTxWork,
       esp_shm_tx_purge, esp_shm_reinit_after_fw_reset, ScheduleTxWork
<1>4. CASE ReplayRead \/ Replay \/ PowerOffBit \/ PowerOffBell
  BY <1>4, Zenon DEF ReplayRead, Replay, ReplayWrite, ReplayBell, PowerOffBit,
       PowerOffBell
<1>5. CASE shm_read \/ ReadNoMemory
  <2>1. CASE ReadCopy
    BY <2>1 DEF ReadCopy
  <2>2. CASE shm_service_host_requests
    BY <2>2 DEF shm_service_host_requests
  <2> QED BY <1>5, <2>1, <2>2, ZenonT(40) DEF shm_read, ReadLoad, ReadTake,
        ReadNoMemory, ReadFree, ReadCheckWait, ReadClearWait, ReadBell
<1>6. CASE esp_shm_irq \/ shm_doorbell_isr \/ OtherBellHost \/ OtherBellFw
  BY <1>6, Zenon DEF esp_shm_irq, shm_doorbell_isr, OtherBellHost, OtherBellFw
<1>7. CASE DeepSleep \/ UNCHANGED vars
  BY <1>7 DEF DeepSleep, vars
<1> QED BY <1>1, <1>2, <1>3, <1>4, <1>5, <1>6, <1>7, Zenon DEF Next

LEMMA StepTypes == TypeInv /\ [Next]_vars => TypeInv'
<1> SUFFICES ASSUME TypeInv, [Next]_vars PROVE TypeInv'
  OBVIOUS
<1>f. FlagTypes'
  BY StepFlags DEF TypeInv, TypeOK
<1> USE <1>f DEF TypeInv, TypeOK, PcTypes, DataTypes, QueueBounded, TxPcs, RxPcs,
               ResetPcs, Requests,
            shmVars, bellVars, queueVars, flushVars, linuxVars, rxVars,
            histVars

<1>1. CASE esp_shm_write
  <2>1. PICK len \in Lens : txQueue' = Append(txQueue, [id |-> nextId, len |-> len])
    BY <1>1 DEF esp_shm_write
  <2>2. [id |-> nextId, len |-> len] \in Frame
    BY <1>1, IdsAssumption, TxAssumption DEF esp_shm_write, Frame
  <2>3. txQueue' \in Seq(Frame) /\ Len(txQueue') = Len(txQueue) + 1
    BY <2>1, <2>2
  <2> QED BY <1>1, <2>3, TxAssumption, IdsAssumption DEF esp_shm_write, FlushFrom
<1>2. CASE esp_shm_tx_work
  BY <1>2 DEF esp_shm_tx_work, FlushFrom
<1>3. CASE PushLoad
  BY <1>3 DEF PushLoad
<1>4. CASE PushCopy
  <2>1. Head(txQueue) \in Frame
    BY <1>4 DEF PushCopy
  <2> QED BY <1>4, <2>1, CopyTypes DEF PushCopy
<1>5. CASE PushPublish
  <2>0. Head(txQueue) \in Frame
    BY <1>5 DEF PushPublish
  <2>1. Head(txQueue).len \in FrameLens
    BY <2>0 DEF Frame
  <2>2. Add(head, RecordLen(Head(txQueue).len)) \in Count
    BY <2>1, RecordLenBounds, AddSubType
  <2>3. head' \in Count
    BY <1>5, <2>2 DEF PushPublish
  <2> QED BY <1>5, <2>3 DEF PushPublish
<1>6. CASE PushKick
  <2>1. Tail(txQueue) \in Seq(Frame) /\ Len(Tail(txQueue)) = Len(txQueue) - 1
    BY <1>6 DEF PushKick
  <2> QED BY <1>6, <2>1, TxAssumption DEF PushKick
<1>7. CASE FlushSetWait
  BY <1>7 DEF FlushSetWait
<1>8. CASE FlushFlow
  BY <1>8 DEF FlushFlow
<1>9. CASE FlushBell
  BY <1>9 DEF FlushBell
<1>10. CASE esp_shm_irq
  BY <1>10 DEF esp_shm_irq
<1>11. CASE esp_shm_quiesce_for_fw_reset
  BY <1>11 DEF esp_shm_quiesce_for_fw_reset
<1>12. CASE CancelTxWork
  BY <1>12 DEF CancelTxWork
<1>13. CASE esp_shm_tx_purge
  <2>1. txQueue' \in Seq(Frame) /\ Len(txQueue') = 0
    BY <1>13 DEF esp_shm_tx_purge
  <2>2. txPc' = "idle"
    BY <1>13 DEF esp_shm_tx_purge, LockFree
  <2>3. PcTypes' /\ DataTypes'
    BY <1>13, <2>1 DEF esp_shm_tx_purge
  <2> QED BY <2>1, <2>2, <2>3, TxAssumption
<1>14. CASE esp_shm_reinit_after_fw_reset
  BY <1>14 DEF esp_shm_reinit_after_fw_reset
<1>15. CASE ScheduleTxWork
  BY <1>15 DEF ScheduleTxWork
<1>16. CASE ReplayRead
  BY <1>16 DEF ReplayRead
<1>17. CASE ReplayWrite
  BY <1>17 DEF ReplayWrite
<1>18. CASE ReplayBell
  BY <1>18 DEF ReplayBell
<1>19. CASE PowerOffBit
  BY <1>19 DEF PowerOffBit
<1>20. CASE PowerOffBell
  BY <1>20 DEF PowerOffBell
<1>21. CASE shm_doorbell_isr
  BY <1>21 DEF shm_doorbell_isr
<1>22. CASE shm_service_host_requests
  BY <1>22 DEF shm_service_host_requests
<1>23. CASE ReadLoad
  BY <1>23 DEF ReadLoad
<1>24. CASE ReadTake
  BY <1>24 DEF ReadTake
<1>25. CASE ReadCopy
  <2>1. LenAt(data, tail) \in Nat
    BY CopyTypes
  <2>2. CASE LenOk(LenAt(data, tail), FrameMax, rxHead, tail)
    <3>1. ring_copy_out(data, tail, LenAt(data, tail)) \in [id : Nat, len : 0 .. FrameMax]
      BY <2>1, <2>2, CopyTypes, FrameAssumption DEF LenOk
    <3> QED BY <1>25, <2>2, <3>1, SizeAssumption DEF ReadCopy, Count
  <2>3. CASE ~LenOk(LenAt(data, tail), FrameMax, rxHead, tail)
    BY <1>25, <2>3, SizeAssumption DEF ReadCopy, Count
  <2> QED BY <2>2, <2>3
<1>26. CASE ReadNoMemory
  BY <1>26, SizeAssumption DEF ReadNoMemory, Count
<1>27. CASE ReadFree
  <2>1. tail' \in Count
    <3>1. RecordLen(rxBuf.len) \in Nat /\ RecordLen(rxBuf.len) <= Size
      BY RecordLenMonotone
    <3> QED BY <1>27, <3>1, AddSubType DEF ReadFree
  <2> QED BY <1>27, <2>1 DEF ReadFree
<1>28. CASE ReadCheckWait
  BY <1>28, IdsAssumption, FrameAssumption DEF ReadCheckWait, NoFrame
<1>29. CASE ReadClearWait
  BY <1>29 DEF ReadClearWait
<1>30. CASE ReadBell
  BY <1>30, IdsAssumption, FrameAssumption DEF ReadBell, NoFrame
<1>31. CASE OtherBellHost
  BY <1>31 DEF OtherBellHost
<1>32. CASE OtherBellFw
  BY <1>32 DEF OtherBellFw
<1>33. CASE DeepSleep
  BY <1>33 DEF DeepSleep, vars
<1>34. CASE UNCHANGED vars
  BY <1>34 DEF vars
<1> QED BY <1>1, <1>2, <1>3, <1>4, <1>5, <1>6, <1>7, <1>8, <1>9, <1>10,
           <1>11, <1>12, <1>13, <1>14, <1>15, <1>16, <1>17, <1>18, <1>19, <1>20,
           <1>21, <1>22, <1>23, <1>24, <1>25, <1>26, <1>27, <1>28, <1>29, <1>30,
           <1>31, <1>32, <1>33, <1>34
     DEF Next, TxFlush, SessionReset, Replay, shm_read

(* Every variable of the Linux to firmware direction keeps its type: the   *)
(* head and tail of the ring stay u32 values, and every frame of the queue *)
(* and of the receive task has a length that the code accepts.             *)
THEOREM TypeCorrect == Spec => []TypeOK
<1>1. Init => TypeInv
  BY InitTypes
<1>2. TypeInv /\ [Next]_vars => TypeInv'
  BY StepTypes
<1>3. TypeInv => TypeOK
  BY DEF TypeInv
<1> QED BY <1>1, <1>2, <1>3, PTL DEF Spec

(* The flush never takes the first frame of an empty queue, and the queue  *)
(* never grows past the limit of esp_shm_write().                          *)
THEOREM QueueCorrect == Spec => []QueueBounded
<1>1. Init => TypeInv
  BY InitTypes
<1>2. TypeInv /\ [Next]_vars => TypeInv'
  BY StepTypes
<1>3. TypeInv => QueueBounded
  BY DEF TypeInv
<1> QED BY <1>1, <1>2, <1>3, PTL DEF Spec

-----------------------------------------------------------------------------
(* esp_shm_push() in terms of the first frame: its record has a length     *)
(* that SubAdd can take back.                                              *)
LEMMA FirstRecord ==
  ASSUME TypeInv, txPc \in {"load", "copy", "publish", "kick", "setwait"}
  PROVE  /\ Head(txQueue) \in Frame
         /\ RecordLen(Head(txQueue).len) \in Nat
         /\ 0 < RecordLen(Head(txQueue).len)
         /\ RecordLen(Head(txQueue).len) <= Size
<1>1. Head(txQueue) \in Frame
  BY DEF TypeInv, TypeOK, DataTypes, QueueBounded
<1>2. Head(txQueue).len \in FrameLens
  BY <1>1 DEF Frame
<1> QED BY <1>1, <1>2, RecordLenBounds

LEMMA StepDoorbell ==
  TypeInv /\ NoMissedDoorbell /\ [Next]_vars => NoMissedDoorbell'
<1> SUFFICES ASSUME TypeInv, NoMissedDoorbell, [Next]_vars
             PROVE  NoMissedDoorbell'
  OBVIOUS
<1> USE DEF NoMissedDoorbell, OldHead, shmVars, bellVars, queueVars, flushVars,
            linuxVars, rxVars, histVars
<1>1. CASE esp_shm_write \/ esp_shm_tx_work
  BY <1>1 DEF esp_shm_write, esp_shm_tx_work, LockFree
(* A push into a ring that the receive task found empty: the flush will    *)
(* see its old head in tail.                                               *)
<1>2. CASE PushPublish
  <2>1. OldHead' = head
    <3>1. head \in Count
      BY DEF TypeInv, TypeOK, DataTypes
    <3>2. head' = Add(head, RecordLen(Head(txQueue).len)) /\ txQueue' = txQueue
      BY <1>2 DEF PushPublish
    <3>3. Sub(Add(head, RecordLen(Head(txQueue).len)),
              RecordLen(Head(txQueue).len)) = head
      BY <1>2, <3>1, FirstRecord, SubAdd DEF PushPublish
    <3> QED BY <3>2, <3>3
  <2> HIDE DEF OldHead
  <2>2. CASE head = tail
    BY <1>2, <2>1, <2>2 DEF PushPublish
  <2>3. CASE head # tail
    BY <1>2, <2>3 DEF PushPublish
  <2> QED BY <2>2, <2>3
<1>3. CASE PushKick
  <2> HIDE DEF OldHead
  <2> QED BY <1>3, Zenon DEF PushKick
<1>4. CASE PushLoad \/ PushCopy \/ FlushSetWait \/ FlushFlow
  BY <1>4 DEF PushLoad, PushCopy, FlushSetWait, FlushFlow
<1>5. CASE FlushBell
  <2> HIDE DEF OldHead
  <2> QED BY <1>5, Zenon DEF FlushBell
<1>6. CASE SessionReset
  BY <1>6 DEF SessionReset, esp_shm_quiesce_for_fw_reset, CancelTxWork,
       esp_shm_tx_purge, esp_shm_reinit_after_fw_reset, ScheduleTxWork, LockFree
<1>7. CASE ReplayRead \/ Replay \/ PowerOffBit \/ PowerOffBell
  BY <1>7 DEF ReplayRead, Replay, ReplayWrite, ReplayBell, PowerOffBit,
       PowerOffBell
(* The receive task goes to sleep only after it has seen an empty ring.    *)
<1>8. CASE shm_read \/ ReadNoMemory
  BY <1>8 DEF shm_read, shm_service_host_requests, ReadLoad, ReadTake, ReadCopy,
       ReadNoMemory, ReadFree, ReadCheckWait, ReadClearWait, ReadBell
<1>9. CASE esp_shm_irq \/ shm_doorbell_isr \/ OtherBellHost \/ OtherBellFw
  BY <1>9 DEF esp_shm_irq, shm_doorbell_isr, OtherBellHost, OtherBellFw
<1>10. CASE DeepSleep \/ UNCHANGED vars
  BY <1>10 DEF DeepSleep, vars
<1> QED BY <1>1, <1>2, <1>3, <1>4, <1>5, <1>6, <1>7, <1>8, <1>9, <1>10
        DEF Next, TxFlush

(* The receive task never sleeps on frames, for every ring size, wrap of   *)
(* the counters and interleaving of esp_shm_push() with shm_read(): the    *)
(* doorbell that the flush leaves out because the ring was not empty is    *)
(* never the one that shm_read() needed.                                   *)
THEOREM DoorbellCorrect == Spec => []NoMissedDoorbell
<1>1. Init => TypeInv /\ NoMissedDoorbell
  BY InitTypes DEF Init, NoMissedDoorbell
<1>2. TypeInv /\ NoMissedDoorbell /\ [Next]_vars
        => (TypeInv /\ NoMissedDoorbell)'
  BY StepTypes, StepDoorbell
<1> QED BY <1>1, <1>2, PTL DEF Spec

-----------------------------------------------------------------------------
(* SpaceBound is not inductive: what makes it so is what each side may     *)
(* still rely on after the check it made.  Between the check of            *)
(* esp_shm_push() and its store of head the space can only grow; between   *)
(* the load of head in shm_read() and its store of tail the unread bytes   *)
(* can only grow.                                                          *)
SpaceInv ==
  /\ Sub(head, tail) <= Size
  /\ txPc \in {"copy", "publish"} =>
       RecordLen(Head(txQueue).len) + Sub(head, tail) <= Size
  /\ rxPc = "copy" => Sub(rxHead, tail) <= Sub(head, tail)
  /\ rxPc = "free" => RecordLen(rxBuf.len) <= Sub(head, tail)

LEMMA StepSpace == TypeInv /\ SpaceInv /\ [Next]_vars => SpaceInv'
<1> SUFFICES ASSUME TypeInv, SpaceInv, [Next]_vars PROVE SpaceInv'
  OBVIOUS
<1> USE DEF SpaceInv, shmVars, bellVars, queueVars, flushVars, linuxVars,
            rxVars, histVars
<1>a. /\ head \in Count /\ tail \in Count /\ rxHead \in Count
      /\ Sub(head, tail) \in Nat /\ Sub(rxHead, tail) \in Nat
      /\ Size \in Nat /\ Mod \in Nat /\ Size < Mod
  BY SubType, SizeAssumption DEF TypeInv, TypeOK, DataTypes
<1>1. CASE esp_shm_write \/ esp_shm_tx_work
  BY <1>1 DEF esp_shm_write, esp_shm_tx_work, LockFree, FlushFrom
<1>2. CASE PushLoad
  <2>1. RecordLen(Head(txQueue).len) \in Nat
    BY <1>2, FirstRecord DEF PushLoad
  <2> QED BY <1>2, <1>a, <2>1 DEF PushLoad
<1>3. CASE PushPublish
  <2> DEFINE n == RecordLen(Head(txQueue).len)
  <2>1. n \in Nat /\ n + Sub(head, tail) <= Size
    BY <1>3, FirstRecord DEF PushPublish
  <2>2. Sub(head', tail') = Sub(head, tail) + n
    BY <1>3, <1>a, <2>1, UsedAfterPush DEF PushPublish
  <2>3. RecordLen(rxBuf.len) \in Nat
    BY RecordLenMonotone DEF TypeInv, TypeOK, DataTypes
  <2>4. /\ txPc' = "kick" /\ rxPc' = rxPc /\ rxHead' = rxHead /\ rxBuf' = rxBuf
        /\ tail' = tail
    BY <1>3 DEF PushPublish
  <2> HIDE DEF n
  <2> QED BY <1>a, <2>1, <2>2, <2>3, <2>4
<1>4. CASE PushCopy \/ PushKick \/ FlushSetWait \/ FlushFlow \/ FlushBell
  BY <1>4 DEF PushCopy, PushKick, FlushSetWait, FlushFlow, FlushBell
<1>5. CASE SessionReset
  BY <1>5 DEF SessionReset, esp_shm_quiesce_for_fw_reset, CancelTxWork,
       esp_shm_tx_purge, esp_shm_reinit_after_fw_reset, ScheduleTxWork, LockFree
<1>6. CASE ReplayRead \/ Replay \/ PowerOffBit \/ PowerOffBell
  BY <1>6 DEF ReplayRead, Replay, ReplayWrite, ReplayBell, PowerOffBit,
       PowerOffBell
<1>7. CASE shm_service_host_requests \/ ReadLoad \/ ReadTake \/ ReadNoMemory
             \/ ReadCheckWait \/ ReadClearWait \/ ReadBell
  BY <1>7, <1>a DEF shm_service_host_requests, ReadLoad, ReadTake, ReadNoMemory,
       ReadCheckWait, ReadClearWait, ReadBell
<1>8. CASE ReadCopy
  <2> DEFINE len == LenAt(data, tail)
  <2>1. Sub(rxHead, tail) <= Sub(head, tail)
    BY <1>8 DEF ReadCopy
  <2>2. CASE LenOk(len, FrameMax, rxHead, tail)
    <3>1. RecordLen(len) <= Sub(rxHead, tail)
      BY <2>2 DEF LenOk
    <3>2. len \in Nat
      BY CopyTypes DEF TypeInv, TypeOK, DataTypes
    <3>3. rxBuf' = ring_copy_out(data, tail, len) /\ rxPc' = "free"
      BY <1>8, <2>2 DEF ReadCopy
    <3>4. rxBuf'.len = len
      BY <3>3 DEF ring_copy_out
    <3>5. /\ head' = head /\ tail' = tail /\ txPc' = txPc
          /\ txQueue' = txQueue
      BY <1>8, <2>2 DEF ReadCopy
    <3>6. RecordLen(len) \in Nat
      BY <3>2, RecordLenPositive
    <3> HIDE DEF len
    <3> QED BY <1>a, <2>1, <3>1, <3>3, <3>4, <3>5, <3>6
  <2>3. CASE ~LenOk(len, FrameMax, rxHead, tail)
    <3>1. /\ tail' = rxHead /\ head' = head /\ rxPc' = "service"
          /\ txPc' = txPc /\ txQueue' = txQueue
      BY <1>8, <2>3 DEF ReadCopy
    <3>2. Sub(head', tail') = Sub(head, tail) - Sub(rxHead, tail)
      BY <1>a, <2>1, <3>1, UsedAfterDrop
    <3>3. txPc \in {"copy", "publish"} => RecordLen(Head(txQueue).len) \in Nat
      BY FirstRecord
    <3> QED BY <1>a, <3>1, <3>2, <3>3
  <2> QED BY <2>2, <2>3
<1>9. CASE ReadFree
  <2>1. RecordLen(rxBuf.len) \in Nat /\ RecordLen(rxBuf.len) <= Sub(head, tail)
    BY <1>9, RecordLenMonotone DEF ReadFree, TypeInv, TypeOK, DataTypes
  <2>2. /\ tail' = Add(tail, RecordLen(rxBuf.len)) /\ head' = head
        /\ rxPc' = "checkwait" /\ txPc' = txPc /\ txQueue' = txQueue
    BY <1>9 DEF ReadFree
  <2>3. Sub(head', tail') = Sub(head, tail) - RecordLen(rxBuf.len)
    BY <1>a, <2>1, <2>2, UsedAfterFree
  <2>4. txPc \in {"copy", "publish"} => RecordLen(Head(txQueue).len) \in Nat
    BY FirstRecord
  <2> QED BY <1>a, <2>1, <2>2, <2>3, <2>4
<1>10. CASE esp_shm_irq \/ shm_doorbell_isr \/ OtherBellHost \/ OtherBellFw
  BY <1>10 DEF esp_shm_irq, shm_doorbell_isr, OtherBellHost, OtherBellFw
<1>11. CASE DeepSleep \/ UNCHANGED vars
  BY <1>11 DEF DeepSleep, vars
<1> QED BY <1>1, <1>2, <1>3, <1>4, <1>5, <1>6, <1>7, <1>8, <1>9, <1>10, <1>11
        DEF Next, TxFlush, shm_read

(* esp_shm_push() never stores a head more than the size of the ring ahead *)
(* of tail, whatever shm_read() does between its check and its store, for  *)
(* every ring size and every wrap of the counters.                         *)
THEOREM SpaceCorrect == Spec => []SpaceBound
<1>1. Init => TypeInv /\ SpaceInv
  BY InitTypes, SizeAssumption DEF Init, SpaceInv, Sub
<1>2. TypeInv /\ SpaceInv /\ [Next]_vars => (TypeInv /\ SpaceInv)'
  BY StepTypes, StepSpace
<1>3. SpaceInv => SpaceBound
  BY DEF SpaceInv, SpaceBound
<1> QED BY <1>1, <1>2, <1>3, PTL DEF Spec

-----------------------------------------------------------------------------
(* The frames come out whole because of what is in the ring (RingInv), and *)
(* because of what each side may rely on: a record that is copied stays    *)
(* where it is until its head is stored, and the first record stays the    *)
(* first from the load of head in shm_read() until its store of tail.      *)
SendInv == txPc = "publish" => Intact(data, head, Head(txQueue))

RecvInv ==
  /\ rxPc = "copy" => /\ ring # <<>>
                      /\ EntryLen(ring[1]) <= Sub(rxHead, tail)
  /\ rxPc = "free" => ring # <<>> /\ rxBuf = ring[1].frame

ShmInv == RingInv(ring, head, tail, data) /\ SendInv /\ RecvInv

(* What shm_read() finds after it has loaded a head: the first record,     *)
(* with a length that passes the check.                                    *)
LEMMA CopyFinds ==
  ASSUME RingInv(ring, head, tail, data), RecvInv, rxPc = "copy"
  PROVE  /\ ring # <<>> /\ ring[1] \in Entry
         /\ LenAt(data, tail) = ring[1].frame.len
         /\ LenOk(LenAt(data, tail), FrameMax, rxHead, tail)
         /\ ring_copy_out(data, tail, LenAt(data, tail)) = ring[1].frame
<1>1. ring # <<>> /\ EntryLen(ring[1]) <= Sub(rxHead, tail)
  BY DEF RecvInv
<1>2. /\ ring[1] \in Entry
      /\ LenAt(data, tail) = ring[1].frame.len
      /\ ring_copy_out(data, tail, ring[1].frame.len) = ring[1].frame
  BY <1>1, RingFirst
<1>3. ring[1].frame.len \in FrameLens
  BY <1>2, EntryFacts DEF Frame
<1>4. MinLen <= ring[1].frame.len /\ ring[1].frame.len <= FrameMax
  BY <1>3, FrameAssumption DEF FrameLens
<1> QED BY <1>1, <1>2, <1>4 DEF LenOk, EntryLen

LEMMA InitShm == Init => ShmInv
<1> SUFFICES ASSUME Init PROVE ShmInv
  OBVIOUS
<1>1. RingInv(ring, head, tail, data)
  BY RingEmpty DEF Init
<1>2. SendInv /\ RecvInv
  BY DEF Init, SendInv, RecvInv
<1> QED BY <1>1, <1>2 DEF ShmInv

LEMMA StepShm == TypeInv /\ SpaceInv /\ ShmInv /\ [Next]_vars => ShmInv'
<1> SUFFICES ASSUME TypeInv, SpaceInv, ShmInv, [Next]_vars PROVE ShmInv'
  OBVIOUS
<1> USE DEF shmVars, bellVars, queueVars, flushVars, linuxVars, rxVars, histVars
<1>a. RingInv(ring, head, tail, data) /\ SendInv /\ RecvInv /\ ring \in Seq(Entry)
  BY DEF ShmInv, RingInv
<1>b. txPc \in {"copy", "publish"} =>
        Head(txQueue) \in Frame /\ RecordLen(Head(txQueue).len) + Sub(head, tail) <= Size
  BY DEF TypeInv, TypeOK, DataTypes, QueueBounded, SpaceInv
<1>1. CASE PushCopy
  <2> USE DEF PushCopy
  <2>1. /\ RingInv(ring, head, tail, ring_copy_in(data, head, Head(txQueue)))
        /\ Intact(ring_copy_in(data, head, Head(txQueue)), head, Head(txQueue))
    BY <1>a, <1>b, <1>1, RingCopy
  <2>2. /\ data' = ring_copy_in(data, head, Head(txQueue))
        /\ UNCHANGED <<ring, head, tail, txQueue, rxPc, rxHead, rxBuf>>
    BY <1>1
  <2>3. RingInv(ring, head, tail, data)' /\ SendInv'
    BY <2>1, <2>2 DEF SendInv
  <2>4. RecvInv'
    BY <1>a, <2>2 DEF RecvInv
  <2> QED BY <2>3, <2>4 DEF ShmInv
<1>2. CASE PushPublish
  <2> USE DEF PushPublish
  <2>1. Intact(data, head, Head(txQueue))
    BY <1>a, <1>2 DEF SendInv
  <2>2. RingInv(Append(ring, [pos |-> head, frame |-> Head(txQueue)]),
                Add(head, RecordLen(Head(txQueue).len)), tail, data)
    BY <1>a, <1>b, <1>2, <2>1, RingPush
  <2>3. /\ ring' = Append(ring, [pos |-> head, frame |-> Head(txQueue)])
        /\ head' = Add(head, RecordLen(Head(txQueue).len))
        /\ UNCHANGED <<tail, data, rxPc, rxHead, rxBuf>>
        /\ txPc' = "kick"
    BY <1>2
  <2>4. RingInv(ring, head, tail, data)' /\ SendInv'
    BY <2>2, <2>3 DEF SendInv
  <2>5. ring # <<>> => ring' # <<>> /\ ring'[1] = ring[1]
    BY <1>a, <2>3
  <2>6. RecvInv'
    BY <1>a, <2>3, <2>5 DEF RecvInv
  <2> QED BY <2>4, <2>6 DEF ShmInv
<1>3. CASE esp_shm_write \/ esp_shm_tx_work \/ SessionReset
  <2>1. UNCHANGED <<ring, head, tail, data, rxPc, rxHead, rxBuf>> /\ txPc = "idle"
    BY <1>3 DEF esp_shm_write, esp_shm_tx_work, LockFree, SessionReset,
       esp_shm_quiesce_for_fw_reset, CancelTxWork, esp_shm_tx_purge,
       esp_shm_reinit_after_fw_reset, ScheduleTxWork
  <2>2. txPc' # "publish"
    BY <1>3, <2>1 DEF esp_shm_write, esp_shm_tx_work, FlushFrom, SessionReset,
       esp_shm_quiesce_for_fw_reset, CancelTxWork, esp_shm_tx_purge,
       esp_shm_reinit_after_fw_reset, ScheduleTxWork
  <2>3. RingInv(ring, head, tail, data)' /\ SendInv' /\ RecvInv'
    BY <1>a, <2>1, <2>2 DEF SendInv, RecvInv
  <2> QED BY <2>3 DEF ShmInv
<1>4. CASE PushLoad \/ PushKick \/ FlushSetWait \/ FlushFlow \/ FlushBell
  <2> USE DEF PushLoad, PushKick, FlushSetWait, FlushFlow, FlushBell
  <2>1. UNCHANGED <<ring, head, tail, data, rxPc, rxHead, rxBuf>> /\ txPc' # "publish"
    BY <1>4
  <2>2. RingInv(ring, head, tail, data)' /\ SendInv' /\ RecvInv'
    BY <1>a, <2>1 DEF SendInv, RecvInv
  <2> QED BY <2>2 DEF ShmInv
<1>5. CASE ReadLoad
  <2> USE DEF ReadLoad
  <2>1. /\ UNCHANGED <<ring, head, tail, data, txPc, txQueue>>
        /\ rxPc' \in {"take", "copy"}
    BY <1>5
  <2>2. rxPc' = "copy" => ring # <<>> /\ EntryLen(ring[1]) <= Sub(rxHead', tail)
    <3> SUFFICES ASSUME rxPc' = "copy"
                 PROVE  ring # <<>> /\ EntryLen(ring[1]) <= Sub(rxHead', tail)
      OBVIOUS
    <3>1. head # tail /\ rxHead' = head
      BY <1>5
    <3>2. ring # <<>>
      BY <1>a, <3>1 DEF RingInv, FirstAtTail
    <3> QED BY <1>a, <3>1, <3>2, RingFirst
  <2>3. RingInv(ring, head, tail, data)' /\ SendInv' /\ RecvInv'
    BY <1>a, <2>1, <2>2 DEF SendInv, RecvInv
  <2> QED BY <2>3 DEF ShmInv
<1>6. CASE ReadCopy \/ ReadNoMemory
  <2>1. rxPc = "copy" /\ UNCHANGED <<head, data, txPc, txQueue>>
    BY <1>6 DEF ReadCopy, ReadNoMemory
  <2>2. /\ ring # <<>>
        /\ LenOk(LenAt(data, tail), FrameMax, rxHead, tail)
        /\ ring_copy_out(data, tail, LenAt(data, tail)) = ring[1].frame
    BY <1>a, <2>1, CopyFinds
  <2>3. UNCHANGED <<ring, tail>> /\ rxPc' \in {"free", "service"}
    BY <1>6, <2>2 DEF ReadCopy, ReadNoMemory
  <2>4. rxPc' = "free" => rxBuf' = ring[1].frame
    BY <1>6, <2>2 DEF ReadCopy, ReadNoMemory
  <2>5. RingInv(ring, head, tail, data)' /\ SendInv' /\ RecvInv'
    BY <1>a, <2>1, <2>2, <2>3, <2>4 DEF SendInv, RecvInv
  <2> QED BY <2>5 DEF ShmInv
<1>7. CASE ReadFree
  <2> USE DEF ReadFree
  <2>1. ring # <<>> /\ RecordLen(rxBuf.len) = EntryLen(ring[1])
    BY <1>a, <1>7 DEF RecvInv, EntryLen
  <2>2. /\ tail' = Add(tail, EntryLen(ring[1])) /\ ring' = Tail(ring)
        /\ UNCHANGED <<head, data, txPc, txQueue>> /\ rxPc' = "checkwait"
    BY <1>7, <2>1
  <2>3. RingInv(ring, head, tail, data)'
    BY <1>a, <2>1, <2>2, RingFree
  <2>4. SendInv' /\ RecvInv'
    BY <1>a, <2>2 DEF SendInv, RecvInv
  <2> QED BY <2>3, <2>4 DEF ShmInv
<1>8. CASE shm_service_host_requests \/ ReadTake \/ ReadCheckWait \/ ReadClearWait \/ ReadBell
  <2> USE DEF shm_service_host_requests, ReadTake, ReadCheckWait, ReadClearWait, ReadBell
  <2>1. /\ UNCHANGED <<ring, head, tail, data, txPc, txQueue>>
        /\ rxPc' \notin {"copy", "free"}
    BY <1>8
  <2>2. RingInv(ring, head, tail, data)' /\ SendInv' /\ RecvInv'
    BY <1>a, <2>1 DEF SendInv, RecvInv
  <2> QED BY <2>2 DEF ShmInv
<1>9. CASE \/ esp_shm_irq \/ ReplayRead \/ Replay \/ PowerOffBit \/ PowerOffBell
           \/ shm_doorbell_isr \/ OtherBellHost \/ OtherBellFw \/ DeepSleep
           \/ UNCHANGED vars
  <2>1. UNCHANGED <<ring, head, tail, data, txPc, txQueue, rxPc, rxHead, rxBuf>>
    BY <1>9 DEF esp_shm_irq, ReplayRead, Replay, ReplayWrite, ReplayBell, PowerOffBit,
       PowerOffBell, shm_doorbell_isr, OtherBellHost, OtherBellFw, DeepSleep, vars
  <2>2. RingInv(ring, head, tail, data)' /\ SendInv' /\ RecvInv'
    BY <1>a, <2>1 DEF SendInv, RecvInv
  <2> QED BY <2>2 DEF ShmInv
<1> QED BY <1>1, <1>2, <1>3, <1>4, <1>5, <1>6, <1>7, <1>8, <1>9 DEF Next, TxFlush, shm_read

-----------------------------------------------------------------------------
(* While the transport is quiesced no flush runs, so nothing is accepted   *)
(* and nothing is sent; the purge leaves the new session an empty queue.     *)
QuiesceInv ==
  /\ txQuiesced <=> resetPc \in {"cancel", "purge", "reinit"}
  /\ txQuiesced => txPc = "idle"
  /\ resetPc = "reinit" => txQueue = <<>>

LEMMA StepQuiesce == TypeInv /\ QuiesceInv /\ [Next]_vars => QuiesceInv'
<1> SUFFICES ASSUME TypeInv, QuiesceInv, [Next]_vars PROVE QuiesceInv'
  OBVIOUS
<1> USE DEF shmVars, bellVars, queueVars, flushVars, linuxVars, rxVars, histVars,
            QuiesceInv
<1>a. txQuiesced \in BOOLEAN
  BY DEF TypeInv, TypeOK, FlagTypes
<1>1. CASE esp_shm_write \/ esp_shm_tx_work
  BY <1>1 DEF esp_shm_write, esp_shm_tx_work, LockFree, FlushFrom
<1>2. CASE TxFlush
  BY <1>2 DEF TxFlush, PushLoad, PushCopy, PushPublish, PushKick, FlushSetWait,
     FlushFlow, FlushBell
<1>3. CASE SessionReset
  BY <1>3 DEF SessionReset, LockFree, esp_shm_quiesce_for_fw_reset, CancelTxWork,
     esp_shm_tx_purge, esp_shm_reinit_after_fw_reset, ScheduleTxWork
<1>4. CASE \/ esp_shm_irq \/ ReplayRead \/ Replay \/ PowerOffBit \/ PowerOffBell
           \/ shm_doorbell_isr \/ OtherBellHost \/ OtherBellFw \/ DeepSleep
           \/ UNCHANGED vars
  BY <1>4 DEF esp_shm_irq, ReplayRead, Replay, ReplayWrite, ReplayBell, PowerOffBit,
     PowerOffBell, shm_doorbell_isr, OtherBellHost, OtherBellFw, DeepSleep, vars
<1>5. CASE shm_read \/ ReadNoMemory
  BY <1>5 DEF shm_read, ReadNoMemory, shm_service_host_requests, ReadLoad, ReadTake,
     ReadCopy, ReadFree, ReadCheckWait, ReadClearWait, ReadBell
<1> QED BY <1>1, <1>2, <1>3, <1>4, <1>5 DEF Next

(* The refinement of FrameChannel: each step of HostToFw is a step of the  *)
(* channel or leaves it as it is.                                          *)
LEMMA ChannelInit == Init => Channel!Init
<1> SUFFICES ASSUME Init PROVE Channel!Init
  OBVIOUS
<1>1. /\ ring = <<>> /\ txQueue = <<>> /\ txPc = "idle" /\ rxPc = "service"
      /\ txQuiesced = FALSE
  BY DEF Init
<1>2. InFlight = <<>>
  <2>1. <<>> \in Seq(Entry) /\ Len(<<>>) = 0
    OBVIOUS
  <2>2. Frames(<<>>) \in Seq(Frame) /\ Len(Frames(<<>>)) = 0
    BY <2>1, FramesType
  <2>3. Frames(<<>>) = <<>>
    BY <2>2
  <2> QED BY <1>1, <2>3 DEF InFlight, Frames
<1>3. Queued = <<>> /\ Handed = NoFrame
  BY <1>1 DEF Queued, Handed
<1> QED BY <1>1, <1>2, <1>3 DEF Channel!Init

(* What the channel sees of the sender.                                    *)
SenderView == <<Queued, txQuiesced>>

LEMMA ChannelStep ==
  TypeInv /\ ShmInv /\ QuiesceInv /\ [Next]_vars => [Channel!Next]_(Channel!vars)
<1> SUFFICES ASSUME TypeInv, ShmInv, QuiesceInv, [Next]_vars
             PROVE  Channel!Next \/ UNCHANGED <<SenderView, InFlight, Handed>>
  BY DEF Channel!vars, SenderView
<1> USE DEF shmVars, bellVars, queueVars, flushVars, linuxVars, rxVars, histVars
<1>a. RingInv(ring, head, tail, data) /\ RecvInv /\ ring \in Seq(Entry)
  BY DEF ShmInv, RingInv
<1>b. /\ txQueue \in Seq(Frame) /\ txQuiesced \in BOOLEAN
      /\ txPc \in {"publish", "kick"} => txQueue # <<>>
  BY DEF TypeInv, TypeOK, DataTypes, FlagTypes, QueueBounded
<1>c. Frames(ring) \in Seq(Frame) /\ InFlight = Frames(ring) /\ InFlight' = Frames(ring')
  BY <1>a, FramesType DEF InFlight, Frames
<1>d. UNCHANGED <<rxPc, rxBuf>> => UNCHANGED Handed
  BY DEF Handed
<1>e. UNCHANGED <<txPc, txQueue, txQuiesced>> => UNCHANGED SenderView
  BY DEF SenderView, Queued
<1>f. UNCHANGED ring => UNCHANGED InFlight
  BY <1>c
<1>1. CASE esp_shm_write
  <2> USE DEF esp_shm_write, LockFree
  <2>1. PICK len \in Lens : txQueue' = Append(txQueue, [id |-> nextId, len |-> len])
    BY <1>1
  <2> DEFINE f == [id |-> nextId, len |-> len]
  <2>2. f \in Frame
    BY <1>1, <2>1, TxAssumption, IdsAssumption DEF Frame, TypeInv, TypeOK, DataTypes
  <2>3. Queued = txQueue /\ Queued' = txQueue'
    BY <1>1 DEF Queued, FlushFrom
  <2>4. UNCHANGED InFlight /\ UNCHANGED Handed /\ ~txQuiesced /\ UNCHANGED txQuiesced
    BY <1>1, <1>d, <1>f
  <2>5. Channel!Accept
    <3>1. Queued' = Append(Queued, f)
      BY <2>1, <2>3
    <3> HIDE DEF f
    <3> QED BY <2>2, <2>4, <3>1 DEF Channel!Accept
  <2> QED BY <2>5 DEF Channel!Next
<1>2. CASE PushPublish
  <2> USE DEF PushPublish
  <2> DEFINE e == [pos |-> head, frame |-> Head(txQueue)]
  <2>1. txQueue # <<>> /\ Head(txQueue) \in Frame
    BY <1>b, <1>2
  <2>2. e \in Entry /\ e.frame = Head(txQueue)
    BY <1>a, <2>1 DEF RingInv, Counters, Entry
  <2>3. ring' = Append(ring, e) /\ Queued = txQueue /\ Queued' = Tail(txQueue)
    BY <1>2 DEF Queued
  <2>4. Frames(ring') = Append(Frames(ring), Head(txQueue))
    <3> HIDE DEF e
    <3> QED BY <1>a, <2>2, <2>3, FramesAppend
  <2>5. InFlight' = Append(InFlight, Head(Queued))
    BY <1>c, <2>3, <2>4
  <2>6. UNCHANGED Handed /\ ~txQuiesced /\ UNCHANGED txQuiesced
    BY <1>2, <1>d DEF QuiesceInv
  <2>7. Channel!Send
    BY <2>1, <2>3, <2>5, <2>6 DEF Channel!Send
  <2> QED BY <2>7 DEF Channel!Next
<1>3. CASE esp_shm_quiesce_for_fw_reset
  <2> USE DEF esp_shm_quiesce_for_fw_reset, LockFree
  <2>1. UNCHANGED Queued /\ UNCHANGED InFlight /\ UNCHANGED Handed
    BY <1>3, <1>d, <1>f DEF Queued
  <2>2. ~txQuiesced /\ txQuiesced' = TRUE
    BY <1>3 DEF QuiesceInv
  <2>3. Channel!GiveUp
    BY <2>1, <2>2 DEF Channel!GiveUp
  <2> QED BY <2>3 DEF Channel!Next
<1>4. CASE esp_shm_tx_purge
  <2> USE DEF esp_shm_tx_purge, LockFree
  <2>1. /\ Queued = txQueue /\ Queued' = <<>>
        /\ UNCHANGED InFlight /\ UNCHANGED Handed
    BY <1>4, <1>d, <1>f DEF Queued
  <2>2. txQuiesced /\ txQuiesced' \in BOOLEAN /\ UNCHANGED txQuiesced
    BY <1>4, <1>b DEF QuiesceInv
  <2>3. CASE txQueue = <<>>
    BY <2>1, <2>2, <2>3 DEF SenderView
  <2>4. CASE txQueue # <<>>
    <3>1. Channel!Drop
      BY <2>1, <2>2, <2>4 DEF Channel!Drop
    <3> QED BY <3>1 DEF Channel!Next
  <2> QED BY <2>3, <2>4
<1>5. CASE esp_shm_reinit_after_fw_reset
  <2> USE DEF esp_shm_reinit_after_fw_reset, LockFree
  <2>1. /\ Queued = <<>> /\ UNCHANGED Queued
        /\ UNCHANGED InFlight /\ UNCHANGED Handed
    BY <1>5, <1>d, <1>f DEF Queued, QuiesceInv
  <2>2. txQuiesced /\ txQuiesced' = FALSE
    BY <1>5 DEF QuiesceInv
  <2>3. Channel!GoOn
    BY <2>1, <2>2 DEF Channel!GoOn
  <2> QED BY <2>3 DEF Channel!Next
<1>6. CASE ReadFree
  <2> USE DEF ReadFree
  <2>1. ring # <<>> /\ rxBuf = ring[1].frame
    BY <1>a, <1>6 DEF RecvInv
  <2>2. ring' = Tail(ring) /\ rxBuf' = rxBuf /\ rxPc' = "checkwait"
    BY <1>6
  <2>3. /\ Frames(ring') = Tail(Frames(ring)) /\ Frames(ring) # <<>>
        /\ Head(Frames(ring)) = ring[1].frame
    BY <1>a, <2>1, <2>2, FramesTail
  <2>4. /\ InFlight # <<>> /\ Head(InFlight) = rxBuf
        /\ InFlight' = Tail(InFlight)
    BY <1>c, <2>1, <2>3
  <2>5. Handed = NoFrame /\ Handed' = rxBuf
    BY <1>6, <2>2 DEF Handed
  <2>6. UNCHANGED Queued /\ UNCHANGED txQuiesced
    BY <1>6 DEF Queued
  <2>7. Channel!Deliver
    BY <2>4, <2>5, <2>6 DEF Channel!Deliver
  <2> QED BY <2>7 DEF Channel!Next
<1>7. CASE ReadCheckWait \/ ReadBell
  <2> USE DEF ReadCheckWait, ReadBell
  <2>1. UNCHANGED InFlight /\ UNCHANGED Queued /\ UNCHANGED txQuiesced
    BY <1>7, <1>f DEF Queued
  <2>2. CASE rxPc' = "clearwait"
    <3>1. rxPc = "checkwait" /\ rxBuf' = rxBuf
      BY <1>7, <2>2
    <3>2. UNCHANGED Handed
      BY <2>2, <3>1 DEF Handed
    <3> QED BY <2>1, <3>2 DEF SenderView
  <2>3. CASE rxPc' # "clearwait"
    <3>1. rxPc' = "service"
      BY <1>7, <2>3
    <3>2. Handed' = NoFrame
      BY <3>1 DEF Handed
    <3>3. CASE Handed = NoFrame
      BY <2>1, <3>2, <3>3 DEF SenderView
    <3>4. CASE Handed # NoFrame
      <4>1. Channel!Return
        BY <2>1, <3>2, <3>4 DEF Channel!Return
      <4> QED BY <4>1 DEF Channel!Next
    <3> QED BY <3>3, <3>4
  <2> QED BY <2>2, <2>3
<1>8. CASE ReadCopy \/ ReadNoMemory
  <2>1. rxPc = "copy"
    BY <1>8 DEF ReadCopy, ReadNoMemory
  <2>2. LenOk(LenAt(data, tail), FrameMax, rxHead, tail)
    BY <1>a, <2>1, CopyFinds
  <2>3. UNCHANGED <<ring, txPc, txQueue, txQuiesced>> /\ rxPc' \in {"free", "service"}
    BY <1>8, <2>2 DEF ReadCopy, ReadNoMemory
  <2>4. UNCHANGED Handed
    BY <2>1, <2>3 DEF Handed
  <2> QED BY <1>e, <1>f, <2>3, <2>4
<1>9. CASE shm_service_host_requests \/ ReadLoad \/ ReadTake \/ ReadClearWait
  <2> USE DEF shm_service_host_requests, ReadLoad, ReadTake, ReadClearWait
  <2>1. UNCHANGED <<ring, txPc, txQueue, txQuiesced>>
    BY <1>9
  <2>2. UNCHANGED Handed
    BY <1>9 DEF Handed
  <2> QED BY <1>e, <1>f, <2>1, <2>2
<1>10. CASE \/ esp_shm_tx_work \/ PushLoad \/ PushCopy \/ PushKick \/ FlushSetWait
            \/ FlushFlow \/ FlushBell
  <2> USE DEF esp_shm_tx_work, LockFree, FlushFrom, PushLoad, PushCopy, PushKick,
              FlushSetWait, FlushFlow, FlushBell
  <2>1. UNCHANGED <<ring, rxPc, rxBuf, txQuiesced>>
    BY <1>10
  <2>2. UNCHANGED Queued
    BY <1>10 DEF Queued
  <2> QED BY <1>d, <1>f, <2>1, <2>2 DEF SenderView
<1>11. CASE \/ CancelTxWork \/ ScheduleTxWork
            \/ esp_shm_irq \/ ReplayRead \/ Replay \/ PowerOffBit \/ PowerOffBell
            \/ shm_doorbell_isr \/ OtherBellHost \/ OtherBellFw \/ DeepSleep
            \/ UNCHANGED vars
  <2>1. UNCHANGED <<ring, txPc, txQueue, txQuiesced, rxPc, rxBuf>>
    BY <1>11 DEF CancelTxWork, ScheduleTxWork, esp_shm_irq, ReplayRead, Replay,
       ReplayWrite, ReplayBell, PowerOffBit, PowerOffBell, shm_doorbell_isr,
       OtherBellHost, OtherBellFw, DeepSleep, vars
  <2> QED BY <1>d, <1>e, <1>f, <2>1
<1> QED BY <1>1, <1>2, <1>3, <1>4, <1>5, <1>6, <1>7, <1>8, <1>9, <1>10, <1>11
        DEF Next, TxFlush, SessionReset, shm_read

(* recv_task gets every accepted frame whole, in order and at most once,   *)
(* in any interleaving of the flush, shm_read(), session resets and a      *)
(* power-off.  A frame is dropped only between the quiesce and the reinit  *)
(* of a session reset, when nothing is accepted or sent, and then all that *)
(* are still in the tx queue are; what is in the ring is never dropped.    *)
(* For every ring size, wrap, frame length and queue limit.                *)
THEOREM ChannelCorrect == Spec => ChannelSpec
<1> DEFINE Inv == TypeInv /\ SpaceInv /\ ShmInv /\ QuiesceInv
<1>1. Init => Inv
  BY InitTypes, InitShm, SizeAssumption DEF Init, SpaceInv, Sub, QuiesceInv
<1>2. Inv /\ [Next]_vars => Inv'
  BY StepTypes, StepSpace, StepShm, StepQuiesce
<1>3. Init => Channel!Init
  BY ChannelInit
<1>4. Inv /\ [Next]_vars => [Channel!Next]_(Channel!vars)
  BY ChannelStep
<1> QED BY <1>1, <1>2, <1>3, <1>4, PTL DEF Spec, ChannelSpec, Channel!Spec

=============================================================================
