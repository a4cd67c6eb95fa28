------------------------------ MODULE HostToFw ------------------------------
(***************************************************************************)
(* The direction from Linux to the firmware: esp_shm_write(), its queue    *)
(* and esp_shm_tx_flush() on hart 1, shm_read() in the receive task on     *)
(* hart 0, and the two doorbells between them.  Linux has one hart and the *)
(* flush holds tx_lock with the bottom halves off, so at most one flush    *)
(* runs; the interrupt handler runs between any two of its steps.  An      *)
(* action makes at most one access that the other hart can see.  A local   *)
(* variable of the code goes back to its first value where it goes out of  *)
(* scope.                                                                  *)
(***************************************************************************)
EXTENDS ShmLayout

CONSTANTS Lens,       \* lengths of the frames the network stack sends
          TX_PAUSE,   \* ESP_SHM_TX_PAUSE
          TX_RESUME,  \* ESP_SHM_TX_RESUME
          QUEUE_MAX,  \* ESP_SHM_TX_QUEUE_MAX
          MaxReplays, \* bound: times Linux asks for a boot event
          MayPowerOff \* Linux may power off

ASSUME TxAssumption ==
  /\ Lens \subseteq FrameLens
  /\ TX_PAUSE \in Nat /\ TX_RESUME \in Nat /\ QUEUE_MAX \in Nat
  /\ TX_RESUME < TX_PAUSE /\ TX_PAUSE <= QUEUE_MAX
  /\ MaxReplays \in Nat /\ MayPowerOff \in BOOLEAN

VARIABLES
  \* the shared block and the doorbell registers
  head, tail, wait, data, hostReq, bellFw, bellHost,
  \* Linux: the tx queue and its flags, tx_work, the holder of tx_lock
  txQueue, txPaused, txQuiesced, txWork, txPc, txOwner, txTry, txKick,
  \* Linux: the boot event handler, a replay request, the power-off call
  resetPc, reqPc, reqRead, power,
  \* the firmware: the receive task, its semaphore, boot events it has sent
  rxPc, rxHead, rxBuf, rxSem, bootEvents,
  \* history: the records in the ring, the name of the next frame,
  \* the requests for a boot event so far
  ring, nextId, replays

shmVars == <<head, tail, wait, data>>
bellVars == <<bellFw, bellHost>>
queueVars == <<txQueue, txPaused, txQuiesced, txWork>>
flushVars == <<txPc, txOwner, txTry, txKick>>
linuxVars == <<resetPc, reqPc, reqRead, power>>
rxVars == <<rxPc, rxHead, rxBuf, rxSem, bootEvents>>
histVars == <<ring, nextId, replays>>
vars == <<shmVars, hostReq, bellVars, queueVars, flushVars, linuxVars, rxVars,
          histVars>>

Requests == {"replay", "poweroff"}
TxPcs == {"idle", "load", "copy", "publish", "kick", "setwait", "flow", "bell"}
RxPcs == {"service", "load", "take", "copy", "free", "checkwait", "clearwait",
          "bell", "off"}
ResetPcs == {"idle", "cancel", "purge", "reinit", "schedule"}

(* shm_init() zeroes the block before it publishes the magic, and Linux    *)
(* binds to a block that has it.                                           *)
Init ==
  /\ head = 0 /\ tail = 0 /\ wait = FALSE /\ data = ZeroWords /\ hostReq = {}
  /\ bellFw = FALSE /\ bellHost = FALSE
  /\ txQueue = <<>> /\ txPaused = FALSE /\ txQuiesced = FALSE /\ txWork = FALSE
  /\ txPc = "idle" /\ txOwner = "write" /\ txTry = 1 /\ txKick = FALSE
  /\ resetPc = "idle" /\ reqPc = "idle" /\ reqRead = {} /\ power = "on"
  /\ rxPc = "service" /\ rxHead = 0 /\ rxBuf = NoFrame /\ rxSem = FALSE
  /\ bootEvents = 0
  /\ ring = <<>> /\ nextId = 0 /\ replays = 0

LinuxRuns == power = "on"
FwRuns == rxPc # "off"
(* Linux code outside tx_lock, or about to take it: one hart.              *)
LockFree == LinuxRuns /\ txPc = "idle"

-----------------------------------------------------------------------------
(* esp_shm_tx_flush(): the start, called with the lock held.               *)
FlushFrom(queue, owner) ==
  /\ txPc' = IF queue = <<>> THEN "flow" ELSE "load"
  /\ txOwner' = owner /\ txTry' = 1 /\ txKick' = FALSE

(* esp_shm_write(): a frame that is accepted.  With the queue full or the  *)
(* transport quiesced the frame is freed and nothing changes.              *)
esp_shm_write ==
  /\ LockFree /\ ~txQuiesced /\ Len(txQueue) < QUEUE_MAX /\ nextId < Ids
  /\ \E len \in Lens :
       txQueue' = Append(txQueue, [id |-> nextId, len |-> len])
  /\ nextId' = nextId + 1
  /\ FlushFrom(txQueue', "write")
  /\ UNCHANGED <<shmVars, hostReq, bellVars, txPaused, txQuiesced, txWork,
                 linuxVars, rxVars, ring, replays>>

(* esp_shm_tx_work(): the flush returns at once while quiesced.            *)
esp_shm_tx_work ==
  /\ LockFree /\ txWork
  /\ txWork' = FALSE
  /\ IF txQuiesced THEN UNCHANGED flushVars ELSE FlushFrom(txQueue, "work")
  /\ UNCHANGED <<shmVars, hostReq, bellVars, txQueue, txPaused, txQuiesced,
                 linuxVars, rxVars, histVars>>

(* Mutant: the space of the length word is forgotten.                      *)
PushLoad_NoLengthWord ==
  /\ LinuxRuns /\ txPc = "load"
  /\ txPc' = IF Head(txQueue).len <= Size - Sub(head, tail) THEN "copy"
             ELSE IF txTry = 1 THEN "setwait" ELSE "flow"
  /\ UNCHANGED <<shmVars, hostReq, bellVars, queueVars, txOwner, txTry, txKick,
                 linuxVars, rxVars, histVars>>

(* esp_shm_push(): load the indexes and compare the space.  A second       *)
(* failure leaves the loop.                                                *)
PushLoad ==
  /\ LinuxRuns /\ txPc = "load"
  /\ txPc' = IF RecordLen(Head(txQueue).len) <= Size - Sub(head, tail)
             THEN "copy"
             ELSE IF txTry = 1 THEN "setwait" ELSE "flow"
  /\ UNCHANGED <<shmVars, hostReq, bellVars, queueVars, txOwner, txTry, txKick,
                 linuxVars, rxVars, histVars>>

PushCopy ==
  /\ LinuxRuns /\ txPc = "copy"
  /\ data' = ring_copy_in(data, head, Head(txQueue))
  /\ txPc' = "publish"
  /\ UNCHANGED <<head, tail, wait, hostReq, bellVars, queueVars, txOwner, txTry,
                 txKick, linuxVars, rxVars, histVars>>

PushPublish ==
  /\ LinuxRuns /\ txPc = "publish"
  /\ head' = Add(head, RecordLen(Head(txQueue).len))
  /\ ring' = Append(ring, [pos |-> head, frame |-> Head(txQueue)])
  /\ txPc' = "kick"
  /\ UNCHANGED <<tail, wait, data, hostReq, bellVars, queueVars, txOwner, txTry,
                 txKick, linuxVars, rxVars, nextId, replays>>

(* The head before the push, while the frame is still in the queue.        *)
OldHead == Sub(head, RecordLen(Head(txQueue).len))

(* Mutant: a push forgets the kick of the push before it.                  *)
PushKick_OnlyLast ==
  /\ LinuxRuns /\ txPc = "kick"
  /\ txKick' = (tail = OldHead)
  /\ txQueue' = Tail(txQueue)
  /\ txPc' = IF Tail(txQueue) = <<>> THEN "flow" ELSE "load"
  /\ txTry' = 1
  /\ UNCHANGED <<shmVars, hostReq, bellVars, txPaused, txQuiesced, txWork,
                 txOwner, linuxVars, rxVars, histVars>>

(* The load of tail after the fence, then __skb_unlink() and the next peek. *)
PushKick ==
  /\ LinuxRuns /\ txPc = "kick"
  /\ txKick' = (txKick \/ tail = OldHead)
  /\ txQueue' = Tail(txQueue)
  /\ txPc' = IF Tail(txQueue) = <<>> THEN "flow" ELSE "load"
  /\ txTry' = 1
  /\ UNCHANGED <<shmVars, hostReq, bellVars, txPaused, txQuiesced, txWork,
                 txOwner, linuxVars, rxVars, histVars>>

FlushSetWait ==
  /\ LinuxRuns /\ txPc = "setwait"
  /\ wait' = TRUE
  /\ txTry' = 2
  /\ txPc' = "load"
  /\ UNCHANGED <<head, tail, data, hostReq, bellVars, queueVars, txOwner,
                 txKick, linuxVars, rxVars, histVars>>

(* esp_shm_tx_flow(false) below the low mark.                              *)
FlushFlow ==
  /\ LinuxRuns /\ txPc = "flow"
  /\ txPaused' = (txPaused /\ Len(txQueue) > TX_RESUME)
  /\ txPc' = "bell"
  /\ UNCHANGED <<shmVars, hostReq, bellVars, txQueue, txQuiesced, txWork,
                 txOwner, txTry, txKick, linuxVars, rxVars, histVars>>

(* The doorbell, then the pause of esp_shm_write() and the unlock.         *)
FlushBell ==
  /\ LinuxRuns /\ txPc = "bell"
  /\ bellFw' = (bellFw \/ txKick)
  /\ txPaused' = (txPaused \/ (txOwner = "write" /\ Len(txQueue) >= TX_PAUSE))
  /\ txPc' = "idle" /\ txOwner' = "write" /\ txTry' = 1 /\ txKick' = FALSE
  /\ UNCHANGED <<shmVars, hostReq, bellHost, txQueue, txQuiesced, txWork,
                 linuxVars, rxVars, histVars>>

TxFlush == PushLoad \/ PushCopy \/ PushPublish \/ PushKick \/ FlushSetWait
             \/ FlushFlow \/ FlushBell

(* esp_shm_irq(): the work of the other direction and of the flash mailbox *)
(* is in their modules.  The queue is read without the lock.               *)
esp_shm_irq ==
  /\ LinuxRuns /\ bellHost
  /\ bellHost' = FALSE
  /\ txWork' = (txWork \/ txQueue # <<>>)
  /\ UNCHANGED <<shmVars, hostReq, bellFw, txQueue, txPaused, txQuiesced,
                 flushVars, linuxVars, rxVars, histVars>>

-----------------------------------------------------------------------------

(* A boot event from the firmware starts a new session:                    *)
(* esp_shm_quiesce_for_fw_reset(), then esp_shm_reinit_after_fw_reset().   *)
esp_shm_quiesce_for_fw_reset ==
  /\ LockFree /\ resetPc = "idle" /\ bootEvents > 0
  /\ bootEvents' = bootEvents - 1
  /\ txQuiesced' = TRUE
  /\ resetPc' = "cancel"
  /\ UNCHANGED <<shmVars, hostReq, bellVars, txQueue, txPaused, txWork,
                 flushVars, reqPc, reqRead, power, rxPc, rxHead, rxBuf, rxSem,
                 histVars>>

CancelTxWork ==
  /\ LockFree /\ resetPc = "cancel"
  /\ txWork' = FALSE
  /\ resetPc' = "purge"
  /\ UNCHANGED <<shmVars, hostReq, bellVars, txQueue, txPaused, txQuiesced,
                 flushVars, reqPc, reqRead, power, rxVars, histVars>>

(* Mutant: only the first frame is purged.                                 *)
esp_shm_tx_purge_First ==
  /\ LockFree /\ resetPc = "purge"
  /\ txQueue' = IF txQueue = <<>> THEN <<>> ELSE Tail(txQueue)
  /\ resetPc' = "reinit"
  /\ UNCHANGED <<shmVars, hostReq, bellVars, txPaused, txQuiesced, txWork,
                 flushVars, reqPc, reqRead, power, rxVars, histVars>>

esp_shm_tx_purge ==
  /\ LockFree /\ resetPc = "purge"
  /\ txQueue' = <<>>
  /\ resetPc' = "reinit"
  /\ UNCHANGED <<shmVars, hostReq, bellVars, txPaused, txQuiesced, txWork,
                 flushVars, reqPc, reqRead, power, rxVars, histVars>>

esp_shm_reinit_after_fw_reset ==
  /\ LockFree /\ resetPc = "reinit"
  /\ txQuiesced' = FALSE
  /\ resetPc' = "schedule"
  /\ UNCHANGED <<shmVars, hostReq, bellVars, txQueue, txPaused, txWork,
                 flushVars, reqPc, reqRead, power, rxVars, histVars>>

(* Mutant: the new session does not start with a flush.                    *)
ScheduleTxWork_Missing ==
  /\ LockFree /\ resetPc = "schedule"
  /\ resetPc' = "idle"
  /\ UNCHANGED <<shmVars, hostReq, bellVars, queueVars, flushVars, reqPc,
                 reqRead, power, rxVars, histVars>>

ScheduleTxWork ==
  /\ LockFree /\ resetPc = "schedule"
  /\ txWork' = TRUE
  /\ resetPc' = "idle"
  /\ UNCHANGED <<shmVars, hostReq, bellVars, txQueue, txPaused, txQuiesced,
                 flushVars, reqPc, reqRead, power, rxVars, histVars>>

SessionReset == esp_shm_quiesce_for_fw_reset \/ CancelTxWork \/ esp_shm_tx_purge
                  \/ esp_shm_reinit_after_fw_reset \/ ScheduleTxWork

(* esp_shm_request_ready_replay(): a read and a write of the request word, *)
(* not one atomic access, then the doorbell.                               *)
ReplayRead ==
  /\ LockFree /\ reqPc = "idle" /\ replays < MaxReplays
  /\ replays' = replays + 1
  /\ reqRead' = hostReq
  /\ reqPc' = "write"
  /\ UNCHANGED <<shmVars, hostReq, bellVars, queueVars, flushVars, resetPc,
                 power, rxVars, ring, nextId>>

ReplayWrite ==
  /\ LockFree /\ reqPc = "write"
  /\ hostReq' = reqRead \cup {"replay"}
  /\ reqPc' = "bell" /\ reqRead' = {}
  /\ UNCHANGED <<shmVars, bellVars, queueVars, flushVars, resetPc, power,
                 rxVars, histVars>>

ReplayBell ==
  /\ LockFree /\ reqPc = "bell"
  /\ bellFw' = TRUE
  /\ reqPc' = "idle"
  /\ UNCHANGED <<shmVars, hostReq, bellHost, queueVars, flushVars, resetPc,
                 reqRead, power, rxVars, histVars>>

Replay == ReplayWrite \/ ReplayBell

(* esp32s31_request_poweroff() in OpenSBI, on the hart of Linux: Linux     *)
(* does not run again.                                                     *)
PowerOffBit ==
  /\ MayPowerOff /\ LockFree
  /\ hostReq' = hostReq \cup {"poweroff"}
  /\ power' = "bell"
  /\ UNCHANGED <<shmVars, bellVars, queueVars, flushVars, resetPc, reqPc,
                 reqRead, rxVars, histVars>>

PowerOffBell ==
  /\ power = "bell"
  /\ bellFw' = TRUE
  /\ power' = "off"
  /\ UNCHANGED <<shmVars, hostReq, bellHost, queueVars, flushVars, resetPc,
                 reqPc, reqRead, rxVars, histVars>>

-----------------------------------------------------------------------------
(* shm_doorbell_isr().                                                     *)
shm_doorbell_isr ==
  /\ FwRuns /\ bellFw
  /\ bellFw' = FALSE
  /\ rxSem' = TRUE
  /\ UNCHANGED <<shmVars, hostReq, bellHost, queueVars, flushVars, linuxVars,
                 rxPc, rxHead, rxBuf, bootEvents, histVars>>

(* shm_service_host_requests() at the start of each turn of shm_read().    *)
(* The boot event may be lost: no memory, or the send queue is full.       *)
shm_service_host_requests ==
  /\ rxPc = "service"
  /\ hostReq' = {}
  /\ \/ "replay" \in hostReq /\ bootEvents' = bootEvents + 1
     \/ UNCHANGED bootEvents
  /\ rxPc' = IF "poweroff" \in hostReq THEN "off" ELSE "load"
  /\ UNCHANGED <<shmVars, bellVars, queueVars, flushVars, linuxVars, rxHead,
                 rxBuf, rxSem, histVars>>

ReadLoad ==
  /\ rxPc = "load"
  /\ rxHead' = head
  /\ rxPc' = IF head = tail THEN "take" ELSE "copy"
  /\ UNCHANGED <<shmVars, hostReq, bellVars, queueVars, flushVars, linuxVars,
                 rxBuf, rxSem, bootEvents, histVars>>

(* Mutant: the requests are not looked at after a doorbell.                *)
ReadTake_NoService ==
  /\ rxPc = "take" /\ rxSem
  /\ rxSem' = FALSE
  /\ rxPc' = "load"
  /\ UNCHANGED <<shmVars, hostReq, bellVars, queueVars, flushVars, linuxVars,
                 rxHead, rxBuf, bootEvents, histVars>>

ReadTake ==
  /\ rxPc = "take" /\ rxSem
  /\ rxSem' = FALSE
  /\ rxPc' = "service"
  /\ UNCHANGED <<shmVars, hostReq, bellVars, queueVars, flushVars, linuxVars,
                 rxHead, rxBuf, bootEvents, histVars>>

(* The records between the given tail and the head of Linux.               *)
RecordsFrom(t) == SelectSeq(ring, LAMBDA r : Sub(r.pos, t) < Sub(head, t))

(* A broken record drops all frames up to the loaded head, without a look  *)
(* at the wait flag.                                                       *)
ReadCopy ==
  /\ rxPc = "copy"
  /\ rxHead' = 0
  /\ LET len == LenAt(data, tail) IN
     IF LenOk(len, FrameMax, rxHead, tail)
     THEN /\ rxBuf' = ring_copy_out(data, tail, len)
          /\ rxPc' = "free"
          /\ UNCHANGED <<tail, ring>>
     ELSE /\ tail' = rxHead
          /\ ring' = RecordsFrom(rxHead)
          /\ rxPc' = "service"
          /\ UNCHANGED rxBuf
  /\ UNCHANGED <<head, wait, data, hostReq, bellVars, queueVars, flushVars,
                 linuxVars, rxSem, bootEvents, nextId, replays>>

(* heap_caps_malloc() fails: shm_read() returns without the frame and      *)
(* recv_task calls it again.                                               *)
ReadNoMemory ==
  /\ rxPc = "copy" /\ LenOk(LenAt(data, tail), FrameMax, rxHead, tail)
  /\ rxPc' = "service"
  /\ rxHead' = 0
  /\ UNCHANGED <<shmVars, hostReq, bellVars, queueVars, flushVars, linuxVars,
                 rxBuf, rxSem, bootEvents, histVars>>

ReadFree ==
  /\ rxPc = "free"
  /\ tail' = Add(tail, RecordLen(rxBuf.len))
  /\ ring' = Tail(ring)
  /\ rxPc' = "checkwait"
  /\ UNCHANGED <<head, wait, data, hostReq, bellVars, queueVars, flushVars,
                 linuxVars, rxHead, rxBuf, rxSem, bootEvents, nextId, replays>>

(* Without the wait flag, shm_read() returns the frame; recv_task calls it *)
(* again.                                                                  *)
ReadCheckWait ==
  /\ rxPc = "checkwait"
  /\ rxPc' = IF wait THEN "clearwait" ELSE "service"
  /\ rxBuf' = IF wait THEN rxBuf ELSE NoFrame
  /\ UNCHANGED <<shmVars, hostReq, bellVars, queueVars, flushVars, linuxVars,
                 rxHead, rxSem, bootEvents, histVars>>

ReadClearWait ==
  /\ rxPc = "clearwait"
  /\ wait' = FALSE
  /\ rxPc' = "bell"
  /\ UNCHANGED <<head, tail, data, hostReq, bellVars, queueVars, flushVars,
                 linuxVars, rxHead, rxBuf, rxSem, bootEvents, histVars>>

(* Mutant: the wait flag is cleared without a doorbell.                    *)
ReadBell_Silent ==
  /\ rxPc = "bell"
  /\ rxPc' = "service" /\ rxBuf' = NoFrame
  /\ UNCHANGED <<shmVars, hostReq, bellVars, queueVars, flushVars, linuxVars,
                 rxHead, rxSem, bootEvents, histVars>>

ReadBell ==
  /\ rxPc = "bell"
  /\ bellHost' = TRUE
  /\ rxPc' = "service" /\ rxBuf' = NoFrame
  /\ UNCHANGED <<shmVars, hostReq, bellFw, queueVars, flushVars, linuxVars,
                 rxHead, rxSem, bootEvents, histVars>>

(* Every step of shm_read() but the failed allocation.                     *)
shm_read == shm_service_host_requests \/ ReadLoad \/ ReadTake \/ ReadCopy
              \/ ReadFree \/ ReadCheckWait \/ ReadClearWait \/ ReadBell

-----------------------------------------------------------------------------
(* The other users of the doorbells: frames to Linux, space for them, the  *)
(* flash mailbox.                                                          *)
OtherBellHost ==
  /\ FwRuns /\ ~bellHost
  /\ bellHost' = TRUE
  /\ UNCHANGED <<shmVars, hostReq, bellFw, queueVars, flushVars, linuxVars,
                 rxVars, histVars>>

OtherBellFw ==
  /\ LinuxRuns /\ ~bellFw
  /\ bellFw' = TRUE
  /\ UNCHANGED <<shmVars, hostReq, bellHost, queueVars, flushVars, linuxVars,
                 rxVars, histVars>>

(* Deep sleep: only a reset starts the chip again.                         *)
DeepSleep == ~FwRuns /\ power = "off" /\ UNCHANGED vars

Next ==
  \/ esp_shm_write \/ esp_shm_tx_work \/ TxFlush \/ esp_shm_irq
  \/ SessionReset
  \/ ReplayRead \/ Replay
  \/ PowerOffBit \/ PowerOffBell
  \/ shm_doorbell_isr \/ shm_read \/ ReadNoMemory
  \/ OtherBellHost \/ OtherBellFw \/ DeepSleep

Spec == Init /\ [][Next]_vars

(***************************************************************************)
(* Both harts make progress: interrupts are taken, a runnable thread, work *)
(* item or task runs, an allocation does not fail for ever.  Nothing makes *)
(* the network stack send, a boot event come or Linux power off.           *)
(***************************************************************************)
FairSpec ==
  /\ Spec
  /\ WF_vars(TxFlush) /\ SF_vars(esp_shm_tx_work) /\ WF_vars(esp_shm_irq)
  /\ SF_vars(SessionReset) /\ SF_vars(Replay) /\ WF_vars(PowerOffBell)
  /\ WF_vars(shm_doorbell_isr) /\ WF_vars(shm_read)
  /\ SF_vars(ReadCopy)

-----------------------------------------------------------------------------
(* The types of the variables: the flags, the places in the code, the rest. *)
FlagTypes ==
  /\ wait \in BOOLEAN /\ bellFw \in BOOLEAN /\ bellHost \in BOOLEAN
  /\ txPaused \in BOOLEAN /\ txQuiesced \in BOOLEAN /\ txWork \in BOOLEAN
  /\ txKick \in BOOLEAN /\ rxSem \in BOOLEAN

PcTypes ==
  /\ txPc \in TxPcs /\ txOwner \in {"write", "work"} /\ txTry \in {1, 2}
  /\ resetPc \in ResetPcs /\ reqPc \in {"idle", "write", "bell"}
  /\ power \in {"on", "bell", "off"} /\ rxPc \in RxPcs

DataTypes ==
  /\ head \in Count /\ tail \in Count /\ rxHead \in Count
  /\ data \in [Words -> Nat \X Nat]
  /\ rxBuf \in [id : Nat, len : 0 .. FrameMax]
  /\ txQueue \in Seq(Frame)
  /\ hostReq \in SUBSET Requests /\ reqRead \in SUBSET Requests
  /\ bootEvents \in Nat /\ replays \in Nat /\ nextId \in 0 .. Ids

TypeOK == FlagTypes /\ PcTypes /\ DataTypes

(* The queue holds a frame whenever the flush looks at its first one, and  *)
(* it is within the limit of esp_shm_write().                              *)
QueueBounded ==
  /\ Len(txQueue) <= QUEUE_MAX
  /\ txPc \in {"load", "copy", "publish", "kick", "setwait"} => txQueue # <<>>

(* The bytes between tail and head never exceed the ring, also when the    *)
(* counters wrap, when shm_read() gives space back between the check of    *)
(* esp_shm_push() and its store of head, and when shm_read() drops all     *)
(* frames.                                                                 *)
SpaceBound == Sub(head, tail) <= Size

(* The receive task never sleeps on frames: when it is about to take its   *)
(* semaphore and the ring is not empty, the semaphore or the doorbell is   *)
(* set, or the flush has seen or will see that it must ring.               *)
NoMissedDoorbell ==
  rxPc = "take" /\ head # tail =>
    \/ rxSem \/ bellFw
    \/ txPc # "idle" /\ txKick
    \/ txPc = "kick" /\ tail = OldHead

(* The direction implements the channel: recv_task gets the accepted       *)
(* frames whole and in order.  A frame is dropped only in the purge of a   *)
(* session reset, while esp_shm_write() and the flush are locked out by    *)
(* tx_quiesced; the purge takes the frames that are still in the tx queue, *)
(* all of them, and none that is in the ring.  A failed allocation loses   *)
(* no frame here.                                                          *)
Queued == IF txPc = "kick" THEN Tail(txQueue) ELSE txQueue

InFlight == [i \in 1 .. Len(ring) |-> ring[i].frame]

Handed == IF rxPc \in {"checkwait", "clearwait", "bell"} THEN rxBuf ELSE NoFrame

Channel == INSTANCE FrameChannel
             WITH queued <- Queued, inFlight <- InFlight, out <- Handed,
                  giveUp <- txQuiesced, noMemory <- FALSE, MayLose <- FALSE

ChannelSpec == Channel!Spec

-----------------------------------------------------------------------------
Carries(id) ==
  \/ \E i \in 1 .. Len(Queued) : Queued[i].id = id
  \/ \E i \in 1 .. Len(InFlight) : InFlight[i].id = id

(* Every accepted frame leaves the transport, to recv_task or in a session *)
(* reset, unless Linux powers off.                                         *)
FramesLeave ==
  \A id \in 0 .. Ids - 1 : Carries(id) ~> (~Carries(id) \/ ~LinuxRuns)

(* Stopped net queues are always woken again.                              *)
QueuesResume == txPaused ~> (~txPaused \/ ~LinuxRuns)

(* A request that Linux or OpenSBI posts is taken by the receive task, and *)
(* a power-off ends in deep sleep, whatever the ring and the other         *)
(* requests do.                                                            *)
RequestsServed ==
  /\ ("replay" \in hostReq) ~> (hostReq = {})
  /\ (power # "on") ~> (rxPc = "off")

=============================================================================
