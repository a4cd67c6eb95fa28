------------------------------ MODULE FwToHost ------------------------------
(***************************************************************************)
(* The direction from the firmware to Linux: shm_write() in the send task  *)
(* on hart 0, esp_shm_irq() and the receive work with esp_shm_read() on    *)
(* hart 1, and the bind and unbind of the Linux driver.  The firmware      *)
(* sends from its start on; Linux binds later.  As in HostToFw, an action  *)
(* makes at most one access that the other hart can see.                   *)
(***************************************************************************)
EXTENDS ShmLayout

CONSTANTS Lens,       \* lengths of the frames the firmware sends
          MaxRemoves  \* bound: unbinds of the Linux driver

ASSUME RxAssumption == Lens \subseteq FrameLens /\ MaxRemoves \in Nat

VARIABLES
  \* the shared block and the doorbell registers
  head, tail, wait, data, bellFw, bellHost,
  \* the firmware: shm_write(), whether SHM_TX_TIMEOUT_MS is over since its
  \* start, and its semaphore
  wrPc, wrFrame, wrTry, wrKick, wrLate, spaceSem,
  \* Linux: the driver, its receive work, esp_shm_read()
  driver, rxWork, rdPc, rdHead, rdBuf,
  \* history: the records in the ring, the next frame, the unbinds so far
  ring, nextId, removes

shmVars == <<head, tail, wait, data>>
bellVars == <<bellFw, bellHost>>
wrVars == <<wrPc, wrFrame, wrTry, wrKick, wrLate, spaceSem>>
linuxVars == <<driver, rxWork, rdPc, rdHead, rdBuf>>
histVars == <<ring, nextId, removes>>
vars == <<shmVars, bellVars, wrVars, linuxVars, histVars>>

(* After shm_init(), before esp_shm_probe().                               *)
Init ==
  /\ head = 0 /\ tail = 0 /\ wait = FALSE /\ data = ZeroWords
  /\ bellFw = FALSE /\ bellHost = FALSE
  /\ wrPc = "idle" /\ wrFrame = NoFrame /\ wrTry = 1 /\ wrKick = FALSE
  /\ wrLate = FALSE /\ spaceSem = FALSE
  /\ driver = "unbound" /\ rxWork = FALSE /\ rdPc = "idle" /\ rdHead = 0
  /\ rdBuf = NoFrame
  /\ ring = <<>> /\ nextId = 0 /\ removes = 0

-----------------------------------------------------------------------------
(* The frame is with the writer and not yet in the ring.                   *)
Writing == wrPc \in {"load", "copy", "publish", "setwait", "check", "take"}

(* The send task calls shm_write() with the next frame.                    *)
shm_write ==
  /\ wrPc = "idle" /\ nextId < Ids
  /\ \E len \in Lens : wrFrame' = [id |-> nextId, len |-> len]
  /\ nextId' = nextId + 1
  /\ wrPc' = "load" /\ wrTry' = 1
  /\ UNCHANGED <<shmVars, bellVars, wrKick, wrLate, spaceSem, linuxVars, ring,
                 removes>>

(* ring_push(): load the indexes and compare the space.                    *)
PushLoad ==
  /\ wrPc = "load"
  /\ wrPc' = IF RecordLen(wrFrame.len) <= Size - Sub(head, tail) THEN "copy"
             ELSE IF wrTry = 1 THEN "setwait" ELSE "check"
  /\ UNCHANGED <<shmVars, bellVars, wrFrame, wrTry, wrKick, wrLate, spaceSem,
                 linuxVars, histVars>>

PushCopy ==
  /\ wrPc = "copy"
  /\ data' = ring_copy_in(data, head, wrFrame)
  /\ wrPc' = "publish"
  /\ UNCHANGED <<head, tail, wait, bellVars, wrFrame, wrTry, wrKick, wrLate,
                 spaceSem, linuxVars, histVars>>

PushPublish ==
  /\ wrPc = "publish"
  /\ head' = Add(head, RecordLen(wrFrame.len))
  /\ ring' = Append(ring, [pos |-> head, frame |-> wrFrame])
  /\ wrPc' = "kick" /\ wrLate' = FALSE
  /\ UNCHANGED <<tail, wait, data, bellVars, wrFrame, wrTry, wrKick, spaceSem,
                 linuxVars, nextId, removes>>

OldHead == Sub(head, RecordLen(wrFrame.len))

(* Mutant: the tail is compared with the new head.                         *)
PushKick_NewHead ==
  /\ wrPc = "kick"
  /\ wrKick' = (tail = head)
  /\ wrPc' = "bell"
  /\ UNCHANGED <<shmVars, bellVars, wrFrame, wrTry, wrLate, spaceSem,
                 linuxVars, histVars>>

PushKick ==
  /\ wrPc = "kick"
  /\ wrKick' = (tail = OldHead)
  /\ wrPc' = "bell"
  /\ UNCHANGED <<shmVars, bellVars, wrFrame, wrTry, wrLate, spaceSem,
                 linuxVars, histVars>>

(* Mutant: no second try after the wait flag.                              *)
WriteSetWait_NoRetry ==
  /\ wrPc = "setwait"
  /\ wait' = TRUE
  /\ wrTry' = 2 /\ wrPc' = "check"
  /\ UNCHANGED <<head, tail, data, bellVars, wrFrame, wrKick, wrLate, spaceSem,
                 linuxVars, histVars>>

WriteSetWait ==
  /\ wrPc = "setwait"
  /\ wait' = TRUE
  /\ wrTry' = 2 /\ wrPc' = "load"
  /\ UNCHANGED <<head, tail, data, bellVars, wrFrame, wrKick, wrLate, spaceSem,
                 linuxVars, histVars>>

(* Mutant: the second failed try gives up, without a look at the time.     *)
WriteLate_Early ==
  /\ wrPc = "check"
  /\ wrPc' = "idle" /\ wrFrame' = NoFrame /\ wrTry' = 1 /\ wrLate' = FALSE
  /\ UNCHANGED <<shmVars, bellVars, wrKick, spaceSem, linuxVars, histVars>>

(* SHM_TX_TIMEOUT_MS is over: the frame is lost, the wait flag stays set.  *)
WriteLate ==
  /\ wrPc = "check" /\ wrLate
  /\ wrPc' = "idle" /\ wrFrame' = NoFrame /\ wrTry' = 1 /\ wrLate' = FALSE
  /\ UNCHANGED <<shmVars, bellVars, wrKick, spaceSem, linuxVars, histVars>>

WriteInTime ==
  /\ wrPc = "check" /\ ~wrLate
  /\ wrPc' = "take"
  /\ UNCHANGED <<shmVars, bellVars, wrFrame, wrTry, wrKick, wrLate, spaceSem,
                 linuxVars, histVars>>

(* Mutant: a take without a timeout.                                       *)
WriteTake_NoTimeout ==
  /\ wrPc = "take" /\ spaceSem
  /\ spaceSem' = FALSE
  /\ wrPc' = "load" /\ wrTry' = 1
  /\ UNCHANGED <<shmVars, bellVars, wrFrame, wrKick, wrLate, linuxVars,
                 histVars>>

(* xSemaphoreTake(): with the semaphore, or at the end of its time.        *)
WriteTake ==
  /\ wrPc = "take"
  /\ spaceSem' = FALSE
  /\ wrPc' = "load" /\ wrTry' = 1
  /\ UNCHANGED <<shmVars, bellVars, wrFrame, wrKick, wrLate, linuxVars,
                 histVars>>

WriteBell ==
  /\ wrPc = "bell"
  /\ bellHost' = (bellHost \/ wrKick)
  /\ wrPc' = "idle" /\ wrFrame' = NoFrame /\ wrTry' = 1 /\ wrKick' = FALSE
  /\ UNCHANGED <<shmVars, bellFw, wrLate, spaceSem, linuxVars, histVars>>

(* The steps of shm_write() after its start.                               *)
WriteStep == PushLoad \/ PushCopy \/ PushPublish \/ PushKick \/ WriteSetWait
               \/ WriteLate \/ WriteInTime \/ WriteTake \/ WriteBell

(* The tick count: more than SHM_TX_TIMEOUT_MS since the start of the call. *)
WriteTimeOver ==
  /\ Writing /\ ~wrLate
  /\ wrLate' = TRUE
  /\ UNCHANGED <<shmVars, bellVars, wrPc, wrFrame, wrTry, wrKick, spaceSem,
                 linuxVars, histVars>>

shm_doorbell_isr ==
  /\ bellFw
  /\ bellFw' = FALSE
  /\ spaceSem' = TRUE
  /\ UNCHANGED <<shmVars, bellHost, wrPc, wrFrame, wrTry, wrKick, wrLate,
                 linuxVars, histVars>>

-----------------------------------------------------------------------------

(* esp_shm_probe(): running, the interrupt on, and one turn of the receive *)
(* work for the frames of the time before.                                 *)
esp_shm_probe ==
  /\ driver = "unbound"
  /\ driver' = "bound"
  /\ rxWork' = TRUE
  /\ UNCHANGED <<shmVars, bellVars, wrVars, rdPc, rdHead, rdBuf, histVars>>

(* esp_shm_remove(): the adapter is disabled and the receive work is       *)
(* cancelled, which waits for its end; the interrupt is freed later.       *)
esp_shm_remove ==
  /\ driver = "bound" /\ rdPc = "idle" /\ removes < MaxRemoves
  /\ driver' = "removing"
  /\ rxWork' = FALSE
  /\ removes' = removes + 1
  /\ UNCHANGED <<shmVars, bellVars, wrVars, rdPc, rdHead, rdBuf, ring, nextId>>

RemoveDone ==
  /\ driver = "removing"
  /\ driver' = "unbound"
  /\ UNCHANGED <<shmVars, bellVars, wrVars, rxWork, rdPc, rdHead, rdBuf,
                 histVars>>

(* esp_shm_irq(): with the adapter disabled, no work is queued.            *)
esp_shm_irq ==
  /\ driver # "unbound" /\ bellHost
  /\ bellHost' = FALSE
  /\ rxWork' = (rxWork \/ driver = "bound")
  /\ UNCHANGED <<shmVars, bellFw, wrVars, driver, rdPc, rdHead, rdBuf,
                 histVars>>

(* The receive work: esp_shm_read() until it returns no frame.             *)
RxWork ==
  /\ rxWork /\ rdPc = "idle"
  /\ rxWork' = FALSE
  /\ rdPc' = "load"
  /\ UNCHANGED <<shmVars, bellVars, wrVars, driver, rdHead, rdBuf, histVars>>

ReadLoad ==
  /\ rdPc = "load"
  /\ rdPc' = IF head = tail THEN "idle" ELSE "copy"
  /\ rdHead' = IF head = tail THEN 0 ELSE head
  /\ UNCHANGED <<shmVars, bellVars, wrVars, driver, rxWork, rdBuf, histVars>>

RecordsFrom(t) == SelectSeq(ring, LAMBDA r : Sub(r.pos, t) < Sub(head, t))

(* The limit of the length is the ring size here.  A broken record drops   *)
(* the frames up to the loaded head and ends the work.                     *)
ReadCopy ==
  /\ rdPc = "copy"
  /\ rdHead' = 0
  /\ LET len == LenAt(data, tail) IN
     IF LenOk(len, Size, rdHead, tail)
     THEN /\ rdBuf' = ring_copy_out(data, tail, len)
          /\ rdPc' = "free"
          /\ UNCHANGED <<tail, ring>>
     ELSE /\ tail' = rdHead
          /\ ring' = RecordsFrom(rdHead)
          /\ rdPc' = "idle"
          /\ UNCHANGED rdBuf
  /\ UNCHANGED <<head, wait, data, bellVars, wrVars, driver, rxWork, nextId,
                 removes>>

(* esp_shm_alloc_skb() fails: the frame is dropped, its space is given     *)
(* back and the loop goes on.                                              *)
Dropped(len) == [id |-> Ids + 1, len |-> len]

ReadNoMemory ==
  /\ rdPc = "copy" /\ LenOk(LenAt(data, tail), Size, rdHead, tail)
  /\ rdBuf' = Dropped(LenAt(data, tail))
  /\ rdHead' = 0
  /\ rdPc' = "free"
  /\ UNCHANGED <<shmVars, bellVars, wrVars, driver, rxWork, histVars>>

(* esp_shm_rx_done().                                                      *)
ReadFree ==
  /\ rdPc = "free"
  /\ tail' = Add(tail, RecordLen(rdBuf.len))
  /\ ring' = Tail(ring)
  /\ rdPc' = "checkwait"
  /\ UNCHANGED <<head, wait, data, bellVars, wrVars, driver, rxWork, rdHead,
                 rdBuf, nextId, removes>>

ReadCheckWait ==
  /\ rdPc = "checkwait"
  /\ rdPc' = IF wait THEN "clearwait" ELSE "load"
  /\ rdBuf' = IF wait THEN rdBuf ELSE NoFrame
  /\ UNCHANGED <<shmVars, bellVars, wrVars, driver, rxWork, rdHead, histVars>>

ReadClearWait ==
  /\ rdPc = "clearwait"
  /\ wait' = FALSE
  /\ rdPc' = "bell"
  /\ UNCHANGED <<head, tail, data, bellVars, wrVars, driver, rxWork, rdHead,
                 rdBuf, histVars>>

ReadBell ==
  /\ rdPc = "bell"
  /\ bellFw' = TRUE
  /\ rdPc' = "load" /\ rdBuf' = NoFrame
  /\ UNCHANGED <<shmVars, bellHost, wrVars, driver, rxWork, rdHead, histVars>>

(* The steps of the receive work but the failed allocation.                *)
ReadStep == RxWork \/ ReadLoad \/ ReadCopy \/ ReadFree \/ ReadCheckWait
              \/ ReadClearWait \/ ReadBell

-----------------------------------------------------------------------------
(* The other users of the doorbells.                                       *)
OtherBellHost ==
  /\ ~bellHost
  /\ bellHost' = TRUE
  /\ UNCHANGED <<shmVars, bellFw, wrVars, linuxVars, histVars>>

OtherBellFw ==
  /\ driver # "unbound" /\ ~bellFw
  /\ bellFw' = TRUE
  /\ UNCHANGED <<shmVars, bellHost, wrVars, linuxVars, histVars>>

Next ==
  \/ shm_write \/ WriteStep \/ WriteTimeOver \/ shm_doorbell_isr
  \/ esp_shm_probe \/ esp_shm_remove \/ RemoveDone \/ esp_shm_irq
  \/ ReadStep \/ ReadNoMemory
  \/ OtherBellHost \/ OtherBellFw

Spec == Init /\ [][Next]_vars

(***************************************************************************)
(* Both harts make progress, and the tick count grows.  FwFairSpec says    *)
(* nothing of Linux; LinuxRuns is the premise of what needs a live Linux.  *)
(***************************************************************************)
FwFairSpec ==
  /\ Spec
  /\ WF_vars(WriteStep) /\ WF_vars(WriteTimeOver) /\ WF_vars(shm_doorbell_isr)

LinuxRuns ==
  /\ WF_vars(esp_shm_probe) /\ WF_vars(RemoveDone) /\ WF_vars(esp_shm_irq)
  /\ WF_vars(ReadStep)

-----------------------------------------------------------------------------
(* A writer that waits for space is woken by it: while it waits, its       *)
(* semaphore or the doorbell is set or about to be set, or the wait flag   *)
(* is set and the ring has no space for the frame.  So only a ring that    *)
(* stays full costs a frame its timeout, and a wait flag that an earlier   *)
(* timeout left behind does no harm.                                       *)
WriterIsWoken ==
  wrPc \in {"check", "take"} =>
    \/ spaceSem \/ bellFw
    \/ rdPc \in {"clearwait", "bell"}
    \/ wait /\ ( \/ rdPc = "checkwait"
                 \/ RecordLen(wrFrame.len) > Size - Sub(head, tail) )

(* The direction implements the channel: Linux gets the frames whole and   *)
(* in order, across an unbind and a new bind too.  A frame is lost only by *)
(* a writer that has found no space in two tries and its time over at the  *)
(* check, or by a reader whose allocation has failed for that very frame.  *)
Queued == IF Writing THEN <<wrFrame>> ELSE <<>>

InFlight == [i \in 1 .. Len(ring) |-> ring[i].frame]

Handed == IF rdPc \in {"checkwait", "clearwait", "bell"} /\ rdBuf.id # Ids + 1
          THEN rdBuf ELSE NoFrame

GivesUp == wrPc = "check" /\ wrLate

HasNoMemory == rdPc = "free" /\ rdBuf.id = Ids + 1

Channel == INSTANCE FrameChannel
             WITH queued <- Queued, inFlight <- InFlight, out <- Handed,
                  giveUp <- GivesUp, noMemory <- HasNoMemory, MayLose <- TRUE

ChannelSpec == Channel!Spec

(* shm_write() returns, whatever Linux does: the send task cannot hang on  *)
(* a Linux that does not read.                                             *)
WriteReturns == (wrPc # "idle") ~> (wrPc = "idle")

(* With a Linux that runs, every frame that gets into the ring gets out.   *)
RingDrains ==
  LinuxRuns => \A id \in 0 .. Ids - 1 :
    (\E i \in 1 .. Len(ring) : ring[i].frame.id = id)
      ~> ~(\E i \in 1 .. Len(ring) : ring[i].frame.id = id)

=============================================================================
