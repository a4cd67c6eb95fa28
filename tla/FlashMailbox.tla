---------------------------- MODULE FlashMailbox ----------------------------
(***************************************************************************)
(* The flash window of Linux: the MTD driver (esp_shm_flash.c) posts       *)
(* program and erase commands in the mailbox, the flash task of the        *)
(* firmware (shm_flash.c) runs them.  A command goes over the doorbell,    *)
(* the receive task and the semaphore of the flash task; its end comes     *)
(* back over the other doorbell and a wait queue.  Linux gives up after    *)
(* ESP_SHM_FLASH_TIMEOUT_MS, the firmware does not.                        *)
(*                                                                         *)
(* The flash is a function from bytes to the set of the users whose data   *)
(* was programmed there since the last erase: NOR flash programs add up.   *)
(***************************************************************************)
EXTENDS Naturals

CONSTANTS Users,      \* threads that call the MTD functions
          Window,     \* bytes of the window (s_size)
          DATA_SIZE, SECTOR, BLOCK, \* ESP_SHM_FLASH_*
          Ranges,     \* the <<from, length>> that the calls ask for
          MaxCalls    \* bound: calls of the MTD functions

ASSUME FlashAssumption ==
  /\ Window \in Nat /\ DATA_SIZE \in Nat /\ SECTOR \in Nat /\ BLOCK \in Nat
  /\ 0 < DATA_SIZE /\ 0 < SECTOR /\ 0 < BLOCK /\ 0 < Window
  /\ SECTOR % DATA_SIZE = 0  \* the _Static_assert of shm_flash.c
  /\ Window % BLOCK = 0
  /\ MaxCalls \in Nat
  /\ \A r \in Ranges : r[1] \in Nat /\ r[2] \in Nat /\ 0 < r[2]
                         /\ r[1] + r[2] <= Window

VARIABLES
  \* the mailbox, the doorbells, the flash
  cmd, status, addr, len, buf, bellFw, bellHost, flash,
  \* Linux: the mutex, the state of each user, ctx->flash
  lock, pc, call, wakeable,
  \* the firmware: the receive task, the flash task, the semaphores
  rxSem, recvPc, kick, taskPc, taskReq, taskPos, taskErr,
  \* history: the request that was posted last, calls, a command timed out,
  \* a wake-up came before ctx->flash was set
  posted, calls, timedOut, wokenEarly

mboxVars == <<cmd, status, addr, len, buf>>
linuxVars == <<lock, pc, call, wakeable>>
fwVars == <<rxSem, recvPc, kick, taskPc, taskReq, taskPos, taskErr>>
histVars == <<posted, calls, timedOut, wokenEarly>>
vars == <<mboxVars, bellFw, bellHost, flash, linuxVars, fwVars, histVars>>

Bytes == 0 .. Window - 1
Nobody == "nobody"
ASSUME NobodyAssumption == Nobody \notin Users
NoRequest == [cmd |-> "none", addr |-> 0, len |-> 0, buf |-> Nobody]

(* A call: what it has still to do (at, left), what it has done, what it   *)
(* returns.                                                                *)
NoCall == [kind |-> "none", from |-> 0, at |-> 0, left |-> 0, ret |-> "ok"]

Init ==
  /\ cmd = "none" /\ status = "ok" /\ addr = 0 /\ len = 0 /\ buf = Nobody
  /\ bellFw = FALSE /\ bellHost = FALSE
  /\ flash = [b \in Bytes |-> {}]
  /\ lock = Nobody /\ wakeable = FALSE
  /\ pc = [u \in Users |-> "idle"] /\ call = [u \in Users |-> NoCall]
  /\ rxSem = FALSE /\ recvPc = "service" /\ kick = FALSE
  /\ taskPc = "take" /\ taskReq = NoRequest /\ taskPos = 0 /\ taskErr = "ok"
  /\ posted = NoRequest /\ calls = 0 /\ timedOut = FALSE
  /\ wokenEarly = FALSE

Min(a, b) == IF a < b THEN a ELSE b

-----------------------------------------------------------------------------

(* Mutant: a read does not take the mutex.                                 *)
Call_ReadUnlocked(u, kind, from, n) ==
  /\ pc[u] = "idle" /\ (kind = "read" \/ lock = Nobody) /\ calls < MaxCalls
  /\ lock' = IF kind = "read" THEN lock ELSE u
  /\ call' = [call EXCEPT ![u] = [kind |-> kind, from |-> from, at |-> from,
                                  left |-> n, ret |-> "ok"]]
  /\ pc' = [pc EXCEPT ![u] = IF kind = "read" THEN "read" ELSE "next"]
  /\ calls' = calls + 1
  /\ UNCHANGED <<mboxVars, bellFw, bellHost, flash, wakeable, fwVars, posted,
                 timedOut, wokenEarly>>

(* esp_shm_flash_read(), _write() and _erase(): a call takes the mutex.    *)
(* The MTD layer keeps a call in the window and an erase on blocks.        *)
Call(u, kind, from, n) ==
  /\ pc[u] = "idle" /\ lock = Nobody /\ calls < MaxCalls
  /\ lock' = u
  /\ call' = [call EXCEPT ![u] = [kind |-> kind, from |-> from, at |-> from,
                                  left |-> n, ret |-> "ok"]]
  /\ pc' = [pc EXCEPT ![u] = IF kind = "read" THEN "read" ELSE "next"]
  /\ calls' = calls + 1
  /\ UNCHANGED <<mboxVars, bellFw, bellHost, flash, wakeable, fwVars, posted,
                 timedOut, wokenEarly>>

esp_shm_flash_read(u) == \E r \in Ranges : Call(u, "read", r[1], r[2])

esp_shm_flash_write(u) == \E r \in Ranges : Call(u, "program", r[1], r[2])

esp_shm_flash_erase(u) ==
  \E r \in Ranges :
    r[1] % BLOCK = 0 /\ r[2] % BLOCK = 0 /\ Call(u, "erase", r[1], r[2])

(* The memcpy() from the window, under the mutex.                          *)
ReadDone(u) ==
  /\ pc[u] = "read"
  /\ pc' = [pc EXCEPT ![u] = "unlock"]
  /\ UNCHANGED <<mboxVars, bellFw, bellHost, flash, lock, call, wakeable, fwVars,
                 histVars>>

(* The length of the next command of a call.                               *)
Chunk(c) == IF c.kind = "erase" THEN BLOCK
            ELSE Min(c.left, DATA_SIZE - (c.at % DATA_SIZE))

(* Mutant: no -EBUSY.                                                      *)
CmdFill_NoBusy(u) ==
  /\ pc[u] = "next"
  /\ LET c == call[u] IN
     IF c.left = 0
     THEN /\ pc' = [pc EXCEPT ![u] = "unlock"]
          /\ UNCHANGED <<addr, len, buf>>
     ELSE /\ addr' = c.at /\ len' = Chunk(c)
          /\ buf' = IF c.kind = "program" THEN u ELSE buf
          /\ pc' = [pc EXCEPT ![u] = "post"]
  /\ UNCHANGED <<cmd, status, bellFw, bellHost, flash, lock, call, wakeable,
                 fwVars, histVars>>

(* esp_shm_flash_cmd(): -EBUSY while the firmware still works on an old    *)
(* command, else the request is written.                                   *)
CmdFill(u) ==
  /\ pc[u] = "next"
  /\ LET c == call[u] IN
     IF c.left = 0
     THEN /\ pc' = [pc EXCEPT ![u] = "unlock"]
          /\ UNCHANGED <<addr, len, buf, call>>
     ELSE IF cmd # "none"
     THEN /\ call' = [call EXCEPT ![u].ret = "busy"]
          /\ pc' = [pc EXCEPT ![u] = "unlock"]
          /\ UNCHANGED <<addr, len, buf>>
     ELSE /\ addr' = c.at /\ len' = Chunk(c)
          /\ buf' = IF c.kind = "program" THEN u ELSE buf
          /\ pc' = [pc EXCEPT ![u] = "post"]
          /\ UNCHANGED call
  /\ UNCHANGED <<cmd, status, bellFw, bellHost, flash, lock, wakeable, fwVars,
                 histVars>>

CmdPost(u) ==
  /\ pc[u] = "post"
  /\ cmd' = call[u].kind
  /\ posted' = [cmd |-> call[u].kind, addr |-> addr, len |-> len, buf |-> buf]
  /\ pc' = [pc EXCEPT ![u] = "ring"]
  /\ UNCHANGED <<status, addr, len, buf, bellFw, bellHost, flash, lock, call,
                 wakeable, fwVars, calls, timedOut, wokenEarly>>

CmdRing(u) ==
  /\ pc[u] = "ring"
  /\ bellFw' = TRUE
  /\ pc' = [pc EXCEPT ![u] = "check"]
  /\ UNCHANGED <<mboxVars, bellHost, flash, lock, call, wakeable, fwVars,
                 histVars>>

(* wait_event_timeout(): the condition, then sleep until a wake-up.        *)
WaitCheck(u) ==
  /\ pc[u] = "check"
  /\ pc' = [pc EXCEPT ![u] = IF cmd = "none" THEN "status" ELSE "sleep"]
  /\ UNCHANGED <<mboxVars, bellFw, bellHost, flash, lock, call, wakeable, fwVars,
                 histVars>>

(* Mutant: the end of the time is taken for the end of the command.        *)
WaitTimeout_AsDone(u) ==
  /\ pc[u] = "sleep"
  /\ pc' = [pc EXCEPT ![u] = "status"]
  /\ UNCHANGED <<mboxVars, bellFw, bellHost, flash, lock, call, wakeable, fwVars,
                 histVars>>

(* The end of the time: the condition is looked at once more.              *)
WaitTimeout(u) ==
  /\ pc[u] = "sleep"
  /\ pc' = [pc EXCEPT ![u] = IF cmd = "none" THEN "status" ELSE "unlock"]
  /\ call' = [call EXCEPT ![u].ret = IF cmd = "none" THEN @ ELSE "timeout"]
  /\ timedOut' = (timedOut \/ cmd # "none")
  /\ UNCHANGED <<mboxVars, bellFw, bellHost, flash, lock, wakeable, fwVars,
                 posted, calls, wokenEarly>>

(* The status of the command: an error ends the call, else the next one.   *)
CmdStatus(u) ==
  /\ pc[u] = "status"
  /\ IF status = "ok"
     THEN /\ call' = [call EXCEPT ![u].at = @ + Chunk(call[u]),
                                  ![u].left = @ - Chunk(call[u])]
          /\ pc' = [pc EXCEPT ![u] = "next"]
     ELSE /\ call' = [call EXCEPT ![u].ret = "io"]
          /\ pc' = [pc EXCEPT ![u] = "unlock"]
  /\ UNCHANGED <<mboxVars, bellFw, bellHost, flash, lock, wakeable, fwVars,
                 histVars>>

Unlock(u) ==
  /\ pc[u] = "unlock"
  /\ lock' = Nobody
  /\ pc' = [pc EXCEPT ![u] = "idle"]
  /\ call' = [call EXCEPT ![u] = NoCall]
  /\ UNCHANGED <<mboxVars, bellFw, bellHost, flash, wakeable, fwVars, histVars>>

CallStep(u) == ReadDone(u) \/ CmdFill(u) \/ CmdPost(u) \/ CmdRing(u)
                 \/ WaitCheck(u) \/ CmdStatus(u) \/ Unlock(u)

(* esp_shm_irq(): esp_shm_flash_wake() does nothing before esp_shm_probe() *)
(* has set ctx->flash, when users can already have found the device.       *)
esp_shm_irq ==
  /\ bellHost
  /\ bellHost' = FALSE
  /\ pc' = [u \in Users |-> IF pc[u] = "sleep" /\ wakeable THEN "check" ELSE pc[u]]
  /\ wokenEarly' = (wokenEarly \/ (~wakeable /\ \E u \in Users : pc[u] = "sleep"))
  /\ UNCHANGED <<mboxVars, bellFw, flash, lock, call, wakeable, fwVars, posted,
                 calls, timedOut>>

ProbeDone ==
  /\ ~wakeable
  /\ wakeable' = TRUE
  /\ UNCHANGED <<mboxVars, bellFw, bellHost, flash, lock, pc, call, fwVars,
                 histVars>>

-----------------------------------------------------------------------------
shm_doorbell_isr ==
  /\ bellFw
  /\ bellFw' = FALSE
  /\ rxSem' = TRUE
  /\ UNCHANGED <<mboxVars, bellHost, flash, linuxVars, recvPc, kick, taskPc,
                 taskReq, taskPos, taskErr, histVars>>

(* Mutant: the receive task does not pass the doorbell on.                 *)
shm_flash_kick_Lost ==
  /\ recvPc = "service"
  /\ recvPc' = "take"
  /\ UNCHANGED <<mboxVars, bellFw, bellHost, flash, linuxVars, rxSem, kick,
                 taskPc, taskReq, taskPos, taskErr, histVars>>

(* The receive task: shm_flash_kick() in each turn of shm_read().          *)
shm_flash_kick ==
  /\ recvPc = "service"
  /\ kick' = TRUE
  /\ recvPc' = "take"
  /\ UNCHANGED <<mboxVars, bellFw, bellHost, flash, linuxVars, rxSem, taskPc,
                 taskReq, taskPos, taskErr, histVars>>

RecvTake ==
  /\ recvPc = "take" /\ rxSem
  /\ rxSem' = FALSE
  /\ recvPc' = "service"
  /\ UNCHANGED <<mboxVars, bellFw, bellHost, flash, linuxVars, kick, taskPc,
                 taskReq, taskPos, taskErr, histVars>>

(* flash_task() and shm_flash_service().                                   *)
TaskTake ==
  /\ taskPc = "take" /\ kick
  /\ kick' = FALSE
  /\ taskPc' = "load"
  /\ UNCHANGED <<mboxVars, bellFw, bellHost, flash, linuxVars, rxSem, recvPc,
                 taskReq, taskPos, taskErr, histVars>>

TaskLoad ==
  /\ taskPc = "load"
  /\ taskReq' = [NoRequest EXCEPT !.cmd = cmd]
  /\ taskPc' = IF cmd = "none" THEN "take" ELSE "args"
  /\ UNCHANGED <<mboxVars, bellFw, bellHost, flash, linuxVars, rxSem, recvPc,
                 kick, taskPos, taskErr, histVars>>

flash_request_valid(c, a, n) ==
  /\ a < Window /\ n <= Window - a
  /\ \/ c = "erase" /\ a % BLOCK = 0 /\ n = BLOCK
     \/ c = "program" /\ n <= DATA_SIZE /\ (a % SECTOR) + n <= SECTOR

TaskArgs ==
  /\ taskPc = "args"
  /\ taskReq' = [taskReq EXCEPT !.addr = addr, !.len = len]
  /\ taskPos' = addr
  /\ taskErr' = IF flash_request_valid(taskReq.cmd, addr, len) THEN "ok"
                ELSE "invalid"
  /\ taskPc' = IF taskErr' = "ok" THEN "op" ELSE "status"
  /\ UNCHANGED <<mboxVars, bellFw, bellHost, flash, linuxVars, rxSem, recvPc,
                 kick, histVars>>

(* flash_op(), byte by byte.  The data stays in the mailbox.               *)
TaskByte ==
  /\ taskPc = "op" /\ taskPos < taskReq.addr + taskReq.len
  /\ flash' = [flash EXCEPT ![taskPos] =
                 IF taskReq.cmd = "erase" THEN {} ELSE @ \cup {buf}]
  /\ taskPos' = taskPos + 1
  /\ UNCHANGED <<mboxVars, bellFw, bellHost, linuxVars, rxSem, recvPc, kick,
                 taskPc, taskReq, taskErr, histVars>>

TaskOpDone ==
  /\ taskPc = "op" /\ taskPos = taskReq.addr + taskReq.len
  /\ taskPc' = "status"
  /\ UNCHANGED <<mboxVars, bellFw, bellHost, flash, linuxVars, rxSem, recvPc,
                 kick, taskReq, taskPos, taskErr, histVars>>

(* The flash driver fails, at any byte.                                    *)
TaskOpFails ==
  /\ taskPc = "op"
  /\ taskErr' = "failed"
  /\ taskPc' = "status"
  /\ UNCHANGED <<mboxVars, bellFw, bellHost, flash, linuxVars, rxSem, recvPc,
                 kick, taskReq, taskPos, histVars>>

TaskStatus ==
  /\ taskPc = "status"
  /\ status' = taskErr
  /\ taskPc' = "clear"
  /\ UNCHANGED <<cmd, addr, len, buf, bellFw, bellHost, flash, linuxVars, rxSem,
                 recvPc, kick, taskReq, taskPos, taskErr, histVars>>

TaskClear ==
  /\ taskPc = "clear"
  /\ cmd' = "none"
  /\ taskReq' = NoRequest /\ taskPos' = 0 /\ taskErr' = "ok"
  /\ taskPc' = "done"
  /\ UNCHANGED <<status, addr, len, buf, bellFw, bellHost, flash, linuxVars,
                 rxSem, recvPc, kick, histVars>>

(* s_done() is ring_host_doorbell().                                       *)
TaskDone ==
  /\ taskPc = "done"
  /\ bellHost' = TRUE
  /\ taskPc' = "take"
  /\ UNCHANGED <<mboxVars, bellFw, flash, linuxVars, rxSem, recvPc, kick,
                 taskReq, taskPos, taskErr, histVars>>

shm_flash_service == TaskLoad \/ TaskArgs \/ TaskByte \/ TaskOpDone
                       \/ TaskStatus \/ TaskClear
flash_task == TaskTake \/ shm_flash_service \/ TaskDone

(* The other users of the doorbells: frames and free space.                *)
OtherBells ==
  /\ \/ ~bellFw /\ bellFw' = TRUE /\ UNCHANGED bellHost
     \/ ~bellHost /\ bellHost' = TRUE /\ UNCHANGED bellFw
  /\ UNCHANGED <<mboxVars, flash, linuxVars, fwVars, histVars>>

Next ==
  \/ \E u \in Users :
       \/ esp_shm_flash_read(u) \/ esp_shm_flash_write(u)
       \/ esp_shm_flash_erase(u) \/ CallStep(u) \/ WaitTimeout(u)
  \/ esp_shm_irq \/ ProbeDone
  \/ shm_doorbell_isr \/ shm_flash_kick \/ RecvTake \/ flash_task \/ TaskOpFails
  \/ OtherBells

Spec == Init /\ [][Next]_vars

-----------------------------------------------------------------------------
(* The request that the firmware runs is the one that Linux posted last,   *)
(* and the mailbox still holds it: no call writes over it, after a timeout *)
(* too, when the next call comes while the firmware still works.           *)
MailboxStable ==
  cmd # "none" =>
    /\ posted = [cmd |-> cmd, addr |-> addr, len |-> len, buf |-> buf]
    /\ taskPc \in {"args", "op", "status", "clear"} => taskReq.cmd = posted.cmd
    /\ taskPc = "op" => taskReq.addr = posted.addr /\ taskReq.len = posted.len

(* What a call has done so far is in the flash: a byte that a write counts *)
(* in *retlen holds its data, a block that an erase has passed is erased,  *)
(* also when an older command of another call ended late.                  *)
ProgressIsReal ==
  \A u \in Users :
    LET c == call[u] IN
    \A b \in c.from .. c.at - 1 :
      /\ c.kind = "program" => u \in flash[b]
      /\ c.kind = "erase" => flash[b] = {}

(* While no command has timed out, a read sees no half of a program or an  *)
(* erase: the mutex is held until the firmware has ended the command.      *)
ReadsSeeWhole ==
  ~timedOut => \A u \in Users : pc[u] = "read" => taskPc # "op"

(* esp_shm_flash.c:66: "The lock keeps a read from seeing half of a        *)
(* program or erase."                                                      *)
LockKeepsReadsWhole ==
  \A u \in Users : pc[u] = "read" =>
    ~(taskPc = "op" /\ taskReq.addr < taskPos
        /\ taskPos < taskReq.addr + taskReq.len
        /\ taskPos \in call[u].from .. call[u].from + call[u].left - 1)

(* Neither side of the mailbox waits for a signal that does not come: a    *)
(* posted command is in the hands of the flash task or on its way over the *)
(* doorbell, the receive task and the two semaphores, which other users    *)
(* share; and a user that sleeps although its command is done has the      *)
(* doorbell of the other direction on its way.  Only a doorbell before     *)
(* esp_shm_probe() has set ctx->flash is lost; then the timeout looks at   *)
(* the command again.                                                      *)
HandshakeMoves ==
  /\ cmd # "none" =>
       \/ \E u \in Users : pc[u] = "ring"
       \/ bellFw \/ rxSem \/ recvPc = "service" \/ kick
       \/ taskPc \in {"load", "args", "op", "status", "clear"}
  /\ \A u \in Users :
       ~wokenEarly /\ pc[u] = "sleep" /\ cmd = "none" =>
         bellHost \/ taskPc = "done"

=============================================================================
