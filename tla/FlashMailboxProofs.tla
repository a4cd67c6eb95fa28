------------------------- MODULE FlashMailboxProofs -------------------------
(***************************************************************************)
(* Theorems about FlashMailbox, for every number of users, every geometry  *)
(* of the flash and every range: the mutex of the MTD driver and the order *)
(* of the mailbox's stores keep a request whole until the firmware has run *)
(* it, no wake-up is lost, and what a call reports as done is in the flash.*)
(***************************************************************************)
EXTENDS FlashMailbox, TLAPS

-----------------------------------------------------------------------------
(* The inductive invariant, in parts.                                      *)

Pcs == {"idle", "read", "next", "post", "ring", "check", "sleep", "status", "unlock"}
TaskPcs == {"take", "load", "args", "op", "status", "clear", "done"}
CallRecs == [kind : {"none", "read", "program", "erase"}, from : Nat, at : Nat,
             left : Nat, ret : {"ok", "busy", "timeout", "io"}]
Requests == [cmd : {"none", "program", "erase"}, addr : Nat, len : Nat,
             buf : Users \cup {Nobody}]

TypeOK ==
  /\ cmd \in {"none", "program", "erase"} /\ status \in {"ok", "invalid", "failed"}
  /\ addr \in Nat /\ len \in Nat /\ buf \in Users \cup {Nobody}
  /\ flash \in [Bytes -> SUBSET (Users \cup {Nobody})]
  /\ lock \in Users \cup {Nobody}
  /\ pc \in [Users -> Pcs] /\ call \in [Users -> CallRecs]
  /\ taskPc \in TaskPcs /\ taskReq \in Requests /\ taskPos \in Nat
  /\ taskErr \in {"ok", "invalid", "failed"}

(* The mutex: a user that is in a call holds it.                           *)
LockInv == \A u \in Users : pc[u] # "idle" <=> lock = u

(* Where a user waits for the firmware, and where it has a request.        *)
Posted == {"ring", "check", "sleep", "status"}
Filled == Posted \cup {"post"}

(* A call, by where it is.  An erase stays on blocks.                      *)
CallInv ==
  \A u \in Users :
    /\ pc[u] = "idle" => call[u] = NoCall
    /\ pc[u] = "read" => call[u].kind = "read"
    /\ pc[u] \in Filled \cup {"next"} => call[u].kind \in {"program", "erase"}
    /\ pc[u] \in Filled => 0 < call[u].left
    /\ call[u].kind = "erase" => call[u].at % BLOCK = 0 /\ call[u].left % BLOCK = 0

(* The request in the mailbox is that of the user that filled it, until it *)
(* gives up; the command word covers the time in which the flash task uses *)
(* the request.                                                            *)
MboxInv ==
  /\ cmd # "none" => posted = [cmd |-> cmd, addr |-> addr, len |-> len, buf |-> buf]
  /\ \A u \in Users :
       /\ pc[u] \in Filled => /\ addr = call[u].at /\ len = Chunk(call[u])
                              /\ call[u].kind = "program" => buf = u
       /\ pc[u] \in {"post", "status"} => cmd = "none"
       /\ pc[u] \in Posted /\ cmd # "none" => cmd = call[u].kind
  /\ taskPc \in {"args", "op", "status", "clear"} => cmd # "none" /\ taskReq.cmd = cmd
  /\ taskPc \in {"op", "status", "clear"} => taskReq.addr = addr /\ taskReq.len = len

-----------------------------------------------------------------------------
LEMMA QuotientRemainder ==
  ASSUME NEW a \in Nat, NEW n \in Nat, 0 < n
  PROVE  a = n * (a \div n) + (a % n)
OBVIOUS

(* Multiples of a block: the next one, the last one, the least one.        *)
LEMMA MultipleSteps ==
  ASSUME NEW a \in Nat, NEW n \in Nat, 0 < n, a % n = 0
  PROVE  /\ (a + n) % n = 0
         /\ 0 < a => n <= a /\ a - n \in Nat /\ (a - n) % n = 0
<1>1. PICK k \in Nat : a = n * k
  BY QuotientRemainder
<1>2. \A m \in Nat : (n * m) % n = 0
  OBVIOUS
<1>3. (a + n) % n = 0
  <2>1. k + 1 \in Nat /\ a + n = n * (k + 1)
    BY <1>1
  <2>2. (n * (k + 1)) % n = 0
    BY <1>2, <2>1
  <2> QED BY <2>1, <2>2
<1>4. ASSUME 0 < a PROVE n <= a /\ a - n \in Nat /\ (a - n) % n = 0
  <2>1. 0 < k
    BY <1>1, <1>4
  <2>2. k - 1 \in Nat /\ a - n = n * (k - 1)
    BY <1>1, <2>1
  <2>3. n * (k - 1) \in Nat
    BY <2>2
  <2> QED BY <1>2, <2>2, <2>3
<1> QED BY <1>3, <1>4

(* The length of a command: at least a byte, and not past the call's end.  *)
LEMMA ChunkBounds ==
  ASSUME NEW c \in CallRecs, 0 < c.left,
         c.kind = "erase" => c.at % BLOCK = 0 /\ c.left % BLOCK = 0
  PROVE  /\ Chunk(c) \in Nat /\ 0 < Chunk(c) /\ Chunk(c) <= c.left
         /\ c.kind = "erase" => /\ (c.at + Chunk(c)) % BLOCK = 0
                                /\ (c.left - Chunk(c)) % BLOCK = 0
<1> c.at \in Nat /\ c.left \in Nat
  BY DEF CallRecs
<1> BLOCK \in Nat /\ 0 < BLOCK /\ DATA_SIZE \in Nat /\ 0 < DATA_SIZE
  BY FlashAssumption
<1>1. CASE c.kind = "erase"
  BY <1>1, MultipleSteps DEF Chunk
<1>2. CASE c.kind # "erase"
  <2>1. c.at % DATA_SIZE \in 0 .. DATA_SIZE - 1
    OBVIOUS
  <2> QED BY <1>2, <2>1 DEF Chunk, Min
<1> QED BY <1>1, <1>2

-----------------------------------------------------------------------------
Inv1 == TypeOK /\ LockInv /\ CallInv /\ MboxInv

LEMMA InitInv1 == Init => Inv1
<1> SUFFICES ASSUME Init PROVE Inv1
  OBVIOUS
<1>1. NoCall \in CallRecs /\ NoRequest \in Requests
  BY DEF NoCall, CallRecs, NoRequest, Requests
<1>2. TypeOK
  BY <1>1 DEF Init, TypeOK, Pcs, TaskPcs
<1>3. LockInv
  BY NobodyAssumption DEF Init, LockInv
<1>4. CallInv
  BY DEF Init, CallInv, NoCall, Posted, Filled
<1>5. MboxInv
  BY DEF Init, MboxInv, Posted, Filled
<1> QED BY <1>2, <1>3, <1>4, <1>5 DEF Inv1

(* A new call takes the free mutex, when every user is idle.               *)
LEMMA StepCall ==
  ASSUME Inv1, NEW u \in Users, NEW kind \in {"read", "program", "erase"},
         NEW r \in Ranges, kind = "erase" => r[1] % BLOCK = 0 /\ r[2] % BLOCK = 0,
         Call(u, kind, r[1], r[2])
  PROVE  Inv1'
<1> USE DEF Inv1, mboxVars, fwVars, histVars
<1>1. r[1] \in Nat /\ r[2] \in Nat
  BY FlashAssumption
<1> DEFINE c == [kind |-> kind, from |-> r[1], at |-> r[1], left |-> r[2], ret |-> "ok"]
<1>2. c \in CallRecs
  BY <1>1 DEF CallRecs
<1>3. /\ call' = [call EXCEPT ![u] = c]
      /\ pc' = [pc EXCEPT ![u] = IF kind = "read" THEN "read" ELSE "next"]
      /\ lock = Nobody /\ lock' = u /\ pc[u] = "idle"
      /\ UNCHANGED <<mboxVars, flash, fwVars, posted>>
  BY DEF Call
<1>4. pc \in [Users -> Pcs] /\ call \in [Users -> CallRecs]
  BY DEF TypeOK
<1>5. TypeOK'
  BY <1>2, <1>3, <1>4 DEF TypeOK, Pcs
<1>6. LockInv'
  BY <1>3, <1>4, NobodyAssumption DEF LockInv
<1>7. CallInv'
  BY <1>2, <1>3, <1>4 DEF CallInv, Filled, Posted
<1>8. MboxInv'
  BY <1>2, <1>3, <1>4 DEF MboxInv, Filled, Posted, Chunk
<1> QED BY <1>5, <1>6, <1>7, <1>8

(* The steps of a call leave the calls of the other users, who are idle.   *)
LEMMA StepUser ==
  ASSUME Inv1, NEW u \in Users, CallStep(u) \/ WaitTimeout(u)
  PROVE  Inv1'
<1> USE DEF Inv1, mboxVars, fwVars, histVars
<1>1. /\ pc \in [Users -> Pcs] /\ call \in [Users -> CallRecs]
      /\ addr \in Nat /\ len \in Nat /\ call[u] \in CallRecs
      /\ call[u].at \in Nat /\ call[u].left \in Nat
  BY DEF TypeOK, CallRecs
<1>2. \A v \in Users : v # u /\ pc[u] # "idle" => pc[v] = "idle"
  BY DEF LockInv
<1>3. 0 < call[u].left =>
        /\ Chunk(call[u]) \in Nat /\ 0 < Chunk(call[u]) /\ Chunk(call[u]) <= call[u].left
        /\ call[u].kind = "erase" => /\ (call[u].at + Chunk(call[u])) % BLOCK = 0
                                     /\ (call[u].left - Chunk(call[u])) % BLOCK = 0
  BY <1>1, ChunkBounds DEF CallInv
<1>4. CASE ReadDone(u)
  <2>1. TypeOK' /\ LockInv'
    BY <1>1, <1>4 DEF ReadDone, TypeOK, LockInv, Pcs
  <2> QED BY <1>1, <1>4, <2>1 DEF ReadDone, CallInv, MboxInv, Posted, Filled
<1>5. CASE CmdFill(u)
  <2>1. CASE call[u].left = 0
    <3>1. TypeOK' /\ LockInv'
      BY <1>1, <1>5, <2>1 DEF CmdFill, TypeOK, LockInv, Pcs
    <3> QED BY <1>1, <1>5, <2>1, <3>1 DEF CmdFill, CallInv, MboxInv, Posted, Filled
  <2>2. CASE call[u].left # 0 /\ cmd # "none"
    <3>1. /\ call' = [call EXCEPT ![u] = [call[u] EXCEPT !.ret = "busy"]]
          /\ pc' = [pc EXCEPT ![u] = "unlock"] /\ pc[u] = "next"
          /\ UNCHANGED <<mboxVars, flash, lock, fwVars, posted>>
      BY <1>1, <1>5, <2>2 DEF CmdFill
    <3>2. [call[u] EXCEPT !.ret = "busy"] \in CallRecs
      BY <1>1 DEF CallRecs
    <3>3. TypeOK' /\ LockInv'
      BY <1>1, <3>1, <3>2 DEF TypeOK, LockInv, Pcs
    <3>4. CallInv'
      BY <1>1, <3>1 DEF CallInv, Posted, Filled, CallRecs
    <3>5. MboxInv'
      BY <1>1, <3>1 DEF MboxInv, Posted, Filled
    <3> QED BY <3>3, <3>4, <3>5
  <2>3. CASE call[u].left # 0 /\ cmd = "none"
    <3>1. /\ addr' = call[u].at /\ len' = Chunk(call[u])
          /\ buf' = (IF call[u].kind = "program" THEN u ELSE buf)
          /\ pc' = [pc EXCEPT ![u] = "post"] /\ pc[u] = "next"
          /\ UNCHANGED <<cmd, status, call, flash, lock, fwVars, posted>>
      BY <1>5, <2>3 DEF CmdFill
    <3>2. TypeOK' /\ LockInv'
      BY <1>1, <1>3, <2>3, <3>1 DEF TypeOK, LockInv, Pcs
    <3>3. CallInv'
      BY <1>1, <2>3, <3>1 DEF CallInv, Posted, Filled
    <3>4. MboxInv'
      BY <1>1, <1>2, <2>3, <3>1 DEF MboxInv, Posted, Filled, Chunk
    <3> QED BY <3>2, <3>3, <3>4
  <2> QED BY <2>1, <2>2, <2>3
<1>6. CASE CmdPost(u)
  <2>1. call[u].kind \in {"program", "erase"}
    BY <1>6 DEF CmdPost, CallInv, Filled
  <2>2. TypeOK' /\ LockInv'
    BY <1>1, <1>6, <2>1 DEF CmdPost, TypeOK, LockInv, Pcs
  <2>3. CallInv'
    BY <1>1, <1>6 DEF CmdPost, CallInv, Posted, Filled
  <2>4. MboxInv'
    BY <1>1, <1>2, <1>6, <2>1 DEF CmdPost, MboxInv, Posted, Filled, Chunk
  <2> QED BY <2>2, <2>3, <2>4
<1>7. CASE CmdRing(u) \/ WaitCheck(u)
  <2>1. TypeOK' /\ LockInv'
    BY <1>1, <1>7 DEF CmdRing, WaitCheck, TypeOK, LockInv, Pcs
  <2>2. CallInv'
    BY <1>1, <1>7 DEF CmdRing, WaitCheck, CallInv, Posted, Filled
  <2>3. MboxInv'
    BY <1>1, <1>7 DEF CmdRing, WaitCheck, MboxInv, Posted, Filled
  <2> QED BY <2>1, <2>2, <2>3
<1>8. CASE WaitTimeout(u)
  <2> DEFINE c == [call[u] EXCEPT !.ret = IF cmd = "none" THEN @ ELSE "timeout"]
  <2>1. /\ call' = [call EXCEPT ![u] = c] /\ pc[u] = "sleep"
        /\ pc' = [pc EXCEPT ![u] = IF cmd = "none" THEN "status" ELSE "unlock"]
        /\ UNCHANGED <<mboxVars, flash, lock, fwVars, posted>>
    BY <1>8 DEF WaitTimeout
  <2>2. /\ c \in CallRecs /\ c.kind = call[u].kind /\ c.at = call[u].at
        /\ c.left = call[u].left
    BY <1>1 DEF CallRecs
  <2>3. Chunk(c) = Chunk(call[u])
    BY <2>2 DEF Chunk
  <2> HIDE DEF c
  <2>4. TypeOK' /\ LockInv'
    BY <1>1, <2>1, <2>2 DEF TypeOK, LockInv, Pcs
  <2>5. CallInv'
    BY <1>1, <2>1, <2>2 DEF CallInv, Posted, Filled
  <2>6. MboxInv'
    BY <1>1, <2>1, <2>2, <2>3 DEF MboxInv, Posted, Filled
  <2> QED BY <2>4, <2>5, <2>6
<1>9. CASE CmdStatus(u)
  <2> DEFINE c == IF status = "ok"
                  THEN [call[u] EXCEPT !.at = call[u].at + Chunk(call[u]),
                                       !.left = call[u].left - Chunk(call[u])]
                  ELSE [call[u] EXCEPT !.ret = "io"]
  <2>1. /\ call' = [call EXCEPT ![u] = c] /\ pc[u] = "status"
        /\ pc' = [pc EXCEPT ![u] = IF status = "ok" THEN "next" ELSE "unlock"]
        /\ UNCHANGED <<mboxVars, flash, lock, fwVars, posted>>
    BY <1>1, <1>9 DEF CmdStatus
  <2>2. 0 < call[u].left /\ call[u].kind \in {"program", "erase"}
    BY <2>1 DEF CallInv, Filled, Posted
  <2>c. /\ call[u].at + Chunk(call[u]) \in Nat /\ call[u].left - Chunk(call[u]) \in Nat
    BY <1>1, <1>3, <2>2
  <2>3. c \in CallRecs /\ c.kind = call[u].kind
    <3>1. CASE status = "ok"
      BY <1>1, <2>c, <3>1 DEF CallRecs
    <3>2. CASE status # "ok"
      BY <1>1, <3>2 DEF CallRecs
    <3> QED BY <3>1, <3>2
  <2>4. c.kind = "erase" => c.at % BLOCK = 0 /\ c.left % BLOCK = 0
    BY <1>1, <1>3, <2>2 DEF CallInv, CallRecs
  <2> HIDE DEF c
  <2>5. TypeOK' /\ LockInv'
    BY <1>1, <2>1, <2>3 DEF TypeOK, LockInv, Pcs
  <2>6. CallInv'
    BY <1>1, <2>1, <2>2, <2>3, <2>4 DEF CallInv, Posted, Filled
  <2>7. MboxInv'
    BY <1>1, <2>1 DEF MboxInv, Posted, Filled
  <2> QED BY <2>5, <2>6, <2>7
<1>10. CASE Unlock(u)
  <2>1. NoCall \in CallRecs
    BY DEF NoCall, CallRecs
  <2>2. TypeOK'
    BY <1>1, <1>10, <2>1 DEF Unlock, TypeOK, Pcs
  <2>3. LockInv'
    BY <1>1, <1>2, <1>10, NobodyAssumption DEF Unlock, LockInv
  <2>4. CallInv'
    BY <1>1, <1>10 DEF Unlock, CallInv, NoCall, Posted, Filled
  <2>5. MboxInv'
    BY <1>1, <1>10 DEF Unlock, MboxInv, Posted, Filled
  <2> QED BY <2>2, <2>3, <2>4, <2>5
<1> QED BY <1>4, <1>5, <1>6, <1>7, <1>8, <1>9, <1>10 DEF CallStep

(* The interrupt wakes the sleepers; the doorbells and the flash task do   *)
(* not touch the calls.                                                    *)
LEMMA StepIrq == ASSUME Inv1, esp_shm_irq PROVE Inv1'
<1> USE DEF Inv1, mboxVars, fwVars, histVars
<1>1. pc \in [Users -> Pcs] /\ call \in [Users -> CallRecs]
  BY DEF TypeOK
<1>2. /\ \A u \in Users : pc'[u] = pc[u] \/ (pc[u] = "sleep" /\ pc'[u] = "check")
      /\ pc' \in [Users -> Pcs]
  BY <1>1 DEF esp_shm_irq, Pcs
<1>3. UNCHANGED <<mboxVars, flash, lock, call, fwVars, posted>>
  BY DEF esp_shm_irq
<1>4. TypeOK' /\ LockInv'
  BY <1>2, <1>3 DEF TypeOK, LockInv
<1>5. CallInv'
  BY <1>2, <1>3 DEF CallInv, Posted, Filled
<1>6. MboxInv'
  BY <1>2, <1>3 DEF MboxInv, Posted, Filled
<1> QED BY <1>4, <1>5, <1>6

LEMMA StepTask == ASSUME Inv1, flash_task \/ TaskOpFails PROVE Inv1'
<1> USE DEF Inv1, mboxVars, linuxVars, histVars
<1>1. LockInv' /\ CallInv'
  BY DEF flash_task, shm_flash_service, TaskTake, TaskLoad, TaskArgs, TaskByte, TaskOpDone,
       TaskOpFails, TaskStatus, TaskClear, TaskDone, LockInv, CallInv
<1>2. CASE TaskTake \/ TaskOpDone \/ TaskOpFails \/ TaskStatus \/ TaskDone
  <2>1. TypeOK'
    BY <1>2 DEF TaskTake, TaskOpDone, TaskOpFails, TaskStatus, TaskDone, TypeOK, TaskPcs
  <2>2. MboxInv'
    BY <1>2 DEF TaskTake, TaskOpDone, TaskOpFails, TaskStatus, TaskDone, MboxInv
  <2> QED BY <1>1, <2>1, <2>2
<1>3. CASE TaskLoad
  <2>1. taskReq' \in Requests /\ taskReq'.cmd = cmd
    BY <1>3 DEF TaskLoad, TypeOK, NoRequest, Requests
  <2>2. TypeOK'
    BY <1>3, <2>1 DEF TaskLoad, TypeOK, TaskPcs
  <2>3. MboxInv'
    BY <1>3, <2>1 DEF TaskLoad, MboxInv
  <2> QED BY <1>1, <2>2, <2>3
<1>4. CASE TaskArgs
  <2>1. /\ taskReq' \in Requests /\ taskReq'.cmd = taskReq.cmd
        /\ taskReq'.addr = addr /\ taskReq'.len = len
    BY <1>4 DEF TaskArgs, TypeOK, Requests
  <2>2. TypeOK'
    BY <1>4, <2>1 DEF TaskArgs, TypeOK, TaskPcs
  <2>3. MboxInv'
    BY <1>4, <2>1 DEF TaskArgs, MboxInv
  <2> QED BY <1>1, <2>2, <2>3
<1>5. CASE TaskByte
  <2> DEFINE v == IF taskReq.cmd = "erase" THEN {} ELSE flash[taskPos] \cup {buf}
  <2>1. flash' = [flash EXCEPT ![taskPos] = v] /\ flash \in [Bytes -> SUBSET (Users \cup {Nobody})]
    BY <1>5 DEF TaskByte, TypeOK
  <2>2. taskPos \in Bytes => v \in SUBSET (Users \cup {Nobody})
    BY <2>1 DEF TypeOK
  <2> HIDE DEF v
  <2>3. flash' \in [Bytes -> SUBSET (Users \cup {Nobody})]
    BY <2>1, <2>2
  <2>4. TypeOK'
    BY <1>5, <2>3 DEF TaskByte, TypeOK
  <2>5. MboxInv'
    BY <1>5 DEF TaskByte, MboxInv
  <2> QED BY <1>1, <2>4, <2>5
<1>6. CASE TaskClear
  <2>1. NoRequest \in Requests
    BY DEF NoRequest, Requests
  <2>2. TypeOK'
    BY <1>6, <2>1 DEF TaskClear, TypeOK, TaskPcs
  <2>3. MboxInv'
    BY <1>6 DEF TaskClear, MboxInv, Posted, Filled
  <2> QED BY <1>1, <2>2, <2>3
<1> QED BY <1>2, <1>3, <1>4, <1>5, <1>6 DEF flash_task, shm_flash_service

LEMMA StepInv1 == Inv1 /\ [Next]_vars => Inv1'
<1> SUFFICES ASSUME Inv1, [Next]_vars PROVE Inv1'
  OBVIOUS
<1>1. ASSUME NEW u \in Users,
             esp_shm_flash_read(u) \/ esp_shm_flash_write(u) \/ esp_shm_flash_erase(u)
      PROVE  Inv1'
  BY <1>1, StepCall DEF esp_shm_flash_read, esp_shm_flash_write, esp_shm_flash_erase
<1>2. ASSUME NEW u \in Users, CallStep(u) \/ WaitTimeout(u) PROVE Inv1'
  BY <1>2, StepUser
<1>3. CASE esp_shm_irq
  BY <1>3, StepIrq
<1>4. CASE flash_task \/ TaskOpFails
  BY <1>4, StepTask
<1>5. CASE \/ ProbeDone \/ shm_doorbell_isr \/ shm_flash_kick \/ RecvTake \/ OtherBells
           \/ UNCHANGED vars
  BY <1>5 DEF ProbeDone, shm_doorbell_isr, shm_flash_kick, RecvTake, OtherBells, vars,
       mboxVars, linuxVars, fwVars, histVars, Inv1, TypeOK, LockInv, CallInv, MboxInv
<1> QED BY <1>1, <1>2, <1>3, <1>4, <1>5 DEF Next

(* The request that the firmware runs is the one that Linux posted last,   *)
(* for every number of users and every timeout: -EBUSY and the mutex keep  *)
(* every other call away from the mailbox until the command word is clear. *)
THEOREM MailboxCorrect == Spec => []MailboxStable
<1>1. Init => Inv1
  BY InitInv1
<1>2. Inv1 /\ [Next]_vars => Inv1'
  BY StepInv1
<1>3. Inv1 => MailboxStable
  BY DEF Inv1, MboxInv, MailboxStable
<1> QED BY <1>1, <1>2, <1>3, PTL DEF Spec

-----------------------------------------------------------------------------
(* While no command has timed out, a posted command has a user that waits  *)
(* for it, and that user holds the mutex.                                  *)
WaitedFor ==
  ~timedOut /\ cmd # "none" => \E u \in Users : pc[u] \in {"ring", "check", "sleep"}

LEMMA StepWaitedFor == Inv1 /\ WaitedFor /\ [Next]_vars => WaitedFor'
<1> SUFFICES ASSUME Inv1, WaitedFor, [Next]_vars, ~timedOut', cmd' # "none"
             PROVE  \E u \in Users : pc'[u] \in {"ring", "check", "sleep"}
  BY DEF WaitedFor
<1> USE DEF mboxVars, linuxVars, fwVars, histVars
<1>1. pc \in [Users -> Pcs] /\ LockInv
  BY DEF Inv1, TypeOK
<1>2. ASSUME NEW u \in Users, CmdPost(u)
      PROVE  \E v \in Users : pc'[v] \in {"ring", "check", "sleep"}
  BY <1>1, <1>2 DEF CmdPost
<1>3. CASE \A u \in Users : ~CmdPost(u)
  <2>1. ~timedOut /\ cmd # "none"
    <3>1. cmd # "none"
      BY <1>3 DEF Next, vars, esp_shm_flash_read, esp_shm_flash_write, esp_shm_flash_erase,
           Call, CallStep, ReadDone, CmdFill, CmdRing, WaitCheck, CmdStatus, Unlock,
           WaitTimeout, esp_shm_irq, ProbeDone, shm_doorbell_isr, shm_flash_kick, RecvTake,
           flash_task, shm_flash_service, TaskTake, TaskLoad, TaskArgs, TaskByte, TaskOpDone,
           TaskStatus, TaskClear, TaskDone, TaskOpFails, OtherBells
    <3>2. ~timedOut
      BY DEF Next, vars, esp_shm_flash_read, esp_shm_flash_write, esp_shm_flash_erase,
           Call, CallStep, ReadDone, CmdFill, CmdPost, CmdRing, WaitCheck, CmdStatus, Unlock,
           WaitTimeout, esp_shm_irq, ProbeDone, shm_doorbell_isr, shm_flash_kick, RecvTake,
           flash_task, shm_flash_service, TaskTake, TaskLoad, TaskArgs, TaskByte, TaskOpDone,
           TaskStatus, TaskClear, TaskDone, TaskOpFails, OtherBells
    <3> QED BY <3>1, <3>2
  <2>2. PICK w \in Users : pc[w] \in {"ring", "check", "sleep"}
    BY <2>1 DEF WaitedFor
  <2>3. \A u \in Users : u # w => pc[u] = "idle"
    BY <1>1, <2>2 DEF LockInv
  <2>4. lock = w /\ lock # Nobody
    BY <1>1, <2>2, NobodyAssumption DEF LockInv
  <2>5. ASSUME NEW u \in Users, CallStep(u) \/ WaitTimeout(u)
        PROVE  pc'[w] \in {"ring", "check", "sleep"}
    <3>1. u = w
      BY <2>3, <2>5 DEF CallStep, ReadDone, CmdFill, CmdPost, CmdRing, WaitCheck, CmdStatus,
           Unlock, WaitTimeout
    <3>2. CASE WaitTimeout(u)
      BY <2>1, <3>2 DEF WaitTimeout
    <3>3. CASE CallStep(u)
      BY <1>1, <1>3, <2>1, <2>2, <3>1, <3>3 DEF CallStep, ReadDone, CmdFill, CmdRing,
           WaitCheck, CmdStatus, Unlock
    <3> QED BY <2>5, <3>2, <3>3
  <2>6. ASSUME NEW u \in Users,
               esp_shm_flash_read(u) \/ esp_shm_flash_write(u) \/ esp_shm_flash_erase(u)
        PROVE  FALSE
    BY <2>4, <2>6 DEF esp_shm_flash_read, esp_shm_flash_write, esp_shm_flash_erase, Call
  <2>7. CASE esp_shm_irq
    BY <1>1, <2>2, <2>7 DEF esp_shm_irq
  <2>8. CASE UNCHANGED pc
    BY <2>2, <2>8
  <2>9. CASE flash_task \/ TaskOpFails
    BY <2>8, <2>9 DEF flash_task, shm_flash_service, TaskTake, TaskLoad, TaskArgs, TaskByte,
         TaskOpDone, TaskStatus, TaskClear, TaskDone, TaskOpFails
  <2>10. CASE \/ ProbeDone \/ shm_doorbell_isr \/ shm_flash_kick \/ RecvTake \/ OtherBells
              \/ UNCHANGED vars
    BY <2>8, <2>10 DEF ProbeDone, shm_doorbell_isr, shm_flash_kick, RecvTake, OtherBells, vars
  <2> QED BY <2>2, <2>5, <2>6, <2>7, <2>9, <2>10 DEF Next
<1> QED BY <1>2, <1>3

(* As long as no command has timed out, the mutex keeps every read away    *)
(* from the flash while the firmware programs or erases, for every number  *)
(* of users.                                                               *)
THEOREM ReadsCorrect == Spec => []ReadsSeeWhole
<1>1. Init => Inv1 /\ WaitedFor
  BY InitInv1 DEF Init, WaitedFor
<1>2. Inv1 /\ WaitedFor /\ [Next]_vars => (Inv1 /\ WaitedFor)'
  BY StepInv1, StepWaitedFor
<1>3. Inv1 /\ WaitedFor => ReadsSeeWhole
  BY DEF Inv1, LockInv, MboxInv, WaitedFor, ReadsSeeWhole
<1> QED BY <1>1, <1>2, <1>3, PTL DEF Spec

-----------------------------------------------------------------------------
LEMMA StepHandshake == Inv1 /\ HandshakeMoves /\ [Next]_vars => HandshakeMoves'
<1> SUFFICES ASSUME Inv1, HandshakeMoves, [Next]_vars PROVE HandshakeMoves'
  OBVIOUS
<1> USE DEF mboxVars, linuxVars, fwVars, histVars
<1>1. pc \in [Users -> Pcs] /\ LockInv
  BY DEF Inv1, TypeOK
<1>2. ASSUME NEW u \in Users,
             esp_shm_flash_read(u) \/ esp_shm_flash_write(u) \/ esp_shm_flash_erase(u)
      PROVE  HandshakeMoves'
  BY <1>1, <1>2 DEF esp_shm_flash_read, esp_shm_flash_write, esp_shm_flash_erase, Call,
       HandshakeMoves
<1>3. ASSUME NEW u \in Users, CallStep(u) \/ WaitTimeout(u)
      PROVE  HandshakeMoves'
  <2>1. CASE CmdFill(u)
    BY <1>1, <2>1 DEF CmdFill, HandshakeMoves
  <2>2. CASE CmdPost(u)
    <3>1. call[u].kind # "none"
      BY <2>2 DEF CmdPost, Inv1, CallInv, Filled
    <3> QED BY <1>1, <2>2, <3>1 DEF CmdPost, HandshakeMoves
  <2>3. CASE CmdRing(u)
    BY <1>1, <2>3 DEF CmdRing, HandshakeMoves
  <2>4. CASE WaitCheck(u) \/ WaitTimeout(u)
    BY <1>1, <2>4 DEF WaitCheck, WaitTimeout, HandshakeMoves
  <2>5. CASE ReadDone(u) \/ CmdStatus(u) \/ Unlock(u)
    BY <1>1, <2>5 DEF ReadDone, CmdStatus, Unlock, HandshakeMoves
  <2> QED BY <1>3, <2>1, <2>2, <2>3, <2>4, <2>5 DEF CallStep
(* The interrupt takes the doorbell and wakes the sleepers with it, or the *)
(* wake-up came before ctx->flash was set.                                 *)
<1>4. CASE esp_shm_irq
  <2>1. /\ cmd' = cmd
        /\ (\E u \in Users : pc[u] = "ring") => (\E u \in Users : pc'[u] = "ring")
    BY <1>1, <1>4 DEF esp_shm_irq
  <2>2. ASSUME NEW u \in Users, pc'[u] = "sleep"
        PROVE  wokenEarly'
    BY <1>1, <1>4, <2>2 DEF esp_shm_irq
  <2> QED BY <1>4, <2>1, <2>2 DEF esp_shm_irq, HandshakeMoves
<1>5. CASE flash_task \/ TaskOpFails
  BY <1>5 DEF flash_task, shm_flash_service, TaskTake, TaskLoad, TaskArgs, TaskByte,
       TaskOpDone, TaskStatus, TaskClear, TaskDone, TaskOpFails, HandshakeMoves
<1>6. CASE shm_doorbell_isr \/ shm_flash_kick \/ RecvTake
  BY <1>6 DEF shm_doorbell_isr, shm_flash_kick, RecvTake, HandshakeMoves
<1>7. CASE ProbeDone \/ OtherBells \/ UNCHANGED vars
  BY <1>7 DEF ProbeDone, OtherBells, vars, HandshakeMoves
<1> QED BY <1>2, <1>3, <1>4, <1>5, <1>6, <1>7 DEF Next

(* No signal of the mailbox is lost on its way over the shared doorbells   *)
(* and semaphores, for every number of users: a posted command always has  *)
(* somebody on the way to it, and a user that sleeps past the end of its   *)
(* command is about to be woken.                                           *)
THEOREM HandshakeCorrect == Spec => []HandshakeMoves
<1>1. Init => Inv1 /\ HandshakeMoves
  BY InitInv1 DEF Init, HandshakeMoves
<1>2. Inv1 /\ HandshakeMoves /\ [Next]_vars => (Inv1 /\ HandshakeMoves)'
  BY StepInv1, StepHandshake
<1> QED BY <1>1, <1>2, PTL DEF Spec

-----------------------------------------------------------------------------
(* A byte that a command of this kind, with the data of user u, has run    *)
(* over.                                                                   *)
Holds(u, kind, b) == /\ kind = "program" => u \in flash[b]
                     /\ kind = "erase" => flash[b] = {}

(* The flash task has run the request up to taskPos; the status that it    *)
(* leaves is that of the whole request.                                    *)
OpInv ==
  /\ taskPc = "op" => /\ taskErr = "ok" /\ addr + len <= Window
                      /\ addr <= taskPos /\ taskPos <= addr + len
                      /\ \A b \in addr .. taskPos - 1 : Holds(buf, cmd, b)
  /\ taskPc = "status" /\ taskErr = "ok" =>
       \A b \in addr .. addr + len - 1 : Holds(buf, cmd, b)
  /\ taskPc = "clear" /\ status = "ok" =>
       \A b \in addr .. addr + len - 1 : Holds(buf, cmd, b)
  /\ \A u \in Users : pc[u] \in Posted /\ cmd = "none" /\ status = "ok" =>
       \A b \in addr .. addr + len - 1 : Holds(u, call[u].kind, b)

(* A command in the mailbox is no danger to what a call has done: the call *)
(* has done nothing yet, or the command is its own and lies behind.        *)
OwnInv ==
  \A u \in Users : cmd # "none" =>
    \/ call[u].from = call[u].at
    \/ /\ pc[u] \in {"ring", "check", "sleep", "unlock"}
       /\ call[u].at <= addr /\ cmd = call[u].kind

Inv2 == OpInv /\ OwnInv /\ ProgressIsReal

LEMMA StepCall2 ==
  ASSUME Inv1, Inv2, NEW u \in Users, NEW kind, NEW from \in Nat, NEW n,
         Call(u, kind, from, n)
  PROVE  Inv2'
<1> USE DEF mboxVars, fwVars, histVars
<1>1. pc \in [Users -> Pcs] /\ call \in [Users -> CallRecs]
  BY DEF Inv1, TypeOK
<1> DEFINE c == [kind |-> kind, from |-> from, at |-> from, left |-> n, ret |-> "ok"]
<1>2. /\ call' = [call EXCEPT ![u] = c] /\ c.from = c.at /\ c.at = from
      /\ pc' = [pc EXCEPT ![u] = IF kind = "read" THEN "read" ELSE "next"]
      /\ UNCHANGED <<mboxVars, flash, fwVars>>
  BY DEF Call
<1> HIDE DEF c
<1>3. OpInv'
  BY <1>1, <1>2 DEF Inv2, OpInv, Posted, Holds
<1>4. OwnInv'
  BY <1>1, <1>2 DEF Inv2, OwnInv
<1>5. ProgressIsReal'
  BY <1>1, <1>2 DEF Inv2, ProgressIsReal
<1> QED BY <1>3, <1>4, <1>5 DEF Inv2

LEMMA StepUser2 ==
  ASSUME Inv1, Inv2, NEW u \in Users, CallStep(u) \/ WaitTimeout(u)
  PROVE  Inv2'
<1> USE DEF mboxVars, fwVars, histVars
<1>1. /\ pc \in [Users -> Pcs] /\ call \in [Users -> CallRecs]
      /\ addr \in Nat /\ len \in Nat /\ call[u] \in CallRecs
      /\ call[u].at \in Nat /\ call[u].from \in Nat /\ call[u].left \in Nat
  BY DEF Inv1, TypeOK, CallRecs
<1>2. \A v \in Users : v # u /\ pc[u] # "idle" => pc[v] = "idle" /\ call[v] = NoCall
  BY DEF Inv1, LockInv, CallInv
<1>3. NoCall.from = 0 /\ NoCall.at = 0 /\ NoCall.kind = "none"
  BY DEF NoCall
<1>4. CASE ReadDone(u) \/ CmdRing(u) \/ WaitCheck(u)
  <2>1. OpInv'
    BY <1>1, <1>4 DEF ReadDone, CmdRing, WaitCheck, Inv2, OpInv, Posted, Holds
  <2>2. OwnInv'
    <3>1. ReadDone(u) => cmd = "none" \/ call[u].from = call[u].at
      BY <1>4 DEF ReadDone, Inv2, OwnInv
    <3> QED BY <1>1, <1>4, <3>1 DEF ReadDone, CmdRing, WaitCheck, Inv2, OwnInv
  <2>3. ProgressIsReal'
    BY <1>4 DEF ReadDone, CmdRing, WaitCheck, Inv2, ProgressIsReal
  <2> QED BY <2>1, <2>2, <2>3 DEF Inv2
<1>5. CASE CmdFill(u)
  <2>1. CASE cmd = "none"
    <3>1. /\ pc'[u] \notin Posted /\ call' = call /\ cmd' = "none" /\ flash' = flash
          /\ \A v \in Users : v # u => pc'[v] = "idle"
          /\ UNCHANGED fwVars
      BY <1>1, <1>2, <1>5, <2>1 DEF CmdFill, Posted
    <3>2. taskPc \notin {"op", "status", "clear"}
      BY <2>1 DEF Inv1, MboxInv
    <3>3. OpInv'
      BY <3>1, <3>2 DEF OpInv, Posted
    <3>4. OwnInv' /\ ProgressIsReal'
      BY <3>1 DEF Inv2, OwnInv, ProgressIsReal
    <3> QED BY <3>3, <3>4 DEF Inv2
  <2>2. CASE cmd # "none"
    <3>1. /\ pc' = [pc EXCEPT ![u] = "unlock"] /\ pc[u] = "next"
          /\ \A v \in Users : /\ call'[v].from = call[v].from /\ call'[v].at = call[v].at
                              /\ call'[v].kind = call[v].kind
          /\ UNCHANGED <<mboxVars, flash, fwVars>>
      BY <1>1, <1>5, <2>2 DEF CmdFill, CallRecs
    <3>2. OpInv'
      BY <1>1, <3>1 DEF Inv2, OpInv, Posted, Holds
    <3>3. OwnInv'
      BY <1>1, <3>1 DEF Inv2, OwnInv
    <3>4. ProgressIsReal'
      BY <3>1 DEF Inv2, ProgressIsReal
    <3> QED BY <3>2, <3>3, <3>4 DEF Inv2
  <2> QED BY <2>1, <2>2
<1>6. CASE CmdPost(u)
  <2>1. /\ cmd = "none" /\ addr = call[u].at /\ cmd' = call[u].kind
        /\ call[u].kind \in {"program", "erase"}
        /\ taskPc \notin {"op", "status", "clear"}
    BY <1>6 DEF CmdPost, Inv1, CallInv, MboxInv, Filled
  <2>2. OpInv'
    BY <1>6, <2>1 DEF CmdPost, OpInv
  <2>3. OwnInv'
    BY <1>1, <1>2, <1>3, <1>6, <2>1 DEF CmdPost, OwnInv
  <2>4. ProgressIsReal'
    BY <1>6 DEF CmdPost, Inv2, ProgressIsReal
  <2> QED BY <2>2, <2>3, <2>4 DEF Inv2
<1>7. CASE WaitTimeout(u)
  <2>1. /\ pc' = [pc EXCEPT ![u] = IF cmd = "none" THEN "status" ELSE "unlock"]
        /\ pc[u] = "sleep"
        /\ \A v \in Users : /\ call'[v].from = call[v].from /\ call'[v].at = call[v].at
                            /\ call'[v].kind = call[v].kind
        /\ UNCHANGED <<mboxVars, flash, fwVars>>
    BY <1>1, <1>7 DEF WaitTimeout, CallRecs
  <2>2. OpInv'
    BY <1>1, <2>1 DEF Inv2, OpInv, Posted, Holds
  <2>3. OwnInv'
    BY <1>1, <2>1 DEF Inv2, OwnInv
  <2>4. ProgressIsReal'
    BY <2>1 DEF Inv2, ProgressIsReal
  <2> QED BY <2>2, <2>3, <2>4 DEF Inv2
(* The bytes of an ended command with status 0 join the bytes done.        *)
<1>8. CASE CmdStatus(u)
  <2>1. /\ pc[u] = "status" /\ cmd = "none" /\ addr = call[u].at /\ len = Chunk(call[u])
        /\ UNCHANGED <<mboxVars, flash, fwVars>>
    BY <1>8 DEF CmdStatus, Inv1, MboxInv, Filled, Posted
  <2>2. pc' = [pc EXCEPT ![u] = IF status = "ok" THEN "next" ELSE "unlock"]
    BY <1>8 DEF CmdStatus
  <2>3. /\ \A v \in Users : v # u => call'[v] = call[v]
        /\ call'[u].from = call[u].from /\ call'[u].kind = call[u].kind
        /\ call'[u].at = IF status = "ok" THEN call[u].at + len ELSE call[u].at
    BY <1>1, <1>8, <2>1 DEF CmdStatus, CallRecs
  <2>4. OpInv'
    BY <1>1, <1>2, <2>1, <2>2, <2>3 DEF Inv2, OpInv, Posted, Holds
  <2>5. OwnInv'
    BY <2>1 DEF OwnInv
  <2>6. ASSUME NEW v \in Users, NEW b \in call'[v].from .. call'[v].at - 1
        PROVE  Holds(v, call[v].kind, b)
    <3>1. CASE b \in call[v].from .. call[v].at - 1
      BY <3>1 DEF Inv2, ProgressIsReal, Holds
    <3>2. CASE b \notin call[v].from .. call[v].at - 1
      <4>1. v = u /\ status = "ok" /\ b \in addr .. addr + len - 1
        BY <1>1, <2>1, <2>3, <2>6, <3>2
      <4> QED BY <2>1, <4>1 DEF Inv2, OpInv, Posted
    <3> QED BY <3>1, <3>2
  <2>7. ProgressIsReal'
    BY <2>1, <2>3, <2>6 DEF ProgressIsReal, Holds
  <2> QED BY <2>4, <2>5, <2>7 DEF Inv2
<1>9. CASE Unlock(u)
  <2>1. /\ pc' = [pc EXCEPT ![u] = "idle"] /\ call' = [call EXCEPT ![u] = NoCall]
        /\ UNCHANGED <<mboxVars, flash, fwVars>>
    BY <1>9 DEF Unlock
  <2>2. OpInv'
    BY <1>1, <2>1 DEF Inv2, OpInv, Posted, Holds
  <2>3. OwnInv'
    BY <1>1, <1>3, <2>1 DEF Inv2, OwnInv
  <2>4. ProgressIsReal'
    BY <1>1, <1>3, <2>1 DEF Inv2, ProgressIsReal
  <2> QED BY <2>2, <2>3, <2>4 DEF Inv2
<1> QED BY <1>4, <1>5, <1>6, <1>7, <1>8, <1>9 DEF CallStep

LEMMA StepTask2 == ASSUME Inv1, Inv2, flash_task \/ TaskOpFails PROVE Inv2'
<1> USE DEF mboxVars, linuxVars, histVars
<1>1. /\ addr \in Nat /\ len \in Nat /\ taskPos \in Nat /\ Window \in Nat
      /\ flash \in [Bytes -> SUBSET (Users \cup {Nobody})]
  BY FlashAssumption DEF Inv1, TypeOK
<1>2. CASE TaskTake \/ TaskLoad \/ TaskOpFails \/ TaskDone
  <2>1. OwnInv' /\ ProgressIsReal'
    BY <1>2 DEF TaskTake, TaskLoad, TaskOpFails, TaskDone, Inv2, OwnInv, ProgressIsReal
  <2>2. OpInv'
    BY <1>2 DEF TaskTake, TaskLoad, TaskOpFails, TaskDone, Inv2, OpInv, Holds
  <2> QED BY <2>1, <2>2 DEF Inv2
<1>3. CASE TaskArgs
  <2>1. OwnInv' /\ ProgressIsReal'
    BY <1>3 DEF TaskArgs, Inv2, OwnInv, ProgressIsReal
  <2>2. taskPc' = "op" => addr + len <= Window /\ taskErr' = "ok"
    BY <1>1, <1>3 DEF TaskArgs, flash_request_valid
  <2>3. taskPc' = "status" => taskErr' # "ok"
    BY <1>3 DEF TaskArgs
  <2>4. taskPc' \in {"op", "status"} /\ taskPos' = addr /\ UNCHANGED <<mboxVars, flash, pc, call>>
    BY <1>3 DEF TaskArgs
  <2>5. OpInv'
    BY <1>1, <2>2, <2>3, <2>4 DEF Inv2, OpInv, Holds
  <2> QED BY <2>1, <2>5 DEF Inv2
<1>4. CASE TaskByte
  <2>1. /\ taskPc = "op" /\ cmd # "none" /\ taskReq.cmd = cmd
        /\ taskReq.addr = addr /\ taskReq.len = len
        /\ addr <= taskPos /\ taskPos < addr + len /\ addr + len <= Window
        /\ cmd \in {"program", "erase"}
    BY <1>4 DEF TaskByte, Inv1, TypeOK, MboxInv, Inv2, OpInv
  <2>2. taskPos \in Bytes
    BY <1>1, <2>1 DEF Bytes
  <2>3. /\ \A b \in Nat : b < taskPos => flash'[b] = flash[b]
        /\ cmd = "erase" => flash'[taskPos] = {}
        /\ cmd = "program" => buf \in flash'[taskPos]
    BY <1>1, <1>4, <2>1, <2>2 DEF TaskByte, Bytes
  <2>4. /\ taskPos' = taskPos + 1 /\ UNCHANGED <<mboxVars, linuxVars, taskPc, taskErr>>
    BY <1>4 DEF TaskByte
  <2>5. OpInv'
    <3>1. ASSUME NEW b \in addr .. taskPos PROVE Holds(buf, cmd, b)'
      <4>1. CASE b = taskPos
        BY <2>3, <2>4, <4>1 DEF Holds
      <4>2. CASE b # taskPos
        <5>1. b \in Nat /\ b < taskPos /\ b \in addr .. taskPos - 1
          BY <1>1, <4>2
        <5> QED BY <2>1, <2>3, <2>4, <5>1 DEF Inv2, OpInv, Holds
      <4> QED BY <4>1, <4>2
    <3>2. taskErr = "ok"
      BY <2>1 DEF Inv2, OpInv
    <3>3. addr' .. taskPos' - 1 = addr .. taskPos
      BY <1>1, <2>4
    <3> QED BY <1>1, <2>1, <2>4, <3>1, <3>2, <3>3 DEF OpInv
  <2>6. OwnInv'
    BY <2>4 DEF Inv2, OwnInv
  <2>7. ProgressIsReal'
    <3>1. ASSUME NEW u \in Users, NEW b \in call[u].from .. call[u].at - 1
          PROVE  flash'[b] = flash[b]
      <4>1. call[u].from \in Nat /\ call[u].at \in Nat
        BY DEF Inv1, TypeOK, CallRecs
      <4>2. b \in Nat /\ b < taskPos
        BY <1>1, <2>1, <3>1, <4>1 DEF Inv2, OwnInv
      <4> QED BY <2>3, <4>2
    <3> QED BY <2>4, <3>1 DEF Inv2, ProgressIsReal
  <2> QED BY <2>5, <2>6, <2>7 DEF Inv2
<1>5. CASE TaskOpDone
  <2>1. taskPc = "op" /\ taskPos = addr + len
    BY <1>5 DEF TaskOpDone, Inv1, MboxInv
  <2>2. OwnInv' /\ ProgressIsReal'
    BY <1>5 DEF TaskOpDone, Inv2, OwnInv, ProgressIsReal
  <2>3. \A b \in addr .. addr + len - 1 : Holds(buf, cmd, b)
    BY <1>1, <2>1 DEF Inv2, OpInv
  <2>4. taskPc' = "status" /\ UNCHANGED <<mboxVars, flash, pc, call>>
    BY <1>5 DEF TaskOpDone
  <2>5. OpInv'
    BY <2>3, <2>4 DEF Inv2, OpInv, Holds
  <2> QED BY <2>2, <2>5 DEF Inv2
<1>6. CASE TaskStatus
  <2>1. cmd # "none" /\ taskPc = "status"
    BY <1>6 DEF TaskStatus, Inv1, MboxInv
  <2>2. OwnInv' /\ ProgressIsReal'
    BY <1>6 DEF TaskStatus, Inv2, OwnInv, ProgressIsReal
  <2>3. OpInv'
    BY <1>6, <2>1 DEF TaskStatus, Inv2, OpInv, Holds
  <2> QED BY <2>2, <2>3 DEF Inv2
<1>7. CASE TaskClear
  <2>1. OwnInv' /\ ProgressIsReal'
    BY <1>7 DEF TaskClear, Inv2, OwnInv, ProgressIsReal
  <2>2. ASSUME NEW u \in Users, pc[u] \in Posted, status = "ok",
               NEW b \in addr .. addr + len - 1
        PROVE  Holds(u, call[u].kind, b)
    <3>1. cmd = call[u].kind /\ (cmd = "program" => buf = u)
      BY <1>7, <2>2 DEF TaskClear, Inv1, MboxInv, Filled
    <3>2. Holds(buf, cmd, b)
      BY <1>7, <2>2 DEF TaskClear, Inv2, OpInv
    <3> QED BY <3>1, <3>2 DEF Holds
  <2>3. taskPc' = "done" /\ UNCHANGED <<status, addr, len, flash, pc, call>>
    BY <1>7 DEF TaskClear
  <2>4. OpInv'
    BY <2>2, <2>3 DEF OpInv, Holds
  <2> QED BY <2>1, <2>4 DEF Inv2
<1> QED BY <1>2, <1>3, <1>4, <1>5, <1>6, <1>7 DEF flash_task, shm_flash_service

LEMMA StepInv2 == Inv1 /\ Inv2 /\ [Next]_vars => Inv2'
<1> SUFFICES ASSUME Inv1, Inv2, [Next]_vars PROVE Inv2'
  OBVIOUS
<1>1. ASSUME NEW u \in Users,
             esp_shm_flash_read(u) \/ esp_shm_flash_write(u) \/ esp_shm_flash_erase(u)
      PROVE  Inv2'
  BY <1>1, StepCall2, FlashAssumption
     DEF esp_shm_flash_read, esp_shm_flash_write, esp_shm_flash_erase
<1>2. ASSUME NEW u \in Users, CallStep(u) \/ WaitTimeout(u) PROVE Inv2'
  BY <1>2, StepUser2
<1>3. CASE esp_shm_irq
  <2>1. /\ \A u \in Users : pc'[u] = pc[u] \/ (pc[u] = "sleep" /\ pc'[u] = "check")
        /\ UNCHANGED <<mboxVars, flash, call, fwVars>>
    BY <1>3 DEF esp_shm_irq, Inv1, TypeOK
  <2>2. OpInv'
    BY <2>1 DEF Inv2, OpInv, Posted, Holds, mboxVars, fwVars
  <2>3. OwnInv' /\ ProgressIsReal'
    BY <2>1 DEF Inv2, OwnInv, ProgressIsReal, mboxVars
  <2> QED BY <2>2, <2>3 DEF Inv2
<1>4. CASE flash_task \/ TaskOpFails
  BY <1>4, StepTask2
<1>5. CASE \/ ProbeDone \/ shm_doorbell_isr \/ shm_flash_kick \/ RecvTake \/ OtherBells
           \/ UNCHANGED vars
  BY <1>5 DEF ProbeDone, shm_doorbell_isr, shm_flash_kick, RecvTake, OtherBells, vars,
       mboxVars, linuxVars, fwVars, histVars, Inv2, OpInv, OwnInv, ProgressIsReal, Holds
<1> QED BY <1>1, <1>2, <1>3, <1>4, <1>5 DEF Next

(* What a write counts in *retlen is in the flash and what an erase has    *)
(* passed is erased, for every range, every chunk and block size and every *)
(* number of users: also when a command of a call that gave up runs on     *)
(* while the next call starts.                                             *)
THEOREM ProgressCorrect == Spec => []ProgressIsReal
<1>1. Init => Inv1 /\ Inv2
  <2> SUFFICES ASSUME Init PROVE Inv2
    BY InitInv1
  <2>1. OpInv
    BY DEF Init, OpInv, Posted
  <2>2. OwnInv
    BY DEF Init, OwnInv
  <2>3. ProgressIsReal
    BY DEF Init, ProgressIsReal, NoCall
  <2> QED BY <2>1, <2>2, <2>3 DEF Inv2
<1>2. Inv1 /\ Inv2 /\ [Next]_vars => (Inv1 /\ Inv2)'
  BY StepInv1, StepInv2
<1>3. Inv2 => ProgressIsReal
  BY DEF Inv2
<1> QED BY <1>1, <1>2, <1>3, PTL DEF Spec

=============================================================================
