-------------------------- MODULE CacheSyncProofs --------------------------
(***************************************************************************)
(* Theorems about CacheSync, for every number of firmware tasks, every     *)
(* range and every number of syncs: the lock word of the shared block      *)
(* gives the engine to one master at a time, and the engine runs what that *)
(* master asked for.                                                       *)
(***************************************************************************)
EXTENDS CacheSync, TLAPS

(* The places of a task that has masked the interrupts.                    *)
Masking == {"lock", "unmask"} \cup InCritical

(* The lock.  A task in cache_locked() is the only one: it has masked the  *)
(* interrupts.  Only the holder is between lock and unlock, and before the *)
(* handoff, when nobody takes the lock, hart 1 does not run.               *)
LockInv ==
  /\ hart1 => shared
  /\ sbiPc # "idle" => hart1
  /\ \A t \in Tasks : fwPc[t] \in Masking => masked = t /\ shared
  /\ sbiPc \in InCritical => lock = 1
  /\ \A t \in Tasks : fwPc[t] \in InCritical => lock = 1
  /\ \A t \in Tasks : ~(sbiPc \in InCritical /\ fwPc[t] \in InCritical)

(* The registers that the holder has written so far are still its own.     *)
RegsInv ==
  /\ sbiPc \in {"addr", "size", "start", "wait"} => eng.map = sbi.leg
  /\ sbiPc \in {"size", "start", "wait"} => eng.addr = sbi.addr
  /\ sbiPc \in {"start", "wait"} => eng.size = sbi.size
  /\ \A t \in Tasks :
       /\ fwPc[t] \in {"addr", "size", "start", "wait"} => eng.map = "fw"
       /\ fwPc[t] \in {"size", "start", "wait"} => eng.addr = t
       /\ fwPc[t] \in {"start", "wait"} => eng.size = 1

-----------------------------------------------------------------------------
LEMMA InitTypes == Init => TypeOK
<1> SUFFICES ASSUME Init PROVE TypeOK
  OBVIOUS
<1>1. shared \in BOOLEAN /\ hart1 \in BOOLEAN
  BY Zenon DEF Init
<1>2. sbi \in Calls
  BY DEF Init, NoCall, Calls, Funcs, CacheOps
<1>3. eng \in Regs
  BY DEF Init, ZeroRegs, Regs
<1>4. sbiRuns \in Seq((Ops \cup {NoOp}) \X Regs)
  BY DEF Init
<1> QED BY <1>1, <1>2, <1>3, <1>4 DEF Init, TypeOK, SbiPcs, FwPcs, NoTask

LEMMA StepTypes == TypeOK /\ [Next]_vars => TypeOK'
<1> SUFFICES ASSUME TypeOK, [Next]_vars PROVE TypeOK'
  OBVIOUS
<1> USE DEF TypeOK, engVars, sbiVars, fwVars, bootVars
<1>1. shared' \in BOOLEAN /\ hart1' \in BOOLEAN
  BY DEF Next, vars, shm_flash_share_cache, start_linux_hart,
       esp32s31_vendor_ext, esp32s31_cache_sync, VendorExt, SbiStep, SbiLock,
       SbiRegs, SbiStart, SbiWait, SbiUnlock, SbiRet, FwCall, FwStep, FwEnter,
       FwLock, FwRegs, FwStart, FwWait, FwUnlock, FwUnmask, EngineDone, Idle
<1>2. CASE shm_flash_share_cache \/ start_linux_hart \/ EngineDone
  BY <1>1, <1>2 DEF shm_flash_share_cache, start_linux_hart, EngineDone
<1>3. ASSUME NEW func \in Funcs, NEW a0 \in Nat, NEW a1 \in Nat,
             NEW asked \in Nat \X Nat, VendorExt(func, a0, a1, asked)
      PROVE  TypeOK'
  <2>1. sbi' \in Calls
    BY <1>3 DEF VendorExt, Calls
  <2>2. sbiRuns' \in Seq((Ops \cup {NoOp}) \X Regs)
    BY <1>3 DEF VendorExt
  <2> QED BY <1>1, <1>3, <2>1, <2>2 DEF VendorExt, SbiPcs
<1>4. CASE esp32s31_vendor_ext
  <2>1. PICK func \in Funcs, r \in Ranges : VendorExt(func, r[1], r[2], <<0, 0>>)
    BY <1>4 DEF esp32s31_vendor_ext
  <2>2. r[1] \in Nat /\ r[2] \in Nat /\ <<0, 0>> \in Nat \X Nat
    BY CacheAssumption
  <2> QED BY <1>3, <2>1, <2>2
<1>5. CASE esp32s31_cache_sync
  <2>1. PICK func \in {"inv", "wback", "wback_inv"}, r \in Ranges :
          VendorExt(func, AlignDown(r[1]),
                    AlignUp((((r[1] + r[2]) % W) + W - AlignDown(r[1])) % W) % W, r)
    BY <1>5 DEF esp32s31_cache_sync
  <2>2. /\ r[1] \in 0 .. W - 1 /\ r[2] \in 0 .. W - 1 /\ r \in Nat \X Nat
        /\ W \in Nat /\ 0 < W /\ LINE \in Nat /\ 0 < LINE
    BY CacheAssumption
  <2>3. AlignDown(r[1]) \in Nat /\ AlignDown(r[1]) <= r[1]
    BY <2>2 DEF AlignDown
  <2>4. (((r[1] + r[2]) % W) + W - AlignDown(r[1])) % W \in Nat
    BY <2>2, <2>3
  <2>5. \A a \in Nat : AlignUp(a) \in Nat
    BY <2>2 DEF AlignUp, AlignDown
  <2>6. AlignUp((((r[1] + r[2]) % W) + W - AlignDown(r[1])) % W) % W \in Nat
    <3>1. AlignUp((((r[1] + r[2]) % W) + W - AlignDown(r[1])) % W) \in Nat
      BY <2>4, <2>5
    <3>2. \A a \in Nat : a % W \in Nat
      BY <2>2
    <3> QED BY <3>1, <3>2
  <2>7. func \in Funcs
    BY DEF Funcs, CacheOps
  <2> QED BY <1>3, <2>1, <2>2, <2>3, <2>6, <2>7
<1>o. SbiOp \in Ops \cup {NoOp}
  BY DEF SbiOp, Calls, Funcs, CacheOps, Ops, NoOp
<1>6. CASE SbiLock \/ SbiStart
  BY <1>1, <1>o, <1>6 DEF SbiLock, SbiStart, SbiPcs, InCritical
<1>11. CASE SbiUnlock
  <2>1. [sbi EXCEPT !.leg = "I", !.pass = 0] \in Calls
    BY DEF Calls
  <2>2. sbi' \in Calls
    BY <1>11, <2>1 DEF SbiUnlock
  <2> QED BY <1>1, <1>11, <2>2 DEF SbiUnlock, SbiPcs
<1>12. CASE SbiRet
  <2>1. NoCall \in Calls
    BY DEF NoCall, Calls, Funcs, CacheOps
  <2>2. sbiRuns' \in Seq((Ops \cup {NoOp}) \X Regs)
    BY <1>12 DEF SbiRet
  <2> QED BY <1>1, <1>12, <2>1, <2>2 DEF SbiRet, SbiPcs
<1>7. CASE SbiRegs
  <2>1. eng' \in Regs
    BY <1>7 DEF SbiRegs, Regs, Calls
  <2> QED BY <1>1, <1>7, <2>1 DEF SbiRegs, SbiPcs, InCritical
<1>8. CASE SbiWait
  <2>1. sbi.pass + 1 \in Nat
    BY DEF Calls
  <2>2. [sbi EXCEPT !.pass = sbi.pass + 1] \in Calls
    BY <2>1 DEF Calls
  <2>3. sbi' \in Calls
    BY <1>8, <2>2 DEF SbiWait
  <2>4. sbiRuns' \in Seq((Ops \cup {NoOp}) \X Regs)
    BY <1>8, <1>o DEF SbiWait
  <2> QED BY <1>1, <1>8, <2>3, <2>4 DEF SbiWait, SbiPcs, InCritical
<1>9. ASSUME NEW t \in Tasks, FwCall(t) \/ FwStep(t)
      PROVE  TypeOK'
  <2>1. t \in Nat
    BY CacheAssumption
  <2>2. eng' \in Regs
    <3>1. CASE FwEnter(t)
      BY <2>1, <3>1 DEF FwEnter, Regs
    <3>2. CASE FwRegs(t)
      BY <2>1, <3>2 DEF FwRegs, Regs
    <3> QED BY <1>9, <3>1, <3>2 DEF FwCall, FwStep, FwLock, FwStart, FwWait,
          FwUnlock, FwUnmask
  <2>3. fwPc' \in [Tasks -> FwPcs]
    BY <1>9 DEF FwCall, FwStep, FwEnter, FwLock, FwRegs, FwStart, FwWait,
         FwUnlock, FwUnmask, FwPcs, InCritical
  <2> QED BY <1>1, <1>9, <2>2, <2>3 DEF FwCall, FwStep, FwEnter, FwLock, FwRegs,
         FwStart, FwWait, FwUnlock, FwUnmask, Ops
<1>10. CASE Idle \/ UNCHANGED vars
  BY <1>1, <1>10 DEF Idle, vars
<1> QED BY <1>2, <1>4, <1>5, <1>6, <1>7, <1>8, <1>9, <1>10, <1>11, <1>12
        DEF Next, SbiStep

(* Every register, call and task state keeps its type, whatever ranges the *)
(* callers of the vendor extension and of the Linux driver pass.           *)
THEOREM TypeCorrect == Spec => []TypeOK
<1>1. Init => TypeOK
  BY InitTypes
<1>2. TypeOK /\ [Next]_vars => TypeOK'
  BY StepTypes
<1> QED BY <1>1, <1>2, PTL DEF Spec

-----------------------------------------------------------------------------
LEMMA StepLock == TypeOK /\ LockInv /\ [Next]_vars => LockInv'
<1> SUFFICES ASSUME TypeOK, LockInv, [Next]_vars PROVE LockInv'
  OBVIOUS
<1> USE DEF LockInv, Masking, InCritical, engVars, sbiVars, fwVars, bootVars
<1>0. /\ fwPc \in [Tasks -> FwPcs] /\ \A t \in Tasks : t # NoTask
      /\ shared \in BOOLEAN /\ hart1 \in BOOLEAN
  BY CacheAssumption DEF TypeOK, NoTask
(* The lock word is cleared while nobody uses the lock.                    *)
<1>1. CASE shm_flash_share_cache
  BY <1>0, <1>1 DEF shm_flash_share_cache, MainRuns
<1>2. CASE start_linux_hart
  BY <1>0, <1>2 DEF start_linux_hart, MainRuns
<1>3. CASE esp32s31_vendor_ext \/ esp32s31_cache_sync
  BY <1>0, <1>3 DEF esp32s31_vendor_ext, esp32s31_cache_sync, VendorExt
<1>4. CASE SbiStep
  BY <1>0, <1>4 DEF SbiStep, SbiLock, SbiRegs, SbiStart, SbiWait, SbiUnlock,
       SbiRet
<1>5. ASSUME NEW t \in Tasks, FwCall(t) \/ FwEnter(t)
      PROVE  LockInv'
  BY <1>0, <1>5 DEF FwCall, FwEnter, Runs
<1>6. ASSUME NEW t \in Tasks,
             FwLock(t) \/ FwRegs(t) \/ FwStart(t) \/ FwWait(t) \/ FwUnlock(t)
      PROVE  LockInv'
  BY <1>0, <1>6 DEF FwLock, FwRegs, FwStart, FwWait, FwUnlock
<1>7. ASSUME NEW t \in Tasks, FwUnmask(t)
      PROVE  LockInv'
  BY <1>0, <1>7 DEF FwUnmask
<1>8. CASE EngineDone \/ Idle \/ UNCHANGED vars
  BY <1>8 DEF EngineDone, Idle, vars
<1> QED BY <1>1, <1>2, <1>3, <1>4, <1>5, <1>6, <1>7, <1>8 DEF Next, FwStep

(* The firmware tasks and OpenSBI never have the engine at the same time:  *)
(* the exchange on the lock word, the interrupt mask of cache_locked() and *)
(* the order of the handoff are enough, for every number of tasks.         *)
THEOREM ExclusionCorrect == Spec => []EngineExclusive
<1>1. Init => TypeOK /\ LockInv
  BY InitTypes DEF Init, LockInv, Masking, InCritical
<1>2. TypeOK /\ LockInv /\ [Next]_vars => (TypeOK /\ LockInv)'
  BY StepTypes, StepLock
<1>3. TypeOK /\ LockInv => EngineExclusive
  BY DEF LockInv, Masking, EngineExclusive
<1> QED BY <1>1, <1>2, <1>3, PTL DEF Spec

-----------------------------------------------------------------------------
LEMMA StepRegs == TypeOK /\ LockInv /\ RegsInv /\ [Next]_vars => RegsInv'
<1> SUFFICES ASSUME TypeOK, LockInv, RegsInv, [Next]_vars PROVE RegsInv'
  OBVIOUS
<1> USE DEF RegsInv, engVars, sbiVars, fwVars, bootVars
<1>0. /\ fwPc \in [Tasks -> FwPcs] /\ eng \in Regs /\ sbi \in Calls
  BY DEF TypeOK
<1>1. CASE shm_flash_share_cache \/ start_linux_hart \/ EngineDone
  BY <1>1 DEF shm_flash_share_cache, start_linux_hart, EngineDone
<1>2. CASE esp32s31_vendor_ext \/ esp32s31_cache_sync
  BY <1>2 DEF esp32s31_vendor_ext, esp32s31_cache_sync, VendorExt
(* While OpenSBI writes the registers, no task is between lock and unlock. *)
<1>3. CASE SbiRegs
  BY <1>0, <1>3 DEF SbiRegs, LockInv, InCritical, Regs
<1>4. CASE SbiLock \/ SbiStart \/ SbiWait \/ SbiUnlock \/ SbiRet
  BY <1>0, <1>4 DEF SbiLock, SbiStart, SbiWait, SbiUnlock, SbiRet, Calls
<1>5. ASSUME NEW t \in Tasks, FwEnter(t)
      PROVE  RegsInv'
  BY <1>0, <1>5 DEF FwEnter, LockInv, Masking, InCritical
<1>6. ASSUME NEW t \in Tasks, FwRegs(t)
      PROVE  RegsInv'
  BY <1>0, <1>6 DEF FwRegs, LockInv, Masking, InCritical, Regs
<1>7. ASSUME NEW t \in Tasks, FwCall(t) \/ FwLock(t) \/ FwStart(t) \/ FwWait(t)
                                \/ FwUnlock(t) \/ FwUnmask(t)
      PROVE  RegsInv'
  BY <1>0, <1>7 DEF FwCall, FwLock, FwStart, FwWait, FwUnlock, FwUnmask
<1>8. CASE Idle \/ UNCHANGED vars
  BY <1>8 DEF Idle, vars
<1> QED BY <1>1, <1>2, <1>3, <1>4, <1>5, <1>6, <1>7, <1>8
        DEF Next, SbiStep, FwStep

(* While a master waits for the engine, the map, the address and the size  *)
(* in the registers are the ones it wrote, for every number of tasks and   *)
(* every range.                                                            *)
THEOREM RequestCorrect == Spec => []EngineRunsRequest
<1>1. Init => TypeOK /\ LockInv /\ RegsInv
  BY InitTypes DEF Init, LockInv, RegsInv, Masking, InCritical
<1>2. TypeOK /\ LockInv /\ RegsInv /\ [Next]_vars
        => (TypeOK /\ LockInv /\ RegsInv)'
  BY StepTypes, StepLock, StepRegs
<1>3. TypeOK /\ RegsInv => EngineRunsRequest
  BY DEF TypeOK, RegsInv, EngineRunsRequest, Regs
<1> QED BY <1>1, <1>2, <1>3, PTL DEF Spec

-----------------------------------------------------------------------------
(* The call that OpenSBI serves is one that esp32s31_cache_op_allowed()    *)
(* let through, and its arguments are registers of the machine.            *)
CallInv ==
  sbiPc # "idle" =>
    /\ sbi.addr < W /\ sbi.size < W
    /\ OpAllowed(CacheOps[sbi.func].dcache, sbi.addr, sbi.size)

(* A running operation is the one of the master that waits for its end.    *)
BusyInv ==
  busy # NoOp => \/ sbiPc = "wait" /\ busy = SbiOp
                 \/ \E t \in Tasks : fwPc[t] = "wait"

(* Rounding moves an address by less than a line, and does not cross a     *)
(* line boundary b.                                                        *)
LEMMA AlignBounds ==
  ASSUME NEW a \in Nat
  PROVE  /\ AlignDown(a) \in Nat /\ AlignDown(a) <= a
         /\ AlignUp(a) \in Nat /\ a <= AlignUp(a) /\ AlignUp(a) < a + LINE
<1> LINE \in Nat /\ 0 < LINE
  BY CacheAssumption
<1>1. \A x \in Nat : x % LINE \in 0 .. LINE - 1 /\ x % LINE <= x
  OBVIOUS
<1> QED BY <1>1 DEF AlignDown, AlignUp

LEMMA QuotientRemainder ==
  ASSUME NEW a \in Nat, NEW n \in Nat, 0 < n
  PROVE  a = n * (a \div n) + (a % n)
OBVIOUS

LEMMA SumOfMultiples ==
  ASSUME NEW a \in Nat, NEW b \in Nat, NEW n \in Nat, 0 < n, a % n = 0, b % n = 0
  PROVE  (a + b) % n = 0
<1>1. PICK j \in Nat : a = n * j
  BY QuotientRemainder
<1>2. PICK k \in Nat : b = n * k
  BY QuotientRemainder
<1>3. PICK m \in Nat : a + b = n * m
  <2>1. a + b = n * (j + k)
    BY <1>1, <1>2
  <2> QED BY <2>1
<1>4. (n * m) % n = 0
  OBVIOUS
<1> QED BY <1>3, <1>4

LEMMA AlignDownMultiple ==
  ASSUME NEW a \in Nat
  PROVE  \E k \in Nat : AlignDown(a) = LINE * k
<1> LINE \in Nat /\ 0 < LINE
  BY CacheAssumption
<1>1. a \div LINE \in Nat
  OBVIOUS
<1>2. a = LINE * (a \div LINE) + (a % LINE)
  BY QuotientRemainder
<1>3. LINE * (a \div LINE) \in Nat /\ a % LINE \in Nat
  BY <1>1
<1>4. AlignDown(a) = LINE * (a \div LINE)
  BY <1>2, <1>3 DEF AlignDown
<1> QED BY <1>1, <1>4

LEMMA MultipleGap ==
  ASSUME NEW j \in Nat, NEW k \in Nat, LINE * j < LINE * k + LINE
  PROVE  LINE * j <= LINE * k
<1> LINE \in Nat /\ 0 < LINE
  BY CacheAssumption
<1>1. LINE * k + LINE = LINE * (k + 1)
  OBVIOUS
<1>2. j <= k
  <2>1. SUFFICES ASSUME k + 1 <= j PROVE FALSE
    OBVIOUS
  <2>2. LINE * (k + 1) <= LINE * j
    BY <2>1
  <2>3. LINE * j \in Nat /\ LINE * (k + 1) \in Nat
    OBVIOUS
  <2> QED BY <1>1, <2>2, <2>3
<1> QED BY <1>2

LEMMA AlignKeepsSide ==
  ASSUME NEW a \in Nat, NEW b \in Nat, b % LINE = 0
  PROVE  /\ a <= b => AlignUp(a) <= b
         /\ b <= a => b <= AlignDown(a)
<1> LINE \in Nat /\ 0 < LINE
  BY CacheAssumption
<1>1. PICK m \in Nat : b = LINE * m
  BY AlignDownMultiple DEF AlignDown
<1>2. ASSUME a <= b PROVE AlignUp(a) <= b
  <2>1. a + LINE - 1 \in Nat
    OBVIOUS
  <2>2. PICK j \in Nat : AlignDown(a + LINE - 1) = LINE * j
    BY <2>1, AlignDownMultiple
  <2>3. AlignUp(a) < b + LINE
    BY <1>2, AlignBounds
  <2>4. LINE * j < LINE * m + LINE
    BY <1>1, <2>2, <2>3 DEF AlignUp
  <2> QED BY <1>1, <2>2, <2>4, MultipleGap DEF AlignUp
<1>3. ASSUME b <= a PROVE b <= AlignDown(a)
  <2>1. PICK j \in Nat : AlignDown(a) = LINE * j
    BY AlignDownMultiple
  <2>2. a < AlignDown(a) + LINE
    BY DEF AlignDown
  <2>3. LINE * m < LINE * j + LINE
    <3> LINE * m \in Nat /\ LINE * j \in Nat
      OBVIOUS
    <3> QED BY <1>1, <1>3, <2>1, <2>2
  <2> QED BY <1>1, <2>1, <2>3, MultipleGap
<1> QED BY <1>2, <1>3

(* A range that OpAllowed lets an invalidate have does not wrap, and its   *)
(* lines are not those of OpenSBI.                                         *)
LEMMA AllowedIsSafe ==
  ASSUME NEW addr \in Nat, NEW size \in Nat, addr < W, size < W,
         OpAllowed("inv", addr, size)
  PROVE  /\ size # 0
         /\ \A a \in AlignDown(addr) .. AlignUp(addr + size) - 1 :
              a % W \notin FW_BASE .. FW_BASE + FW_SIZE - 1
<1> /\ LINE \in Nat /\ 0 < LINE /\ W \in Nat /\ W % LINE = 0
    /\ FW_BASE \in Nat /\ FW_SIZE \in Nat
    /\ FW_BASE % LINE = 0 /\ FW_SIZE % LINE = 0
  BY CacheAssumption
<1>1. size # 0 /\ (addr + size) % W > addr
  BY DEF OpAllowed
<1>2. addr + size < W /\ (addr + size) % W = addr + size
  <2>1. ASSUME addr + size >= W PROVE FALSE
    <3>1. (addr + size) % W = addr + size - W
      BY <2>1
    <3> QED BY <1>1, <3>1
  <2> QED BY <2>1
<1>3. addr + size <= FW_BASE \/ addr >= FW_BASE + FW_SIZE
  BY <1>2 DEF OpAllowed
<1>4. AlignUp(addr + size) <= W /\ AlignDown(addr) \in Nat /\ AlignUp(addr + size) \in Nat
  <2>1. addr + size \in Nat /\ addr + size <= W
    BY <1>2
  <2> QED BY <2>1, AlignKeepsSide, AlignBounds
<1>5. (FW_BASE + FW_SIZE) % LINE = 0
  BY SumOfMultiples
<1>6. SUFFICES ASSUME NEW a \in AlignDown(addr) .. AlignUp(addr + size) - 1
               PROVE  a % W \notin FW_BASE .. FW_BASE + FW_SIZE - 1
  BY <1>1
<1>7. a \in Nat /\ a % W = a
  BY <1>4
<1>8. CASE addr + size <= FW_BASE
  <2>1. AlignUp(addr + size) <= FW_BASE
    BY <1>8, AlignKeepsSide
  <2> QED BY <1>4, <1>7, <2>1
<1>9. CASE addr >= FW_BASE + FW_SIZE
  <2>1. AlignDown(addr) >= FW_BASE + FW_SIZE
    BY <1>5, <1>9, AlignKeepsSide
  <2> QED BY <1>4, <1>7, <2>1
<1> QED BY <1>3, <1>8, <1>9

LEMMA StepCall == TypeOK /\ CallInv /\ [Next]_vars => CallInv'
<1> SUFFICES ASSUME TypeOK, CallInv, [Next]_vars PROVE CallInv'
  OBVIOUS
<1> USE DEF CallInv, engVars, sbiVars, fwVars, bootVars
<1>0. W \in Nat /\ 0 < W /\ \A r \in Ranges : r[1] \in 0 .. W - 1 /\ r[2] \in 0 .. W - 1
  BY CacheAssumption
<1>1. ASSUME NEW func \in Funcs, NEW a0 \in Nat, NEW a1 \in Nat, NEW asked,
             a0 < W, a1 < W, VendorExt(func, a0, a1, asked)
      PROVE  CallInv'
  BY <1>0, <1>1 DEF VendorExt
<1>2. CASE esp32s31_vendor_ext
  <2>1. PICK func \in Funcs, r \in Ranges : VendorExt(func, r[1], r[2], <<0, 0>>)
    BY <1>2 DEF esp32s31_vendor_ext
  <2> QED BY <1>0, <1>1, <2>1
<1>3. CASE esp32s31_cache_sync
  <2>1. PICK func \in {"inv", "wback", "wback_inv"}, r \in Ranges :
          VendorExt(func, AlignDown(r[1]),
                    AlignUp((((r[1] + r[2]) % W) + W - AlignDown(r[1])) % W) % W, r)
    BY <1>3 DEF esp32s31_cache_sync
  <2>2. AlignDown(r[1]) \in Nat /\ AlignDown(r[1]) < W
    BY <1>0, AlignBounds
  <2>3. (((r[1] + r[2]) % W) + W - AlignDown(r[1])) % W \in Nat
    BY <1>0, <2>2
  <2>4. AlignUp((((r[1] + r[2]) % W) + W - AlignDown(r[1])) % W) \in Nat
    BY <2>3, AlignBounds
  <2>5. \A a \in Nat : a % W \in Nat /\ a % W < W
    BY <1>0
  <2>6. func \in Funcs
    BY DEF Funcs, CacheOps
  <2> HIDE DEF CallInv
  <2> QED BY <1>1, <2>1, <2>2, <2>4, <2>5, <2>6
<1>4. CASE SbiWait \/ SbiUnlock
  BY <1>4 DEF SbiWait, SbiUnlock, TypeOK, Calls
<1>5. CASE SbiLock \/ SbiRegs \/ SbiStart \/ SbiRet
  BY <1>5 DEF SbiLock, SbiRegs, SbiStart, SbiRet
<1>6. ASSUME NEW t \in Tasks, FwCall(t) \/ FwStep(t)
      PROVE  CallInv'
  BY <1>6 DEF FwCall, FwStep, FwEnter, FwLock, FwRegs, FwStart, FwWait, FwUnlock, FwUnmask
<1>7. CASE shm_flash_share_cache \/ start_linux_hart \/ EngineDone \/ Idle \/ UNCHANGED vars
  BY <1>7 DEF shm_flash_share_cache, start_linux_hart, EngineDone, Idle, vars
<1> QED BY <1>2, <1>3, <1>4, <1>5, <1>6, <1>7 DEF Next, SbiStep

LEMMA StepBusy == TypeOK /\ LockInv /\ BusyInv /\ [Next]_vars => BusyInv'
<1> SUFFICES ASSUME TypeOK, LockInv, BusyInv, [Next]_vars PROVE BusyInv'
  OBVIOUS
<1> USE DEF BusyInv, SbiOp, engVars, sbiVars, fwVars, bootVars
<1>0. fwPc \in [Tasks -> FwPcs] /\ sbi \in Calls
  BY DEF TypeOK
<1>1. CASE esp32s31_vendor_ext \/ esp32s31_cache_sync
  BY <1>1 DEF esp32s31_vendor_ext, esp32s31_cache_sync, VendorExt
<1>2. CASE SbiStep
  BY <1>0, <1>2 DEF SbiStep, SbiLock, SbiRegs, SbiStart, SbiWait, SbiUnlock, SbiRet
<1>3. ASSUME NEW t \in Tasks, FwCall(t) \/ FwStep(t)
      PROVE  BusyInv'
  BY <1>0, <1>3 DEF FwCall, FwStep, FwEnter, FwLock, FwRegs, FwStart, FwWait, FwUnlock,
       FwUnmask
<1>4. CASE shm_flash_share_cache \/ start_linux_hart \/ EngineDone \/ Idle \/ UNCHANGED vars
  BY <1>4 DEF shm_flash_share_cache, start_linux_hart, EngineDone, Idle, vars
<1> QED BY <1>1, <1>2, <1>3, <1>4 DEF Next

(* No invalidate of the D-cache ever runs on a line of OpenSBI, for every  *)
(* placement of OpenSBI's memory in whole lines, every line size and every *)
(* argument that reaches the vendor extension: the overflow check of       *)
(* esp32s31_cache_op_allowed() is enough, also against the rounding to     *)
(* lines that the engine does.                                             *)
THEOREM InvalidateCorrect == Spec => []InvalidateSparesOpenSBI
<1> DEFINE IInv == TypeOK /\ LockInv /\ RegsInv /\ CallInv /\ BusyInv
<1>1. Init => IInv
  BY InitTypes DEF Init, LockInv, RegsInv, CallInv, BusyInv, Masking, InCritical
<1>2. IInv /\ [Next]_vars => IInv'
  BY StepTypes, StepLock, StepRegs, StepCall, StepBusy
<1>3. IInv => InvalidateSparesOpenSBI
  <2> SUFFICES ASSUME IInv, busy = "inv", eng.map = "D"
               PROVE  /\ eng.size # 0
                      /\ \A a \in AlignDown(eng.addr) .. AlignUp(eng.addr + eng.size) - 1 :
                           a % W \notin FW_BASE .. FW_BASE + FW_SIZE - 1
    BY DEF InvalidateSparesOpenSBI
  <2>1. \A t \in Tasks : fwPc[t] # "wait"
    BY DEF RegsInv
  <2>2. sbiPc = "wait" /\ SbiOp = "inv"
    BY <2>1 DEF BusyInv, NoOp
  <2>3. eng.addr = sbi.addr /\ eng.size = sbi.size /\ sbi.leg = "D"
    BY <2>2 DEF RegsInv
  <2>4. OpAllowed("inv", sbi.addr, sbi.size) /\ sbi.addr < W /\ sbi.size < W
    BY <2>2, <2>3 DEF CallInv, SbiOp
  <2>5. sbi.addr \in Nat /\ sbi.size \in Nat
    BY DEF TypeOK, Calls
  <2> QED BY <2>3, <2>4, <2>5, AllowedIsSafe
<1> QED BY <1>1, <1>2, <1>3, PTL DEF Spec

-----------------------------------------------------------------------------
(* The runs of the engine for the legs of a call that are over.            *)
LegsDone ==
  WriteBackRuns(CacheOps[sbi.func].dcache)
    \o (IF sbi.func = "icache_sync" THEN <<Run("inv", "I")>> ELSE <<>>)

(* What the engine ran for the call so far: one run for each pass of the   *)
(* first leg, then both passes; the second leg, which only icache_sync     *)
(* has, has one pass.                                                      *)
RunsInv ==
  /\ sbi.leg = "D" /\ sbiPc \in {"lock", "map", "addr", "size", "start", "wait"} =>
       /\ sbi.pass < Passes
       /\ sbi.pass = 0 => sbiRuns = <<>>
       /\ sbi.pass = 1 => sbiRuns = <<Run(SbiOp, "D")>>
       /\ sbiPc \in {"lock", "map", "addr", "size"} => sbi.pass = 0
  /\ sbi.leg = "D" /\ sbiPc = "unlock" => sbiRuns = WriteBackRuns(SbiOp)
  /\ sbi.leg = "I" => sbi.func = "icache_sync"
  /\ sbi.leg = "I" /\ sbiPc \in {"lock", "map", "addr", "size", "start", "wait"} =>
       sbi.pass = 0 /\ sbiRuns = WriteBackRuns("wback")
  /\ sbi.leg = "I" /\ sbiPc = "unlock" => sbiRuns = LegsDone
  /\ sbiPc = "ret" => sbiRuns = LegsDone

(* The range of a call of the Linux driver covers what was asked for.      *)
AskedInv ==
  sbiPc # "idle" /\ sbi.asked # <<0, 0>> =>
    /\ sbi.size # 0
    /\ sbi.addr >= EXTRAM_BASE
    /\ sbi.addr + sbi.size <= EXTRAM_BASE + EXTRAM_SIZE
    /\ sbi.asked[1] .. sbi.asked[1] + sbi.asked[2] - 1
         \subseteq sbi.addr .. sbi.addr + sbi.size - 1

LEMMA AppendPair == ASSUME NEW x, NEW y PROVE Append(<<x>>, y) = <<x, y>>
<1>1. <<x>> \in Seq({x, y}) /\ Len(<<x>>) = 1
  OBVIOUS
<1>2. Append(<<x>>, y) \in Seq({x, y}) /\ Len(Append(<<x>>, y)) = 2
  BY <1>1
<1>3. Append(<<x>>, y)[1] = x /\ Append(<<x>>, y)[2] = y
  BY <1>1
<1>4. \A s \in Seq({x, y}) : Len(s) = 2 => s = <<s[1], s[2]>>
  OBVIOUS
<1> QED BY <1>2, <1>3, <1>4

LEMMA StepRuns == TypeOK /\ RegsInv /\ RunsInv /\ [Next]_vars => RunsInv'
<1> SUFFICES ASSUME TypeOK, RegsInv, RunsInv, [Next]_vars PROVE RunsInv'
  OBVIOUS
<1> USE DEF engVars, sbiVars, fwVars, bootVars
<1>0. /\ sbi \in Calls /\ eng \in Regs
      /\ sbiPc \in SbiPcs /\ sbiRuns \in Seq((Ops \cup {NoOp}) \X Regs)
  BY DEF TypeOK
<1>1. ASSUME NEW func \in Funcs, NEW a0, NEW a1, NEW asked, VendorExt(func, a0, a1, asked)
      PROVE  RunsInv'
  BY <1>0, <1>1 DEF VendorExt, RunsInv, Passes, SbiOp
<1>2. CASE esp32s31_vendor_ext \/ esp32s31_cache_sync
  <2>1. {"inv", "wback", "wback_inv"} \subseteq Funcs
    BY DEF Funcs, CacheOps
  <2> QED BY <1>1, <1>2, <2>1 DEF esp32s31_vendor_ext, esp32s31_cache_sync
<1>3. CASE SbiLock \/ SbiRegs \/ SbiStart
  BY <1>0, <1>3 DEF SbiLock, SbiRegs, SbiStart, RunsInv, LegsDone, Run, WriteBackRuns,
       Passes, SbiOp
<1>4. CASE SbiRet
  BY <1>4 DEF SbiRet, RunsInv, NoCall
(* The pass that ends adds its run; the last one of the first leg leaves   *)
(* the runs of a write-back.                                               *)
<1>5. CASE SbiWait
  <2>1. eng = [map |-> sbi.leg, addr |-> sbi.addr, size |-> sbi.size]
    BY <1>0, <1>5 DEF SbiWait, RegsInv, Regs
  <2>2. sbiRuns' = Append(sbiRuns, Run(SbiOp, sbi.leg))
    BY <1>5, <2>1 DEF SbiWait, Run
  <2>3. /\ sbi'.func = sbi.func /\ sbi'.addr = sbi.addr /\ sbi'.size = sbi.size
        /\ sbi'.leg = sbi.leg /\ sbi'.pass = sbi.pass + 1
    BY <1>0, <1>5 DEF SbiWait, Calls
  <2>4. /\ SbiOp' = SbiOp /\ Passes' = Passes /\ LegsDone' = LegsDone
        /\ \A op, map : Run(op, map)' = Run(op, map)
        /\ \A op : WriteBackRuns(op)' = WriteBackRuns(op)
    BY <2>3 DEF SbiOp, Passes, LegsDone, Run, WriteBackRuns
  <2>5. CASE sbi.leg = "D"
    <3>1. sbi.pass \in Nat /\ sbi.pass < Passes /\ Passes \in {1, 2}
      BY <1>0, <1>5, <2>5 DEF SbiWait, RunsInv, Calls, Passes
    <3>2. CASE sbi.pass = 0
      <4>1. sbiRuns' = <<Run(SbiOp, "D")>>
        BY <1>5, <2>2, <2>5, <3>2 DEF SbiWait, RunsInv
      <4>2. sbiPc' = IF Passes = 2 THEN "start" ELSE "unlock"
        BY <1>5, <3>1, <3>2 DEF SbiWait
      <4> QED BY <2>3, <2>4, <2>5, <3>1, <3>2, <4>1, <4>2 DEF RunsInv, WriteBackRuns, Passes
    <3>3. CASE sbi.pass = 1
      <4>1. sbiRuns' = <<Run(SbiOp, "D"), Run(SbiOp, "D")>>
        <5>1. sbiRuns = <<Run(SbiOp, "D")>>
          BY <1>5, <2>5, <3>3 DEF SbiWait, RunsInv
        <5> QED BY <2>2, <2>5, <5>1, AppendPair
      <4>2. sbiPc' = "unlock" /\ SbiOp # "inv"
        BY <1>5, <3>1, <3>3 DEF SbiWait, Passes
      <4> QED BY <2>3, <2>4, <2>5, <4>1, <4>2 DEF RunsInv, WriteBackRuns
    <3> QED BY <3>1, <3>2, <3>3
  <2>6. CASE sbi.leg = "I"
    <3>1. sbi.pass = 0 /\ sbi.func = "icache_sync" /\ sbiRuns = WriteBackRuns("wback")
      BY <1>5, <2>6 DEF SbiWait, RunsInv
    <3>2. SbiOp = "inv" /\ Passes = 1 /\ CacheOps[sbi.func].dcache = "wback"
      BY <2>6, <3>1 DEF SbiOp, Passes, CacheOps
    <3>3. sbiRuns' = LegsDone
      BY <2>2, <2>6, <3>1, <3>2 DEF LegsDone, WriteBackRuns
    <3>4. sbiPc' = "unlock"
      BY <1>5, <3>1, <3>2 DEF SbiWait
    <3> QED BY <2>3, <2>4, <2>6, <3>1, <3>3, <3>4 DEF RunsInv
  <2> QED BY <1>0, <2>5, <2>6 DEF Calls
<1>6. CASE SbiUnlock
  <2>1. \A f \in Funcs : CacheOps[f].icache # NoOp <=> f = "icache_sync"
    BY DEF Funcs, CacheOps, NoOp
  <2>2. sbi.func \in Funcs /\ sbi.leg \in {"D", "I"}
    BY <1>0 DEF Calls
  <2>3. CASE sbi.leg = "D" /\ sbi.func = "icache_sync"
    <3>1. sbiPc' = "lock" /\ sbi' = [sbi EXCEPT !.leg = "I", !.pass = 0]
      BY <1>6, <2>1, <2>2, <2>3 DEF SbiUnlock
    <3>2. /\ sbi'.func = sbi.func /\ sbi'.addr = sbi.addr /\ sbi'.size = sbi.size
          /\ sbi'.leg = "I" /\ sbi'.pass = 0
      BY <1>0, <3>1 DEF Calls
    <3>3. sbiRuns' = WriteBackRuns("wback") /\ sbiRuns' = WriteBackRuns("wback")'
      BY <1>6, <2>3, <3>2 DEF SbiUnlock, RunsInv, WriteBackRuns, Run, SbiOp, CacheOps
    <3> QED BY <2>3, <3>1, <3>2, <3>3 DEF RunsInv
  <2>4. CASE ~(sbi.leg = "D" /\ sbi.func = "icache_sync")
    <3>1. sbiPc' = "ret" /\ UNCHANGED <<sbi, sbiRuns>>
      BY <1>6, <2>1, <2>2, <2>4 DEF SbiUnlock
    <3>2. LegsDone' = LegsDone
      BY <3>1 DEF LegsDone, WriteBackRuns, Run
    <3>3. sbiRuns = LegsDone
      <4>1. CASE sbi.leg = "I"
        BY <1>6, <4>1 DEF SbiUnlock, RunsInv
      <4>2. CASE sbi.leg = "D"
        <5>1. LegsDone = WriteBackRuns(SbiOp) \o <<>>
          BY <2>4, <4>2 DEF LegsDone, SbiOp
        <5>2. sbiRuns = WriteBackRuns(SbiOp)
          BY <1>6, <4>2 DEF SbiUnlock, RunsInv
        <5> QED BY <1>0, <5>1, <5>2
      <4> QED BY <2>2, <4>1, <4>2
    <3> QED BY <3>1, <3>2, <3>3 DEF RunsInv
  <2> QED BY <2>3, <2>4
<1>7. CASE UNCHANGED sbiVars
  BY <1>7 DEF RunsInv, LegsDone, Run, WriteBackRuns, Passes, SbiOp
<1>8. ASSUME NEW t \in Tasks, FwCall(t) \/ FwStep(t)
      PROVE  UNCHANGED sbiVars
  BY <1>8 DEF FwCall, FwStep, FwEnter, FwLock, FwRegs, FwStart, FwWait, FwUnlock, FwUnmask
<1>9. CASE shm_flash_share_cache \/ start_linux_hart \/ EngineDone \/ Idle \/ UNCHANGED vars
  BY <1>7, <1>9 DEF shm_flash_share_cache, start_linux_hart, EngineDone, Idle, vars
<1> QED BY <1>2, <1>3, <1>4, <1>5, <1>6, <1>7, <1>8, <1>9 DEF Next, SbiStep

LEMMA StepAsked == TypeOK /\ AskedInv /\ [Next]_vars => AskedInv'
<1> SUFFICES ASSUME TypeOK, AskedInv, [Next]_vars PROVE AskedInv'
  OBVIOUS
<1> USE DEF engVars, sbiVars, fwVars, bootVars
<1>0. /\ W \in Nat /\ LINE \in Nat /\ 0 < LINE
      /\ EXTRAM_BASE \in Nat /\ EXTRAM_SIZE \in Nat
      /\ \A r \in Ranges : r[1] \in 0 .. W - 1 /\ r[2] \in 0 .. W - 1
  BY CacheAssumption
<1>1. CASE esp32s31_vendor_ext
  BY <1>1 DEF esp32s31_vendor_ext, VendorExt, AskedInv
(* Without a wrap, the driver's end - paddr is the length of the lines.    *)
<1>2. CASE esp32s31_cache_sync
  <2> DEFINE Size(r) == AlignUp((((r[1] + r[2]) % W) + W - AlignDown(r[1])) % W) % W
  <2>1. PICK func \in {"inv", "wback", "wback_inv"}, r \in Ranges :
          /\ r[1] + r[2] <= W - LINE
          /\ Size(r) # 0 /\ AlignDown(r[1]) >= EXTRAM_BASE
          /\ (AlignDown(r[1]) + Size(r)) % W <= EXTRAM_BASE + EXTRAM_SIZE
          /\ VendorExt(func, AlignDown(r[1]), Size(r), r)
    BY <1>2 DEF esp32s31_cache_sync
  <2>2. r[1] \in Nat /\ r[2] \in Nat /\ r[1] + r[2] \in Nat
    BY <1>0
  <2>3. AlignDown(r[1]) \in Nat /\ AlignDown(r[1]) <= r[1]
    BY <2>2, AlignBounds
  <2>4. (r[1] + r[2]) % W = r[1] + r[2]
    BY <1>0, <2>1, <2>2
  <2> DEFINE len == r[1] + r[2] - AlignDown(r[1])
  <2>5. len \in Nat /\ len <= W - LINE
    BY <1>0, <2>1, <2>2, <2>3
  <2>6. (((r[1] + r[2]) % W) + W - AlignDown(r[1])) % W = len
    <3>1. ((r[1] + r[2]) % W) + W - AlignDown(r[1]) = len + W
      BY <1>0, <2>2, <2>3, <2>4
    <3>2. (len + W) % W = len
      <4> HIDE DEF len
      <4> QED BY <1>0, <2>5
    <3> QED BY <3>1, <3>2
  <2>7. /\ AlignUp(len) \in Nat /\ len <= AlignUp(len) /\ AlignUp(len) < len + LINE
    BY <2>5, AlignBounds
  <2>8. Size(r) = AlignUp(len)
    <3>1. AlignUp(len) % W = AlignUp(len)
      <4> HIDE DEF len
      <4> QED BY <1>0, <2>5, <2>7
    <3> QED BY <2>6, <3>1
  <2>9. (AlignDown(r[1]) + Size(r)) % W = AlignDown(r[1]) + Size(r)
    <3>1. AlignDown(r[1]) + AlignUp(len) < W
      BY <1>0, <2>1, <2>2, <2>3, <2>7
    <3> HIDE DEF len, Size
    <3> QED BY <1>0, <2>3, <2>7, <2>8, <3>1
  <2>10. sbi' = [func |-> func, addr |-> AlignDown(r[1]), size |-> AlignUp(len),
                 leg |-> "D", pass |-> 0, asked |-> r]
    BY <2>1, <2>8 DEF VendorExt
  <2>11. r[1] .. r[1] + r[2] - 1 \subseteq AlignDown(r[1]) .. AlignDown(r[1]) + AlignUp(len) - 1
    BY <2>2, <2>3, <2>7
  <2> HIDE DEF len, Size
  <2>12. /\ AlignUp(len) # 0 /\ AlignDown(r[1]) >= EXTRAM_BASE
         /\ AlignDown(r[1]) + AlignUp(len) <= EXTRAM_BASE + EXTRAM_SIZE
    BY <2>1, <2>8, <2>9
  <2>13. /\ sbi'.addr = AlignDown(r[1]) /\ sbi'.size = AlignUp(len) /\ sbi'.asked = r
    BY <2>10
  <2> QED BY <2>11, <2>12, <2>13 DEF AskedInv
<1>3. CASE SbiWait \/ SbiUnlock
  <2>1. /\ sbi'.asked = sbi.asked /\ sbi'.addr = sbi.addr /\ sbi'.size = sbi.size
        /\ sbiPc # "idle"
    BY <1>3 DEF SbiWait, SbiUnlock, TypeOK, Calls
  <2> QED BY <2>1 DEF AskedInv
<1>4. CASE SbiLock \/ SbiRegs \/ SbiStart \/ SbiRet
  BY <1>4 DEF SbiLock, SbiRegs, SbiStart, SbiRet, AskedInv
<1>5. ASSUME NEW t \in Tasks, FwCall(t) \/ FwStep(t)
      PROVE  AskedInv'
  BY <1>5 DEF FwCall, FwStep, FwEnter, FwLock, FwRegs, FwStart, FwWait, FwUnlock, FwUnmask,
       AskedInv
<1>6. CASE shm_flash_share_cache \/ start_linux_hart \/ EngineDone \/ Idle \/ UNCHANGED vars
  BY <1>6 DEF shm_flash_share_cache, start_linux_hart, EngineDone, Idle, vars, AskedInv
<1> QED BY <1>1, <1>2, <1>3, <1>4, <1>5, <1>6 DEF Next, SbiStep

(* A call that returns to Linux has run the engine on its whole range, the *)
(* write-backs twice, the I-cache after the D-cache, for every line size,  *)
(* every range and every interleaving with the firmware's own syncs; the   *)
(* range of the driver's rounding covers every byte and stays in the PSRAM.*)
THEOREM SyncCorrect == Spec => []SyncIsComplete
<1> DEFINE IInv == TypeOK /\ LockInv /\ RegsInv /\ RunsInv /\ AskedInv
<1>1. Init => IInv
  BY InitTypes DEF Init, LockInv, RegsInv, RunsInv, AskedInv, Masking, InCritical, NoCall
<1>2. IInv /\ [Next]_vars => IInv'
  BY StepTypes, StepLock, StepRegs, StepRuns, StepAsked
<1>3. IInv => SyncIsComplete
  BY DEF RunsInv, AskedInv, LegsDone, SyncIsComplete
<1> QED BY <1>1, <1>2, <1>3, PTL DEF Spec

=============================================================================
