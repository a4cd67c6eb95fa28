----------------------------- MODULE CacheSync -----------------------------
(***************************************************************************)
(* The cache sync engine and the lock word that its two masters share.     *)
(* OpenSBI programs the engine for Linux on hart 1 (platform.c); the       *)
(* firmware on hart 0 programs it through the wrapped ROM functions        *)
(* (shm_flash.c).  The loader shares the engine, then starts hart 1        *)
(* (main.c).  The engine has one set of registers.                         *)
(*                                                                         *)
(* Hart 0 runs the ready task of the highest priority: task t + 1 before   *)
(* task t, and a task that masks the interrupts is not preempted.          *)
(***************************************************************************)
EXTENDS Naturals, Sequences

CONSTANTS Tasks,           \* firmware tasks that sync, by priority: 1 .. n
          W,               \* addresses wrap here: 2^32 in the code
          FW_BASE, FW_SIZE, \* ESP32S31_FW_BASE, _SIZE: the memory of OpenSBI
          LINE,            \* ESP32S31_CACHE_LINE_SIZE
          EXTRAM_BASE, EXTRAM_SIZE, \* the PSRAM
          Ranges,          \* the <<addr, size>> that callers ask for
          MaxSyncs,        \* bound: syncs of OpenSBI on hart 1
          MaxFwSyncs       \* bound: syncs of the firmware on hart 0

ASSUME CacheAssumption ==
  /\ Tasks \subseteq Nat \ {0}
  /\ W \in Nat /\ FW_BASE \in Nat /\ FW_SIZE \in Nat /\ LINE \in Nat
  /\ 0 < LINE /\ W % LINE = 0 /\ FW_BASE + FW_SIZE < W
  /\ FW_BASE % LINE = 0 /\ FW_SIZE % LINE = 0
  /\ EXTRAM_BASE \in Nat /\ EXTRAM_SIZE \in Nat /\ EXTRAM_BASE + EXTRAM_SIZE < W
  /\ Ranges \subseteq (0 .. W - 1) \X (0 .. W - 1)
  /\ MaxSyncs \in Nat /\ MaxFwSyncs \in Nat

VARIABLES
  lock,            \* ESP_SHM_CACHE_LOCK_OFF
  shared, hart1,   \* s_cache_shared; Linux runs
  eng, busy,       \* the registers of the engine; the operation it runs
  sbiPc, sbi,      \* OpenSBI: the call it serves
  sbiRuns,         \* history: what the engine ran for this call
  fwPc, masked,    \* the firmware tasks; the one that masks the interrupts
  fwSyncs, sbiSyncs \* the syncs so far

engVars == <<lock, eng, busy>>
sbiVars == <<sbiPc, sbi, sbiRuns, sbiSyncs>>
fwVars == <<fwPc, masked, fwSyncs>>
bootVars == <<shared, hart1>>
vars == <<engVars, sbiVars, fwVars, bootVars>>

NoTask == 0
InCritical == {"map", "addr", "size", "start", "wait", "unlock"}
NoOp == "none"

(* esp32s31_cache_ops[]: the operation on the D-cache, then on the I-cache. *)
CacheOps ==
  [wback_all   |-> [dcache |-> "wback", icache |-> NoOp],
   inv         |-> [dcache |-> "inv", icache |-> NoOp],
   wback       |-> [dcache |-> "wback", icache |-> NoOp],
   wback_inv   |-> [dcache |-> "wback_inv", icache |-> NoOp],
   icache_sync |-> [dcache |-> "wback", icache |-> "inv"]]

Funcs == DOMAIN CacheOps
NoCall == [func |-> "wback_all", addr |-> 0, size |-> 0, leg |-> "D", pass |-> 0,
           asked |-> <<0, 0>>]
ZeroRegs == [map |-> "none", addr |-> 0, size |-> 0]

(* The SRAM and the registers hold anything before the boot.               *)
Init ==
  /\ lock \in {0, 1} /\ shared = FALSE /\ hart1 = FALSE
  /\ eng = ZeroRegs /\ busy = NoOp
  /\ sbiPc = "idle" /\ sbi = NoCall /\ sbiRuns = <<>> /\ sbiSyncs = 0
  /\ fwPc = [t \in Tasks |-> "idle"] /\ masked = NoTask /\ fwSyncs = 0

-----------------------------------------------------------------------------
(* app_main() after esp_hosted_main(): shm_flash_share_cache(), then       *)
(* start_linux_hart().  It is the task of the lowest priority.             *)
MainRuns == \A t \in Tasks : fwPc[t] = "idle"

(* Mutant: the lock word keeps what the SRAM held.                         *)
shm_flash_share_cache_NoClear ==
  /\ ~shared /\ MainRuns
  /\ shared' = TRUE
  /\ UNCHANGED <<engVars, sbiVars, fwVars, hart1>>

shm_flash_share_cache ==
  /\ ~shared /\ MainRuns
  /\ lock' = 0
  /\ shared' = TRUE
  /\ UNCHANGED <<eng, busy, sbiVars, fwVars, hart1>>

start_linux_hart ==
  /\ shared /\ ~hart1 /\ MainRuns
  /\ hart1' = TRUE
  /\ UNCHANGED <<engVars, sbiVars, fwVars, shared>>

-----------------------------------------------------------------------------

(* Mutant: a range that wraps is not refused.                              *)
OpAllowed_MayWrap(op, addr, size) ==
  LET end == (addr + size) % W IN
  op = "inv" => /\ size # 0
                /\ end <= FW_BASE \/ addr >= FW_BASE + FW_SIZE

(* esp32s31_cache_op_allowed(): end wraps.                                 *)
OpAllowed(op, addr, size) ==
  LET end == (addr + size) % W IN
  op = "inv" => /\ size # 0 /\ end > addr
                /\ end <= FW_BASE \/ addr >= FW_BASE + FW_SIZE

(* esp32s31_vendor_ext(): a refused call changes nothing.  asked: the      *)
(* range before the Linux driver aligned it.                               *)
VendorExt(func, a0, a1, asked) ==
  LET addr == IF func = "wback_all" THEN 0 ELSE a0
      size == IF func = "wback_all" THEN 0 ELSE a1
  IN  /\ hart1 /\ sbiPc = "idle" /\ sbiSyncs < MaxSyncs
      /\ OpAllowed(CacheOps[func].dcache, addr, size)
      /\ sbi' = [func |-> func, addr |-> addr, size |-> size, leg |-> "D",
                 pass |-> 0, asked |-> asked]
      /\ sbiPc' = "lock"
      /\ sbiRuns' = <<>> /\ sbiSyncs' = sbiSyncs + 1
      /\ UNCHANGED <<engVars, fwVars, bootVars>>

(* A call with any arguments: esp32s31_icache_sync() passes its own on.    *)
esp32s31_vendor_ext ==
  \E func \in Funcs : \E r \in Ranges : VendorExt(func, r[1], r[2], <<0, 0>>)

(* esp32s31_cache_sync() of the Linux driver: whole lines, in the PSRAM.   *)
(* No buffer of Linux reaches the last line of the address space.          *)
AlignDown(a) == a - (a % LINE)

AlignUp(a) == AlignDown(a + LINE - 1)

esp32s31_cache_sync ==
  \E func \in {"inv", "wback", "wback_inv"} : \E r \in Ranges :
    LET end == (r[1] + r[2]) % W
        paddr == AlignDown(r[1])
        size == AlignUp((end + W - paddr) % W) % W
    IN  /\ r[1] + r[2] <= W - LINE
        /\ size # 0 /\ paddr >= EXTRAM_BASE
        /\ (paddr + size) % W <= EXTRAM_BASE + EXTRAM_SIZE
        /\ VendorExt(func, paddr, size, r)

(* The operation and the number of passes of the current leg.              *)
SbiOp == IF sbi.leg = "D" THEN CacheOps[sbi.func].dcache
         ELSE CacheOps[sbi.func].icache

(* Mutant: one pass for all operations.                                    *)
Passes_Once == 1

Passes == IF SbiOp = "inv" THEN 1 ELSE 2

(* Mutant: the lock is set without a look at its old value.                *)
SbiLock_NoSpin ==
  /\ sbiPc = "lock"
  /\ lock' = 1
  /\ sbiPc' = "map"
  /\ UNCHANGED <<eng, busy, sbi, sbiRuns, sbiSyncs, fwVars, bootVars>>

(* esp32s31_cache_sync(): spin for the lock, write the registers, run the  *)
(* operation and wait for its end, once or twice.                          *)
SbiLock ==
  /\ sbiPc = "lock" /\ lock = 0
  /\ lock' = 1
  /\ sbiPc' = "map"
  /\ UNCHANGED <<eng, busy, sbi, sbiRuns, sbiSyncs, fwVars, bootVars>>

(* Mutant: the size register keeps its old value.                          *)
SbiRegs_NoSize ==
  /\ \/ sbiPc = "map" /\ eng' = [eng EXCEPT !.map = sbi.leg] /\ sbiPc' = "addr"
     \/ sbiPc = "addr" /\ eng' = [eng EXCEPT !.addr = sbi.addr] /\ sbiPc' = "start"
  /\ UNCHANGED <<lock, busy, sbi, sbiRuns, sbiSyncs, fwVars, bootVars>>

SbiRegs ==
  /\ \/ sbiPc = "map" /\ eng' = [eng EXCEPT !.map = sbi.leg] /\ sbiPc' = "addr"
     \/ sbiPc = "addr" /\ eng' = [eng EXCEPT !.addr = sbi.addr] /\ sbiPc' = "size"
     \/ sbiPc = "size" /\ eng' = [eng EXCEPT !.size = sbi.size] /\ sbiPc' = "start"
  /\ UNCHANGED <<lock, busy, sbi, sbiRuns, sbiSyncs, fwVars, bootVars>>

SbiStart ==
  /\ sbiPc = "start"
  /\ busy' = SbiOp
  /\ sbiPc' = "wait"
  /\ UNCHANGED <<lock, eng, sbi, sbiRuns, sbiSyncs, fwVars, bootVars>>

SbiWait ==
  /\ sbiPc = "wait" /\ busy = NoOp
  /\ sbi' = [sbi EXCEPT !.pass = @ + 1]
  /\ sbiRuns' = Append(sbiRuns, <<SbiOp, eng>>)
  /\ sbiPc' = IF sbi.pass + 1 < Passes THEN "start" ELSE "unlock"
  /\ UNCHANGED <<engVars, sbiSyncs, fwVars, bootVars>>

SbiUnlock ==
  /\ sbiPc = "unlock"
  /\ lock' = 0
  /\ IF sbi.leg = "D" /\ CacheOps[sbi.func].icache # NoOp
     THEN sbiPc' = "lock" /\ sbi' = [sbi EXCEPT !.leg = "I", !.pass = 0]
     ELSE sbiPc' = "ret" /\ UNCHANGED sbi
  /\ UNCHANGED <<eng, busy, sbiRuns, sbiSyncs, fwVars, bootVars>>

SbiRet ==
  /\ sbiPc = "ret"
  /\ sbiPc' = "idle" /\ sbi' = NoCall /\ sbiRuns' = <<>>
  /\ UNCHANGED <<engVars, sbiSyncs, fwVars, bootVars>>

SbiStep == SbiLock \/ SbiRegs \/ SbiStart \/ SbiWait \/ SbiUnlock \/ SbiRet

-----------------------------------------------------------------------------
(* A task of hart 0 that may run now.                                      *)
Runs(t) ==
  \/ masked = t
  \/ masked = NoTask /\ \A s \in Tasks : s > t => fwPc[s] = "idle"

(* A task calls a wrapped ROM function.                                    *)
FwCall(t) ==
  /\ fwPc[t] = "idle" /\ Runs(t) /\ fwSyncs < MaxFwSyncs
  /\ fwPc' = [fwPc EXCEPT ![t] = "enter"]
  /\ fwSyncs' = fwSyncs + 1
  /\ UNCHANGED <<engVars, sbiVars, masked, bootVars>>

(* cache_locked(): before the handoff, the ROM function without the lock.  *)
FwEnter(t) ==
  /\ fwPc[t] = "enter" /\ Runs(t)
  /\ IF shared
     THEN /\ masked' = t
          /\ fwPc' = [fwPc EXCEPT ![t] = "lock"]
          /\ UNCHANGED eng
     ELSE /\ eng' = [map |-> "fw", addr |-> t, size |-> 1]
          /\ fwPc' = [fwPc EXCEPT ![t] = "idle"]
          /\ UNCHANGED masked
  /\ UNCHANGED <<lock, busy, sbiVars, fwSyncs, bootVars>>

FwLock(t) ==
  /\ fwPc[t] = "lock" /\ Runs(t) /\ lock = 0
  /\ lock' = 1
  /\ fwPc' = [fwPc EXCEPT ![t] = "map"]
  /\ UNCHANGED <<eng, busy, sbiVars, masked, fwSyncs, bootVars>>

(* The ROM function: the registers, the operation, its end.                *)
FwRegs(t) ==
  /\ Runs(t)
  /\ \/ /\ fwPc[t] = "map" /\ fwPc' = [fwPc EXCEPT ![t] = "addr"]
        /\ eng' = [eng EXCEPT !.map = "fw"]
     \/ /\ fwPc[t] = "addr" /\ fwPc' = [fwPc EXCEPT ![t] = "size"]
        /\ eng' = [eng EXCEPT !.addr = t]
     \/ /\ fwPc[t] = "size" /\ fwPc' = [fwPc EXCEPT ![t] = "start"]
        /\ eng' = [eng EXCEPT !.size = 1]
  /\ UNCHANGED <<lock, busy, sbiVars, masked, fwSyncs, bootVars>>

FwStart(t) ==
  /\ fwPc[t] = "start" /\ Runs(t)
  /\ busy' = "inv"
  /\ fwPc' = [fwPc EXCEPT ![t] = "wait"]
  /\ UNCHANGED <<lock, eng, sbiVars, masked, fwSyncs, bootVars>>

FwWait(t) ==
  /\ fwPc[t] = "wait" /\ Runs(t) /\ busy = NoOp
  /\ fwPc' = [fwPc EXCEPT ![t] = "unlock"]
  /\ UNCHANGED <<engVars, sbiVars, masked, fwSyncs, bootVars>>

FwUnlock(t) ==
  /\ fwPc[t] = "unlock" /\ Runs(t)
  /\ lock' = 0
  /\ fwPc' = [fwPc EXCEPT ![t] = "unmask"]
  /\ UNCHANGED <<eng, busy, sbiVars, masked, fwSyncs, bootVars>>

FwUnmask(t) ==
  /\ fwPc[t] = "unmask" /\ Runs(t)
  /\ masked' = NoTask
  /\ fwPc' = [fwPc EXCEPT ![t] = "idle"]
  /\ UNCHANGED <<engVars, sbiVars, fwSyncs, bootVars>>

FwStep(t) == FwEnter(t) \/ FwLock(t) \/ FwRegs(t) \/ FwStart(t) \/ FwWait(t)
               \/ FwUnlock(t) \/ FwUnmask(t)

(* The engine ends its operation: ESP32S31_CACHE_SYNC_DONE.                *)
EngineDone ==
  /\ busy # NoOp
  /\ busy' = NoOp
  /\ UNCHANGED <<lock, eng, sbiVars, fwVars, bootVars>>

Idle == /\ sbiPc = "idle" /\ sbiSyncs = MaxSyncs /\ fwSyncs = MaxFwSyncs /\ MainRuns
        /\ UNCHANGED vars

Next ==
  \/ shm_flash_share_cache \/ start_linux_hart
  \/ esp32s31_vendor_ext \/ esp32s31_cache_sync \/ SbiStep
  \/ \E t \in Tasks : FwCall(t) \/ FwStep(t)
  \/ EngineDone \/ Idle

Spec == Init /\ [][Next]_vars

(* The loader goes on, both harts run, an operation of the engine ends.    *)
FairSpec ==
  /\ Spec
  /\ WF_vars(shm_flash_share_cache) /\ WF_vars(start_linux_hart)
  /\ WF_vars(SbiStep) /\ WF_vars(EngineDone)
  /\ \A t \in Tasks : WF_vars(FwStep(t))

-----------------------------------------------------------------------------
Ops == {"inv", "wback", "wback_inv"}
SbiPcs == {"idle", "lock", "ret"} \cup InCritical
FwPcs == {"idle", "enter", "lock", "unmask"} \cup InCritical
Regs == [map : {"none", "D", "I", "fw"}, addr : Nat, size : Nat]
Calls == [func : Funcs, addr : Nat, size : Nat, leg : {"D", "I"}, pass : Nat,
          asked : Nat \X Nat]

(* The types of the variables.                                             *)
TypeOK ==
  /\ shared \in BOOLEAN /\ hart1 \in BOOLEAN
  /\ lock \in {0, 1} /\ eng \in Regs /\ busy \in Ops \cup {NoOp}
  /\ sbiPc \in SbiPcs /\ sbi \in Calls
  /\ sbiRuns \in Seq((Ops \cup {NoOp}) \X Regs) /\ sbiSyncs \in Nat
  /\ fwPc \in [Tasks -> FwPcs] /\ masked \in Tasks \cup {NoTask}
  /\ fwSyncs \in Nat

(* The two masters never have the engine at the same time, and two tasks   *)
(* of the firmware do not either.                                          *)
EngineExclusive ==
  /\ \A t \in Tasks : ~(sbiPc \in InCritical /\ fwPc[t] \in InCritical)
  /\ \A s, t \in Tasks :
       s # t => ~(fwPc[s] \in InCritical /\ fwPc[t] \in InCritical)

(* While a master waits for the end of its operation, the registers of the *)
(* engine are the ones it wrote: nobody changed the map, the address or    *)
(* the size between its stores and the end.                                *)
EngineRunsRequest ==
  /\ sbiPc \in {"start", "wait"} =>
       eng = [map |-> sbi.leg, addr |-> sbi.addr, size |-> sbi.size]
  /\ \A t \in Tasks : fwPc[t] \in {"start", "wait"} =>
       eng = [map |-> "fw", addr |-> t, size |-> 1]

(* An invalidate of the D-cache, which drops whole dirty lines, never runs *)
(* on a line of the memory of OpenSBI, whatever the arguments: also not    *)
(* with a range that wraps or with size 0, which selects the full cache.   *)
InvalidateSparesOpenSBI ==
  busy = "inv" /\ eng.map = "D" =>
    /\ eng.size # 0
    /\ \A a \in AlignDown(eng.addr) .. AlignUp(eng.addr + eng.size) - 1 :
         a % W \notin FW_BASE .. FW_BASE + FW_SIZE - 1

Run(op, map) == <<op, [map |-> map, addr |-> sbi.addr, size |-> sbi.size]>>

WriteBackRuns(op) == IF op = "inv" THEN <<Run(op, "D")>> ELSE <<Run(op, "D"), Run(op, "D")>>

(* When a call returns to Linux, the engine has run over every byte that   *)
(* the driver was asked for, over nothing outside the PSRAM and never over *)
(* the full cache by a size that was rounded to 0; every write-back ran    *)
(* twice (the erratum of platform.c:433) and, for new code, the I-cache    *)
(* was invalidated after the D-cache was written back.                     *)
SyncIsComplete ==
  sbiPc = "ret" =>
    /\ sbiRuns = WriteBackRuns(CacheOps[sbi.func].dcache)
                   \o (IF sbi.func = "icache_sync" THEN <<Run("inv", "I")>> ELSE <<>>)
    /\ sbi.asked # <<0, 0>> =>
         /\ sbi.size # 0
         /\ sbi.addr >= EXTRAM_BASE
         /\ sbi.addr + sbi.size <= EXTRAM_BASE + EXTRAM_SIZE
         /\ sbi.asked[1] .. sbi.asked[1] + sbi.asked[2] - 1
              \subseteq sbi.addr .. sbi.addr + sbi.size - 1

(* Every sync ends, on both harts: nobody spins for ever.  A firmware task *)
(* that was preempted with the lock by one that spins would never give it  *)
(* back, and a lock word that holds old SRAM content would never be free.  *)
SyncsEnd ==
  /\ (sbiPc # "idle") ~> (sbiPc = "idle")
  /\ \A t \in Tasks : (fwPc[t] # "idle") ~> (fwPc[t] = "idle")

=============================================================================
