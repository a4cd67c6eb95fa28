----------------------------- MODULE Interrupts -----------------------------
(***************************************************************************)
(* Interrupt delivery on the Linux hart: the machine timer as OpenSBI      *)
(* programs it (opensbi/platform/esp32s31/platform.c), the CLIC inputs it  *)
(* and Linux share, and the CLIC driver of Linux                           *)
(* (linux/drivers/irqchip/irq-esp32s31-clic.c).                            *)
(*                                                                         *)
(* The path of a timer event: Linux asks OpenSBI for it, OpenSBI writes    *)
(* MTIMECMP, the comparator's rising edge latches input 7, OpenSBI takes   *)
(* it in M-mode and sets input 5, the S-mode timer of Linux.  M-mode and   *)
(* S-mode share the hart: M-mode runs its register accesses to the end,    *)
(* one per step, while time goes on between them.  The timer layer of      *)
(* OpenSBI (sbi_timer.c) and the clock event layer of Linux are external.  *)
(***************************************************************************)
EXTENDS Naturals, Sequences

CONSTANTS
    Half,          \* values of a register half (2^32): time is hi * Half + lo
    MaxTime,       \* bound: the last value of MTIME, and of an event
    MaxArms,       \* bound: events that Linux asks for
    MaxWork        \* bound: irq_work items

ASSUME IrqAssumption == Half \in Nat /\ 0 < Half /\ MaxTime \in Nat

NoEvent == MaxTime + 1
AllOnes == MaxTime + 2   \* a high half that time never reaches: 0xffffffff

VARIABLES
    now,           \* MTIME
    hi, lo,        \* MTIMECMP
    ip,            \* the pending inputs: 7 and 5 timer, 16 irq_work
    mprog,         \* the register accesses M-mode still has to make
    got,           \* what esp32s31_timer_value read: [from, hi, lo]
    ev,            \* the event OpenSBI waits for
    spc,           \* what Linux does
    want, arms,    \* the event Linux waits for, and how many it asked for
    probed,        \* the CLIC driver runs
    work, batch,   \* irq_work items queued, and taken by the handler
    queued,        \* items queued so far
    input, line    \* an external input: "unrouted", "masked", "on"; its line

timer == <<now, hi, lo, mprog, got, ev>>
linux == <<spc, want, arms>>
works == <<work, batch, queued>>
ext == <<input, line>>
irqVars == <<timer, ip, linux, probed, works, ext>>

(* The input latches the rising edge of the comparator.                    *)
Match(h, l, t) == t >= h * Half + l
Edge(h, l, t) == IF ~Match(hi, lo, now) /\ Match(h, l, t) THEN {7} ELSE {}

Tick ==
    /\ now < MaxTime /\ now' = now + 1
    /\ ip' = ip \cup Edge(hi, lo, now')
    /\ UNCHANGED <<hi, lo, mprog, got, ev, linux, probed, works, ext>>

-----------------------------------------------------------------------------
(* OpenSBI: programs of register accesses.                                 *)

\* Mutant: the compare value goes from the old event straight to the new one.
esp32s31_timer_event_start_NoMax(e) ==
    << <<"ip7", 0>>, <<"lo", e % Half>>, <<"hi", e \div Half>> >>

esp32s31_timer_event_start(e) ==
    << <<"ip7", 0>>, <<"hi", AllOnes>>, <<"lo", e % Half>>, <<"hi", e \div Half>> >>

esp32s31_timer_event_stop ==
    << <<"hi", AllOnes>>, <<"lo", Half - 1>>, <<"ip7", 0>> >>

\* Mutant: the high half is not read again.
esp32s31_timer_value_Once == << <<"readhi", 0>>, <<"readlo", 0>>, <<"process", 0>> >>

esp32s31_timer_value ==
    << <<"readhi", 0>>, <<"readlo", 0>>, <<"rereadhi", 0>>, <<"process", 0>> >>

MInit == hi = AllOnes /\ lo = Half - 1 /\ mprog = <<>> /\ ev = NoEvent
         /\ got = [from |-> 0, hi |-> 0, lo |-> 0]

(* The M-mode timer trap: sbi_timer_process reads the time first.          *)
MTrap ==
    /\ mprog = <<>> /\ 7 \in ip
    /\ mprog' = esp32s31_timer_value
    /\ UNCHANGED <<now, hi, lo, got, ev, ip, linux, probed, works, ext>>

MWrite ==
    /\ mprog # <<>> /\ Head(mprog)[1] \in {"ip7", "hi", "lo"}
    /\ LET reg == Head(mprog)[1]
           val == Head(mprog)[2]
       IN /\ hi' = IF reg = "hi" THEN val ELSE hi
          /\ lo' = IF reg = "lo" THEN val ELSE lo
          /\ ip' = IF reg = "ip7" THEN ip \ {7} ELSE ip \cup Edge(hi', lo', now)
    /\ mprog' = Tail(mprog)
    /\ UNCHANGED <<now, got, ev, linux, probed, works, ext>>

MRead ==
    /\ mprog # <<>> /\ Head(mprog)[1] \in {"readhi", "readlo", "rereadhi"}
    /\ LET reg == Head(mprog)[1]
       IN /\ got' = IF reg = "readhi" THEN [from |-> now, hi |-> now \div Half, lo |-> 0]
                    ELSE IF reg = "readlo" THEN [got EXCEPT !.lo = now % Half] ELSE got
          /\ mprog' = IF reg = "rereadhi" /\ got.hi # now \div Half
                      THEN esp32s31_timer_value ELSE Tail(mprog)
    /\ UNCHANGED <<now, hi, lo, ev, ip, linux, probed, works, ext>>

(* An event that is due sets input 5 (sbi_timer_plat_sirq_set) and leaves; *)
(* the device is then set up for the next event, or stopped.               *)
Value == got.hi * Half + got.lo

MProcess ==
    /\ mprog # <<>> /\ Head(mprog)[1] = "process"
    /\ IF ev # NoEvent /\ Value >= ev
       THEN /\ ip' = ip \cup {5} /\ ev' = NoEvent
            /\ mprog' = esp32s31_timer_event_stop
       ELSE /\ UNCHANGED <<ip, ev>>
            /\ mprog' = IF ev = NoEvent THEN esp32s31_timer_event_stop
                        ELSE esp32s31_timer_event_start(ev)
    /\ UNCHANGED <<now, hi, lo, got, linux, probed, works, ext>>

(* The SBI call of Linux: input 5 is cleared, then the event starts.       *)
SetTimer(e) ==
    /\ ev' = e /\ want' = e /\ ip' = ip \ {5}
    /\ mprog' = esp32s31_timer_event_start(e)
    /\ UNCHANGED <<now, hi, lo, got>>

-----------------------------------------------------------------------------
(* Linux.  Its handlers run one after the other, interrupts off.           *)

S(pc) == mprog = <<>> /\ spc = pc

ArmTimer(e) ==
    /\ S("run") /\ probed /\ arms < MaxArms
    /\ arms' = arms + 1 /\ SetTimer(e)
    /\ UNCHANGED <<spc, probed, works, ext>>

(* esp32s31_clic_handle_irq with input 5, an edge input below 16: IP is    *)
(* cleared, then the timer interrupt of Linux runs.                        *)
TakeTimer ==
    /\ S("run") /\ probed /\ 5 \in ip
    /\ ip' = ip \ {5} /\ spc' = "timer"
    /\ UNCHANGED <<timer, want, arms, probed, works, ext>>

(* The clock event handler (external): what is due is done; Linux asks for *)
(* the next event, again for one that was not due, or for none.            *)
TimerHandler ==
    /\ S("timer") /\ spc' = "run"
    /\ UNCHANGED <<probed, works, ext>>
    /\ \/ /\ want > now /\ want # NoEvent
          /\ SetTimer(want) /\ UNCHANGED arms
       \/ /\ want <= now \/ want = NoEvent
          /\ \/ /\ arms < MaxArms /\ arms' = arms + 1
                /\ \E e \in 0 .. MaxTime : SetTimer(e)
             \/ want' = NoEvent /\ UNCHANGED <<timer, ip, arms>>

(* esp32s31_clic_probe and esp32s31_irq_work_init: the external inputs are *)
(* cleared, then input 16 is set once for the work of before.              *)
esp32s31_clic_probe ==
    /\ S("run") /\ ~probed
    /\ probed' = TRUE /\ ip' = ip \cup {16}
    /\ UNCHANGED <<timer, linux, works, ext>>

arch_irq_work_raise ==
    /\ queued < MaxWork /\ queued' = queued + 1 /\ work' = work + 1
    /\ ip' = IF probed THEN ip \cup {16} ELSE ip

QueueWork ==
    /\ mprog = <<>> /\ spc \in {"run", "timer"} /\ arch_irq_work_raise
    /\ UNCHANGED <<timer, linux, probed, batch, ext>>

\* Mutant: the pending bit is cleared after the work.
WorkDone_Clear == spc' = "run" /\ ip' = ip \ {16}

WorkDone == spc' = "run" /\ UNCHANGED ip

(* esp32s31_irq_work_interrupt: IP is cleared, then irq_work_run takes all *)
(* that is queued; an item may queue another one.                          *)
TakeWork ==
    /\ S("run") /\ probed /\ 16 \in ip
    /\ ip' = ip \ {16} /\ spc' = "work"
    /\ batch' = work /\ work' = 0
    /\ UNCHANGED <<timer, want, arms, probed, queued, ext>>

RunWork ==
    /\ S("work")
    /\ UNCHANGED <<timer, want, arms, probed, ext>>
    /\ \/ /\ batch > 0 /\ batch' = batch - 1 /\ UNCHANGED spc
          /\ arch_irq_work_raise \/ UNCHANGED <<ip, work, queued>>
       \/ batch = 0 /\ WorkDone /\ UNCHANGED works

(* A peripheral: esp32s31_clic_domain_alloc routes its source to an input, *)
(* level only; mask and unmask write IE; the handler of the peripheral     *)
(* lets its line go.                                                       *)
esp32s31_clic_domain_alloc ==
    /\ S("run") /\ probed /\ input = "unrouted" /\ input' = "masked"
    /\ UNCHANGED <<timer, ip, linux, probed, works, line>>

esp32s31_clic_irq_enable(on) ==
    /\ S("run") /\ input # "unrouted" /\ input' = IF on THEN "on" ELSE "masked"
    /\ UNCHANGED <<timer, ip, linux, probed, works, line>>

RaiseLine ==
    /\ ~line /\ line' = TRUE
    /\ UNCHANGED <<timer, ip, linux, probed, works, input>>

TakeExternal ==
    /\ S("run") /\ probed /\ input = "on" /\ line
    /\ line' = FALSE
    /\ UNCHANGED <<timer, ip, linux, probed, works, input>>

IrqInit ==
    /\ now = 0 /\ MInit /\ ip = {}
    /\ spc = "run" /\ want = NoEvent /\ arms = 0 /\ probed = FALSE
    /\ work = 0 /\ batch = 0 /\ queued = 0 /\ input = "unrouted" /\ line = FALSE

MMode == MTrap \/ MWrite \/ MRead \/ MProcess

IrqNext ==
    \/ Tick \/ MMode
    \/ \E e \in 0 .. MaxTime : ArmTimer(e)
    \/ TakeTimer \/ TimerHandler \/ esp32s31_clic_probe
    \/ QueueWork \/ TakeWork \/ RunWork
    \/ esp32s31_clic_domain_alloc \/ \E on \in BOOLEAN : esp32s31_clic_irq_enable(on)
    \/ RaiseLine \/ TakeExternal

IrqSpec == IrqInit /\ [][IrqNext]_irqVars

(* Time goes on, M-mode and the handlers run to their end, and an enabled  *)
(* pending interrupt is taken.                                             *)
IrqFairness ==
    /\ WF_irqVars(Tick) /\ WF_irqVars(MMode)
    /\ SF_irqVars(TakeTimer) /\ WF_irqVars(TimerHandler)
    /\ SF_irqVars(TakeWork) /\ WF_irqVars(RunWork)

-----------------------------------------------------------------------------
(* Every event Linux waits for reaches it: also one that is already past   *)
(* when it is written, one that replaces an event that fires meanwhile,    *)
(* and one whose input 5 comes while the handler of the last one runs.     *)
(* The comparator must go low between two events for the edge of the       *)
(* second, and IP is cleared before the handler (esp32s31_timer_event_     *)
(* start, esp32s31_clic_handle_irq).                                       *)
TimerReachesLinux == []<>(want = NoEvent)

(* The time M-mode decides with is a time the timer had while it was read, *)
(* also when the low half wraps between the reads, and no event is given   *)
(* to Linux before it is due (esp32s31_timer_value, sbi_timer_process).    *)
TimeIsWhole ==
    /\ mprog # <<>> /\ Head(mprog)[1] = "process" => Value \in got.from .. now
    /\ 5 \in ip /\ want # NoEvent /\ ev = NoEvent => want <= now

(* Queued irq_work runs, if it was queued before the driver started, while *)
(* the handler runs or by an item of the work itself                       *)
(* (arch_irq_work_raise, esp32s31_irq_work_interrupt).                     *)
WorkRuns == []<>(work = 0 \/ ~probed)
=============================================================================
