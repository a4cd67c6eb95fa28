-------------------------------- MODULE Pins --------------------------------
(***************************************************************************)
(* The pins: the pin controller and GPIO driver of Linux                   *)
(* (linux/drivers/pinctrl/pinctrl-esp32s31.c) with its interrupts, and the *)
(* pinctrl tool (tools/pinctrl), which writes the same registers from user *)
(* space through the gpiomem device of the driver.                         *)
(*                                                                         *)
(* A driver function is a program: a sequence of register accesses.  Three *)
(* run on the one hart of Linux: a kernel task, the chained handler of a   *)
(* bank and the tool.  The handler runs to its end; a task or the tool can *)
(* be left between any two accesses, except where interrupts are off.  The *)
(* pads change at any time.  The pin core (who owns a pin) and the flow    *)
(* handlers of the interrupt core are external.                            *)
(***************************************************************************)
EXTENDS Naturals, Sequences, FiniteSets, SequencesExt

CONSTANTS
    Pins,          \* the pins in use, numbers of 0 .. 61
    Sigs,          \* peripheral signals of the GPIO matrix
    Cells,         \* pinmux cells of the device tree: [func, sig, in, out]
    Configs,       \* pin configurations: [param, arg]
    IrqTypes,      \* of "rising", "falling", "both", "low", "high"
    Commands,      \* "set" commands: [nums, header, force, lines, opt], with the
                   \* options [mode, drive, pull]; lines: the lines could be read
    Held,          \* the pins that a GPIO user has from the start
    Reserved,      \* gpio-reserved-ranges of the device tree
    MaxCalls,      \* bound: calls into the driver
    MaxEdges       \* bound: changes of the pads

(* A pin left out of an instance is one that the tool must not touch.      *)
ASSUME PinsAssumption ==
    /\ Pins \subseteq 0 .. 61 /\ 0 .. 61 \ Pins \subseteq Reserved
    /\ \A c \in Configs : c.param \in {"bias", "input", "strength", "drain"}
    /\ \A c \in Commands :
          c.opt.mode \in {"none", "op", "ip", "no", "a0", "a1", "a2", "a3", "a4"}

Nothing == "none"
GpioOut == 256                       \* SIG_GPIO_OUT
IoMux == 128                         \* IN_SEL_IOMUX
NoGpio == 99                         \* a pad without a GPIO, or no pad
ToolOff == [pc |-> "off", cmd |-> Nothing, nums |-> {}, used |-> {}, pin |-> NoGpio,
            clean |-> TRUE]
NoCall == [op |-> Nothing, pin |-> NoGpio, val |-> 0, clean |-> TRUE]
Words == ({"iomux", "pin"} \X Pins) \cup {<<"cnnt", 0>>}

VARIABLES
    regs,          \* the words that are read, changed and written
    out, oe,       \* OUT and ENABLE: the pins with their bit set
    outSel, inSel, \* FUNC_OUT_SEL of a pin, FUNC_IN_SEL of a signal
    status,        \* STATUS: the pins with a latched edge
    level,         \* the pads that are high
    owner,         \* of a pin: "free", "mux" or "gpio"
    irqOn,         \* the pins with a requested interrupt
    task, tmp,     \* program of the kernel task, and the value it has read
    call,          \* the call the task is in: [op, pin, val, clean]
    todo,          \* the pending pins that the chained handler has still to serve
    chained, htmp, \* its program for the pin that it serves
    tool, ttmp,    \* program of the tool
    tset,          \* the run of the tool: [pc, cmd, nums, used, pin, clean]
    calls, edges,  \* bounded counters
    meant,         \* history: the words as all writers together meant them
    raced,         \* history: the words the tool has written over a change
    fresh,         \* history: pins with an edge their handler has not seen
    latched,       \* history: the type under which the last edge of a pin latched
    event          \* history: of a pin, that type and the type of the event that runs

registers == <<regs, out, oe, outSel, inSel>>
pads == <<status, level, edges>>
core == <<owner, irqOn, calls>>
service == <<todo, chained, htmp>>
history == <<meant, raced, fresh, latched, event>>
pinVars == <<registers, pads, core, call, task, tmp, service, tool, ttmp, tset, history>>

-----------------------------------------------------------------------------
(* Register accesses, and the programs built from them.                    *)

Acc(do, reg, pin, val) == [do |-> do, reg |-> reg, pin |-> pin, val |-> val, off |-> FALSE]
Read(reg, pin) == Acc("read", reg, pin, 0)
Write(reg, pin, set) == Acc("write", reg, pin, set)
Bit(reg, pin, on) == << Acc("bit", reg, pin, on) >>
Sel(reg, n, val) == << Acc("sel", reg, n, val) >>

(* A section with interrupts off: nothing comes between its accesses.      *)
Locked(program) ==
    [i \in DOMAIN program |->
        IF i = 1 THEN program[i] ELSE [program[i] EXCEPT !.off = TRUE]]

\* Mutant: a plain spinlock, which leaves the interrupts on.
Rmw_NoIrqsave(reg, pin, set) == << Read(reg, pin), Write(reg, pin, set) >>

(* esp32s31_iomux_rmw, esp32s31_pin_rmw: the fields of set replace those   *)
(* of the word, under the lock with interrupts off.                        *)
Rmw(reg, pin, set) == Locked(<< Read(reg, pin), Write(reg, pin, set) >>)

(* The select bit that an IO MUX function of a CNNT pad needs.             *)
CnntField(pin, func) ==
    IF pin \in 13 .. 19 /\ func = 2 THEN "gmac"
    ELSE IF pin \in 20 .. 25 /\ func = 4 THEN "sdhost" ELSE Nothing

esp32s31_cnnt_select(pin, func) ==
    LET f == CnntField(pin, func)
    IN IF f = Nothing THEN <<>> ELSE Rmw("cnnt", 0, [x \in {f} |-> TRUE])

-----------------------------------------------------------------------------
(* The pin controller: one program per call.                               *)

esp32s31_mux_one(pin, c) ==
    (IF c.in THEN Sel("in", c.sig, IF c.func = 1 THEN pin ELSE IoMux) ELSE <<>>)
    \o (IF c.out THEN Sel("out", pin, c.sig) ELSE <<>>)
    \o Rmw("iomux", pin, IF c.in THEN [func |-> c.func, ie |-> TRUE]
                         ELSE [func |-> c.func])
    \o esp32s31_cnnt_select(pin, c.func)

esp32s31_gpio_request_enable(pin) ==
    Bit("oe", pin, FALSE) \o Sel("out", pin, GpioOut)
    \o Rmw("iomux", pin, [func |-> 1, ie |-> TRUE])

(* A drive strength that FUN_DRV does not have is refused.                 *)
esp32s31_drive_field(ma) == {i \in 0 .. 3 : <<5, 10, 20, 40>>[i + 1] = ma}

esp32s31_config_one(pin, c) ==
    CASE c.param = "bias" ->
            Rmw("iomux", pin, [wpu |-> c.arg = "up", wpd |-> c.arg = "down"])
      [] c.param = "input" -> Rmw("iomux", pin, [ie |-> c.arg])
      [] c.param = "strength" ->
            IF esp32s31_drive_field(c.arg) = {} THEN <<>>
            ELSE Rmw("iomux", pin,
                     [drv |-> CHOOSE i \in esp32s31_drive_field(c.arg) : TRUE])
      [] c.param = "drain" -> Rmw("pin", pin, [od |-> c.arg])

esp32s31_gpio_set(pin, high) == Bit("outbit", pin, high)

\* Mutant: the output driver starts before the level is set.
esp32s31_gpio_direction_output_DriveFirst(pin, high) ==
    Bit("oe", pin, TRUE) \o esp32s31_gpio_set(pin, high)

esp32s31_gpio_direction_output(pin, high) ==
    esp32s31_gpio_set(pin, high) \o Bit("oe", pin, TRUE)

esp32s31_gpio_direction_input(pin) == Bit("oe", pin, FALSE)

-----------------------------------------------------------------------------
(* Interrupts.                                                             *)

Bank(pin) == pin \div 32

\* Mutant: the whole bank is cleared, not the one pin.
esp32s31_irq_ack_Bank(pin) == << Acc("ackbank", "status", pin, 0) >>

esp32s31_irq_ack(pin) == << Acc("ack", "status", pin, 0) >>

esp32s31_irq_mask(pin) == Rmw("pin", pin, [ena |-> FALSE])
esp32s31_irq_unmask(pin) == Rmw("pin", pin, [ena |-> TRUE])

esp32s31_irq_set_type(pin, t) == Rmw("pin", pin, [type |-> t]) \o esp32s31_irq_ack(pin)

Type(pin) == regs[<<"pin", pin>>].type
IsLevel(t) == t \in {"low", "high"}
LevelHolds(pin) == Type(pin) = IF pin \in level THEN "high" ELSE "low"

(* GPIO_INT of the line of a bank: the status of its enabled pins.         *)
Pending(b) == {p \in Pins : /\ Bank(p) = b /\ regs[<<"pin", p>>].ena
                            /\ p \in status \/ LevelHolds(p)}

(* The flow of the interrupt core for one pin: handle_edge_irq clears the  *)
(* status and runs the handler of the consumer, handle_level_irq masks the *)
(* pin around it.                                                          *)
Flow(pin) ==
    LET event_ == << Acc("event", Nothing, pin, 0) >>
    IN IF IsLevel(Type(pin))
       THEN esp32s31_irq_mask(pin) \o esp32s31_irq_ack(pin) \o event_
            \o esp32s31_irq_unmask(pin)
       ELSE esp32s31_irq_ack(pin) \o event_

-----------------------------------------------------------------------------
(* How an access changes the registers.  Only the handler step of the flow *)
(* and the acknowledge change what the history keeps about edges.          *)

Bits(a, reg, bits) ==
    IF a.do # "bit" \/ a.reg # reg THEN bits
    ELSE IF a.val THEN bits \cup {a.pin} ELSE bits \ {a.pin}

Access(a, read) ==
    /\ regs' = IF a.do = "write"
               THEN [regs EXCEPT ![<<a.reg, a.pin>>] =
                        [f \in DOMAIN @ |-> IF f \in DOMAIN a.val THEN a.val[f] ELSE read[f]]]
               ELSE regs
    /\ out' = Bits(a, "outbit", out) /\ oe' = Bits(a, "oe", oe)
    /\ outSel' = IF a.do = "sel" /\ a.reg = "out"
                 THEN [outSel EXCEPT ![a.pin] = a.val] ELSE outSel
    /\ inSel' = IF a.do = "sel" /\ a.reg = "in"
                THEN [inSel EXCEPT ![a.pin] = a.val] ELSE inSel
    /\ status' = IF a.do = "ack" THEN status \ {a.pin}
                 ELSE IF a.do = "ackbank" THEN {p \in status : Bank(p) # Bank(a.pin)}
                 ELSE status
    /\ meant' = IF a.do = "write"
                THEN [meant EXCEPT ![<<a.reg, a.pin>>] =
                        [f \in DOMAIN @ |-> IF f \in DOMAIN a.val THEN a.val[f] ELSE @[f]]]
                ELSE meant
    /\ latched' = [p \in Pins |-> IF p \in status' THEN latched[p] ELSE Nothing]
    /\ UNCHANGED <<level, edges>>

(* The value a program reads for its next write.                           *)
Latch(a) == IF a.do = "read" THEN regs[<<a.reg, a.pin>>] ELSE 0

(* A driver access to a pin that the tool is at work on; a driver write to *)
(* a word that the tool has read and not yet written.                      *)
Meets(a) == /\ tset.pc = "set" /\ a.do \in {"write", "bit", "sel"}
            /\ a.reg = "in" \/ a.pin = tset.pin
Races(a) == IF /\ a.do = "write" /\ tool # <<>> /\ Head(tool).do = "write"
               /\ Head(tool).reg = a.reg /\ Head(tool).pin = a.pin
            THEN {<<a.reg, a.pin>>} ELSE {}

(* Interrupts are on, and no handler runs.                                 *)
Serving == todo # {} \/ chained # <<>>
Quiet == ~Serving /\ IF task = <<>> THEN TRUE ELSE ~Head(task).off

TaskStep ==
    /\ ~Serving /\ task # <<>>
    /\ LET a == Head(task)
       IN /\ Access(a, tmp) /\ tmp' = Latch(a)
          /\ raced' = raced \cup Races(a)
          /\ tset' = IF Meets(a) THEN [tset EXCEPT !.clean = FALSE] ELSE tset
          /\ fresh' = IF a.do \in {"ack", "ackbank"} THEN fresh \ {a.pin} ELSE fresh
    /\ task' = Tail(task) /\ call' = IF task' = <<>> THEN NoCall ELSE call
    /\ UNCHANGED <<core, service, tool, ttmp, event>>

(* The line of a bank is read once; its pending pins are served lowest     *)
(* first.                                                                  *)
TakeInterrupt(b) ==
    /\ Quiet /\ todo' = Pending(b) /\ todo' # {}
    /\ UNCHANGED <<registers, pads, core, call, task, tmp, chained, htmp, tool, ttmp, tset,
                   history>>

esp32s31_gpio_irq_handler ==
    /\ chained = <<>>
    /\ \E p \in todo :
          /\ \A q \in todo : p <= q
          /\ chained' = Flow(p) /\ todo' = todo \ {p}
    /\ UNCHANGED <<registers, pads, core, call, task, tmp, htmp, tool, ttmp, tset, history>>

HandlerStep ==
    /\ chained # <<>>
    /\ LET a == Head(chained)
       IN /\ Access(a, htmp) /\ htmp' = Latch(a)
          /\ raced' = raced \cup Races(a)
          /\ fresh' = IF a.do = "event" THEN fresh \ {a.pin} ELSE fresh
          /\ event' = IF a.do = "ack" /\ a.pin \in status
                      THEN [event EXCEPT ![a.pin] = <<latched[a.pin], Type(a.pin)>>]
                      ELSE IF a.do = "event"
                      THEN [event EXCEPT ![a.pin] = <<Nothing, Nothing>>]
                      ELSE event
    /\ chained' = Tail(chained)
    /\ UNCHANGED <<core, call, task, tmp, todo, tool, ttmp, tset>>

(* A pad changes: an edge of the type of the pin latches its status.       *)
PadChange(p) ==
    /\ edges < MaxEdges /\ edges' = edges + 1
    /\ LET rise == p \notin level
           hit == Type(p) = "both" \/ Type(p) = IF rise THEN "rising" ELSE "falling"
       IN /\ level' = IF rise THEN level \cup {p} ELSE level \ {p}
          /\ status' = IF hit THEN status \cup {p} ELSE status
          /\ fresh' = IF hit /\ regs[<<"pin", p>>].ena THEN fresh \cup {p} ELSE fresh
          /\ latched' = IF hit THEN [latched EXCEPT ![p] = Type(p)] ELSE latched
    /\ UNCHANGED <<registers, core, call, task, tmp, service, tool, ttmp, tset>>
    /\ UNCHANGED <<meant, raced, event>>

-----------------------------------------------------------------------------
(* The calls of the kernel task.  The pin core lets one user have a pin,   *)
(* and a user frees its interrupt before its line.  The interrupt core     *)
(* calls the chip with the descriptor of the interrupt locked.             *)

Call(op, pin, val, program) ==
    /\ task = <<>> /\ ~Serving /\ calls < MaxCalls
    /\ calls' = calls + 1 /\ task' = program
    /\ call' = IF program = <<>> THEN NoCall
               ELSE [op |-> op, pin |-> pin, val |-> val, clean |-> TRUE]
    /\ UNCHANGED <<registers, pads, tmp, service, tool, ttmp, tset, history>>

(* esp32s31_set_mux: a refused cell leaves the registers alone.            *)
SetMux(p, c) ==
    /\ owner[p] = "free" /\ owner' = [owner EXCEPT ![p] = "mux"]
    /\ Call("mux", p, 0, IF p >= 62 \/ c.sig \notin Sigs THEN <<>>
                         ELSE esp32s31_mux_one(p, c))
    /\ UNCHANGED irqOn

RequestGpio(p) ==
    /\ owner[p] = "free" /\ owner' = [owner EXCEPT ![p] = "gpio"]
    /\ Call("request", p, 0, esp32s31_gpio_request_enable(p)) /\ UNCHANGED irqOn

FreePin(p) ==
    /\ owner[p] # "free" /\ p \notin irqOn /\ owner' = [owner EXCEPT ![p] = "free"]
    /\ Call("free", p, 0, <<>>) /\ UNCHANGED irqOn

UseGpio(p, high) ==
    /\ owner[p] = "gpio" /\ UNCHANGED <<owner, irqOn>>
    /\ \/ p \in oe /\ Call("level", p, high, esp32s31_gpio_set(p, high))
       \/ p \notin irqOn /\ Call("output", p, high, esp32s31_gpio_direction_output(p, high))
       \/ Call("input", p, 0, esp32s31_gpio_direction_input(p))

(* esp32s31_pin_config_set, esp32s31_gpio_set_config.                      *)
Configure(p, c) ==
    /\ owner[p] # "free" /\ Call("config", p, 0, esp32s31_config_one(p, c))
    /\ UNCHANGED <<owner, irqOn>>

RequestIrq(p, t) ==
    /\ owner[p] = "gpio" /\ p \notin irqOn /\ p \notin oe /\ irqOn' = irqOn \cup {p}
    /\ Call("irq", p, 0, Locked(esp32s31_irq_set_type(p, t) \o esp32s31_irq_unmask(p)))
    /\ UNCHANGED owner

ChangeType(p, t) ==
    /\ p \in irqOn /\ Call("type", p, 0, Locked(esp32s31_irq_set_type(p, t)))
    /\ UNCHANGED <<owner, irqOn>>

FreeIrq(p) ==
    /\ p \in irqOn /\ irqOn' = irqOn \ {p}
    /\ Call("noirq", p, 0, Locked(esp32s31_irq_mask(p))) /\ UNCHANGED owner

-----------------------------------------------------------------------------
(* The tool.  "set" works on a list of numbers: GPIOs, or with -p the pads *)
(* of the header of the board.                                             *)

(* Runs of header pins: <<first, last, gpio>>, NoGpio for one without.     *)
wroom3 == << <<1, 5, NoGpio>>, <<6, 6, 2>>, <<7, 7, 3>>, <<8, 8, 0>>, <<9, 9, 1>>,
             <<10, 25, 4>>, <<26, 26, NoGpio>>, <<27, 32, 20>>, <<33, 41, NoGpio>>,
             <<42, 46, 33>>, <<47, 48, NoGpio>>, <<49, 51, 38>>, <<52, 67, 42>>,
             <<68, 71, 58>>, <<72, 99, NoGpio>> >>
j2 == << <<1, 2, NoGpio>>, <<3, 3, 58>>, <<4, 4, 59>>, <<5, 5, 61>>, <<6, 6, 60>>,
         <<7, 7, 2>>, <<8, 8, NoGpio>>, <<9, 9, 0>>, <<10, 10, 3>>, <<11, 11, 49>>,
         <<12, 12, 1>>, <<13, 13, 47>>, <<14, 14, 48>>, <<15, 15, 45>>,
         <<16, 16, 46>>, <<17, 17, 43>>, <<18, 18, 44>>, <<19, 19, 40>>,
         <<20, 20, 42>>, <<21, 21, 39>>, <<22, 22, 38>>, <<23, 23, 37>>,
         <<24, 24, 36>>, <<25, 25, 35>>, <<26, 31, 20>>, <<32, 32, 4>>,
         <<33, 40, NoGpio>> >>

pin_exists(n) == n \in 0 .. 61 \ {29, 41}
pin_is_flash(n) == n \in 26 .. 32

pad_gpio(hdr, pad) ==
    LET hit == {i \in DOMAIN hdr : pad \in hdr[i][1] .. hdr[i][2]}
        r == hdr[CHOOSE i \in hit : TRUE]
    IN IF hit = {} \/ r[3] = NoGpio THEN NoGpio ELSE r[3] + (pad - r[1])

num_to_gpio(num, header) ==
    CASE header = "j2" -> pad_gpio(j2, num)
      [] header = "wroom3" -> pad_gpio(wroom3, num)
      [] OTHER -> IF pin_exists(num) THEN num ELSE NoGpio

Alts == <<"a0", "a1", "a2", "a3", "a4">>
Func(mode) == CHOOSE f \in 0 .. 4 : Alts[f + 1] = mode

(* The matrix puts a signal on the pin, or an input signal reads it.       *)
matrix_signals(p) == outSel[p] # GpioOut \/ \E s \in Sigs : inSel[s] = p

pin_get(p) ==
    LET mux == regs[<<"iomux", p>>]
    IN [mode |-> IF mux.func # 1 THEN Alts[mux.func + 1]
                 ELSE IF matrix_signals(p) THEN "mx"
                 ELSE IF p \in oe THEN "op" ELSE IF mux.ie THEN "ip" ELSE "no",
        wpu |-> mux.wpu, wpd |-> mux.wpd, out |-> p \in out,
        lines |-> regs[<<"pin", p>>].ena]

set_refusal(p) ==
    \/ pin_is_flash(p) \/ ~tset.cmd.lines \/ p \in Reserved
    \/ p \in tset.used /\ ~tset.cmd.force
    \/ pin_get(p).lines

(* iomux_update and cnnt_select: a read and a write, with no lock.         *)
iomux_update(p, set) == << Read("iomux", p), Write("iomux", p, set) >>

cnnt_select(p, func) ==
    LET f == CnntField(p, func)
    IN IF f = Nothing THEN <<>>
       ELSE << Read("cnnt", 0), Write("cnnt", 0, [x \in {f} |-> TRUE]) >>

\* Mutant: the pin is not taken off the signal of a peripheral.
pin_set_mode_KeepSignal(p, mode) ==
    IF mode \in Range(Alts)
    THEN cnnt_select(p, Func(mode)) \o iomux_update(p, [func |-> Func(mode), ie |-> TRUE])
    ELSE Bit("oe", p, mode = "op") \o iomux_update(p, [func |-> 1, ie |-> mode # "no"])

pin_set_mode(p, mode) ==
    IF mode \in Range(Alts)
    THEN cnnt_select(p, Func(mode)) \o iomux_update(p, [func |-> Func(mode), ie |-> TRUE])
    ELSE Sel("out", p, GpioOut) \o Bit("oe", p, mode = "op")
         \o iomux_update(p, [func |-> 1, ie |-> mode # "no"])

pin_set_pull(p, pull) == iomux_update(p, [wpu |-> pull = "up", wpd |-> pull = "down"])

(* The program of do_gpio_set for a pin that is not refused: the level is  *)
(* for an output only, and comes first.                                    *)
NotAnOutput(p, opt) ==
    /\ opt.drive # Nothing
    /\ (IF opt.mode # Nothing THEN opt.mode ELSE pin_get(p).mode) # "op"
SetProgram(p, opt) ==
    (IF opt.drive # Nothing THEN Bit("outbit", p, opt.drive = "dh") ELSE <<>>)
    \o (IF opt.mode # Nothing THEN pin_set_mode(p, opt.mode) ELSE <<>>)
    \o (IF opt.pull # Nothing THEN pin_set_pull(p, opt.pull) ELSE <<>>)

(* The lines that Linux uses are read once, when the tool starts; without  *)
(* them it refuses every pin.                                              *)
ToolOpen ==
    /\ Quiet /\ tset.pc = "off"
    /\ \E cmd \in Commands :
          tset' = [pc |-> "next", cmd |-> cmd, nums |-> cmd.nums,
                   used |-> {p \in Pins : owner[p] # "free"}, pin |-> NoGpio,
                   clean |-> TRUE]
    /\ UNCHANGED <<registers, pads, core, call, task, tmp, service, tool, ttmp, history>>

(* The next number of the list: it is skipped, or its program starts.  The *)
(* set is clean while no driver call changes the same pin.                 *)
do_gpio_set ==
    /\ Quiet /\ tset.pc = "next" /\ tset.nums # {}
    /\ LET n == CHOOSE m \in tset.nums : \A k \in tset.nums : m <= k
           p == num_to_gpio(n, tset.cmd.header)
           opt == tset.cmd.opt
           skip == \/ p = NoGpio \/ set_refusal(p) \/ NotAnOutput(p, opt)
                   \/ SetProgram(p, opt) = <<>>
       IN IF skip
          THEN tset' = [tset EXCEPT !.nums = @ \ {n}] /\ UNCHANGED tool
          ELSE /\ tset' = [tset EXCEPT !.nums = @ \ {n}, !.pc = "set", !.pin = p,
                                        !.clean = task = <<>> \/ call.pin # p]
               /\ tool' = SetProgram(p, opt)
    /\ UNCHANGED <<registers, pads, core, call, task, tmp, service, ttmp, history>>

ToolStep ==
    /\ Quiet /\ tool # <<>>
    /\ Access(Head(tool), ttmp) /\ ttmp' = Latch(Head(tool))
    /\ tool' = Tail(tool)
    /\ call' = IF call.pin = tset.pin THEN [call EXCEPT !.clean = FALSE] ELSE call
    /\ UNCHANGED <<core, task, tmp, service, tset, raced, fresh, event>>

ToolDone ==
    /\ Quiet /\ tool = <<>>
    /\ tset.pc = "set" \/ (tset.pc = "next" /\ tset.nums = {})
    /\ tset' = IF tset.pc = "set" THEN [tset EXCEPT !.pc = "next"]
               ELSE [ToolOff EXCEPT !.pc = "end"]
    /\ UNCHANGED <<registers, pads, core, call, task, tmp, service, tool, ttmp, history>>

-----------------------------------------------------------------------------
(* esp32s31_pinctrl_probe and esp32s31_irq_init leave no enabled line; the *)
(* pads start with their IO MUX function 0.                                *)
esp32s31_irq_init ==
    [w \in Words |->
        CASE w[1] = "iomux" -> [wpu |-> FALSE, wpd |-> FALSE, ie |-> w[2] \in Held,
                                drv |-> 2, func |-> IF w[2] \in Held THEN 1 ELSE 0]
          [] w[1] = "pin" -> [od |-> FALSE, type |-> Nothing, ena |-> FALSE]
          [] OTHER -> [gmac |-> FALSE, sdhost |-> FALSE]]

PinInit ==
    /\ regs = esp32s31_irq_init /\ meant = regs
    /\ out = {} /\ oe = {} /\ status = {} /\ level = {}
    /\ outSel = [p \in Pins |-> GpioOut] /\ inSel = [s \in Sigs |-> IoMux]
    /\ owner = [p \in Pins |-> IF p \in Held THEN "gpio" ELSE "free"] /\ irqOn = {}
    /\ task = <<>> /\ tmp = 0 /\ todo = {} /\ chained = <<>> /\ htmp = 0 /\ tool = <<>> /\ ttmp = 0
    /\ call = NoCall
    /\ tset = ToolOff
    /\ calls = 0 /\ edges = 0 /\ raced = {} /\ fresh = {}
    /\ latched = [p \in Pins |-> Nothing] /\ event = [p \in Pins |-> <<Nothing, Nothing>>]

PinNext ==
    \/ \E p \in Pins : \/ RequestGpio(p) \/ FreePin(p) \/ FreeIrq(p) \/ PadChange(p)
                       \/ \E c \in Cells : SetMux(p, c)
                       \/ \E high \in BOOLEAN : UseGpio(p, high)
                       \/ \E c \in Configs : Configure(p, c)
                       \/ \E t \in IrqTypes : RequestIrq(p, t) \/ ChangeType(p, t)
    \/ TaskStep \/ (\E b \in 0 .. 1 : TakeInterrupt(b)) \/ esp32s31_gpio_irq_handler
    \/ HandlerStep
    \/ ToolOpen \/ do_gpio_set \/ ToolStep \/ ToolDone

-----------------------------------------------------------------------------
(* No change of a register field is lost: every word is what its writers   *)
(* together meant, whoever is interrupted in the middle of a change.  The  *)
(* one exception is the race the help of the tool warns of, a driver write *)
(* between the read and the write of the tool (esp32s31_iomux_rmw,         *)
(* esp32s31_pin_rmw, iomux_update, cnnt_select).                           *)
ChangesKept == \A w \in Words \ raced : regs[w] = meant[w]

(* After an edge on a pin with an enabled interrupt, a run of the handler  *)
(* of its consumer is still to come: the status stays latched until then,  *)
(* also for an edge while the handler of this or of another pin of the     *)
(* bank runs.  The status is one bit: edges that come before that run are  *)
(* one event (esp32s31_irq_ack, esp32s31_gpio_irq_handler).                *)
NoEdgeLost ==
    \A p \in fresh \cap irqOn :
        regs[<<"pin", p>>].ena =>
            \/ p \in status
            \/ \E i \in DOMAIN chained : chained[i].do = "event" /\ chained[i].pin = p

(* "An edge of the old type must not come as an event of the new one": an  *)
(* event is for an edge that latched under the type in force, also when a  *)
(* pad changes while the type does (esp32s31_irq_set_type).                *)
EventsMatchType == \A p \in Pins : event[p][1] = event[p][2]

(* A consumer of a pin's interrupt is called after each edge of the type   *)
(* it asked for, once for several that come together, and never for an     *)
(* edge of another type.  An edge between the write of the type and the    *)
(* acknowledge may be dropped: esp32s31_irq_set_type clears the status     *)
(* after it (esp32s31_irq_ack, esp32s31_gpio_irq_handler).                 *)
EdgesReachConsumer == NoEdgeLost /\ EventsMatchType

Drives(p) == regs[<<"iomux", p>>].func = 1 /\ outSel[p] = GpioOut /\ p \in oe

(* A pad that a GPIO user has does not start to drive a level nobody asked *)
(* for: it starts in a direction_output call, or in a set of the tool, at  *)
(* the level of that call, whatever the last user left in the registers    *)
(* (esp32s31_gpio_request_enable, esp32s31_gpio_direction_output,          *)
(* do_gpio_set).                                                           *)
PadsStartRight ==
    [][\A p \in Pins : owner[p] = "gpio" /\ ~Drives(p) /\ Drives(p)' =>
          /\ task' # task /\ call.clean =>
                call.op = "output" /\ call.pin = p /\ (p \in out) = call.val
          /\ tool' # tool /\ tset.clean =>
                /\ tset.pin = p
                /\ tset.cmd.opt.drive # Nothing =>
                      (p \in out) = (tset.cmd.opt.drive = "dh")
      ]_pinVars

(* What "set" has written, "get" shows: the mode, the pull and the level,  *)
(* when no driver call changed the pin meanwhile; "mx" for a pin that a    *)
(* peripheral input still reads (pin_set_mode, pin_get).  Function 1 is    *)
(* the GPIO matrix (the help of the tool): after "a1" the pin is shown as  *)
(* what the matrix makes of it, so no mode is expected.                    *)
SetIsShown ==
    (tset.pc = "set" /\ tool = <<>> /\ tset.clean
     /\ <<"iomux", tset.pin>> \notin raced) =>
        LET st == pin_get(tset.pin)
            opt == tset.cmd.opt
        IN /\ opt.mode \notin {Nothing, "a1"} =>
                 \/ st.mode = opt.mode
                 \/ st.mode = "mx" /\ \E s \in Sigs : inSel[s] = tset.pin
           /\ opt.pull # Nothing => /\ st.wpu = (opt.pull = "up")
                                    /\ st.wpd = (opt.pull = "down")
           /\ opt.drive # Nothing => st.out = (opt.drive = "dh")
=============================================================================
