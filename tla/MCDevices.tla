----------------------------- MODULE MCDevices -----------------------------
(***************************************************************************)
(* The drivers and tools that share no state: a behaviour is one of one of *)
(* them (part), so that the run explores each on its own.                  *)
(***************************************************************************)
EXTENDS I2cMaster, Uart, ThreadRelay, Pins

VARIABLE part

(* Rates at and around the ends of the range, of terminals, and the hang-up*)
(* B0.                                                                     *)
Rates == {0, 300, 9600, 9766, 9767, 9768, 19200, 115200, 460800, 921600, 1000000,
          1500000, 3333333, 4999999, 5000000, 5000001}
ASSUME EachRate == \A b \in Rates : RateIsNearest(b)

Msg(rd, len) == [rd |-> rd, len |-> len, ten |-> FALSE]
Msgs == {Msg(rd, len) : rd \in BOOLEAN, len \in {0, 1, 3, 4}}
MCTransfers ==
    {<<a, b>> : a, b \in Msgs}
    \cup {<<a, b, c>> : a \in Msgs, b \in {Msg(TRUE, 2), Msg(FALSE, 0)}, c \in Msgs}
    \cup {<<[Msg(TRUE, 1) EXCEPT !.ten = TRUE]>>}
MCAgain == {<<Msg(FALSE, 1), Msg(TRUE, 4)>>, <<Msg(FALSE, 4)>>}

MCCells == {[func |-> 2, sig |-> 68, in |-> FALSE, out |-> FALSE],
            [func |-> 1, sig |-> 68, in |-> TRUE, out |-> TRUE]}
MCConfigs == {[param |-> "drain", arg |-> TRUE]}
Cmd(nums, header, force, lines, mode, drive, pull) ==
    [nums |-> nums, header |-> header, force |-> force, lines |-> lines,
     opt |-> [mode |-> mode, drive |-> drive, pull |-> pull]]
MCCommands == {Cmd({13, 26}, "none", FALSE, TRUE, "a2", "none", "up"),
               Cmd({18, 19}, "wroom3", TRUE, TRUE, "op", "dh", "down")}
MCReserved == 0 .. 61 \ Pins

Init == /\ part \in {"i2c", "uart", "relay", "pins"}
        /\ I2cInit /\ UartInit /\ RelayInit /\ PinInit

Asked == IF xfers = 0 THEN Transfers ELSE Again

(* Bound: MaxEdges changes of the pads, but one fewer beside the tool.     *)
EdgesBound == tset.pc # "off" => edges < MaxEdges - 1
ToolBound == edges < MaxEdges

I2c(A) == part = "i2c" /\ A /\ UNCHANGED <<part, uartVars, relayVars, pinVars>>
Serial(A) == part = "uart" /\ A /\ UNCHANGED <<part, i2cVars, relayVars, pinVars>>
Relay(A) == part = "relay" /\ A /\ UNCHANGED <<part, i2cVars, uartVars, pinVars>>
Pin(A) == part = "pins" /\ A /\ UNCHANGED <<part, i2cVars, uartVars, relayVars>>

(* I2cNext, UartNext, RelayNext and PinNext, each action as a disjunct of  *)
(* its own so that TLC counts how often it is taken.                       *)
Next ==
    \/ I2c(\E ms \in Asked : XferRefused(ms)) \/ I2c(\E ms \in Asked : XferStart(ms))
    \/ I2c(WaitDone) \/ I2c(WaitTimeout) \/ I2c(SynchronizeIrq) \/ I2c(XferReturn)
    \/ I2c(IrqEnter) \/ I2c(IrqNextList) \/ I2c(IrqComplete)
    \/ I2c(RunCommand) \/ I2c(Nack) \/ I2c(BusFault)
    \/ \E n \in 1 .. MaxBytes : Serial(WriteBytes(n))
    \/ Serial(StopOutput) \/ Serial(StartOutput) \/ Serial(SendXchar)
    \/ Serial(ConsoleWrite) \/ Serial(esp32_uart_put_char_sync)
    \/ Serial(esp32_uart_startup) \/ Serial(esp32_uart_shutdown)
    \/ Serial(esp32_uart_stop_rx) \/ Serial(esp32_uart_console_setup)
    \/ Serial(esp32_uart_console_exit)
    \/ \E b \in Bauds : Serial(esp32_uart_set_termios(b))
    \/ Serial(IntEnter) \/ Serial(RxCount) \/ Serial(RxBreak) \/ Serial(RxChar)
    \/ Serial(RxSysrq) \/ Serial(SysrqDone) \/ Serial(IntTx) \/ Serial(IntClear)
    \/ Serial(SendByte) \/ \E v \in {"nul", "byte", "brk"} : Serial(ReceiveByte(v))
    \/ Relay(OpenDevice) \/ Relay(Poll) \/ Relay(PollError) \/ Relay(ServeListener) \/ Relay(ServeDevice)
    \/ Relay(ServeClient) \/ Relay(Frame) \/ Relay(FailDevice)
    \/ \E c \in Clients : Relay(Connect(c)) \/ Relay(Send(c)) \/ Relay(Leave(c))
    \/ \E p \in Pins : \/ Pin(RequestGpio(p)) \/ Pin(FreePin(p)) \/ Pin(FreeIrq(p))
                       \/ Pin(EdgesBound /\ PadChange(p)) \/ \E c \in Cells : Pin(SetMux(p, c))
                       \/ \E high \in BOOLEAN : Pin(UseGpio(p, high))
                       \/ \E c \in Configs : Pin(Configure(p, c))
                       \/ \E t \in IrqTypes : Pin(RequestIrq(p, t))
                       \/ \E t \in IrqTypes : Pin(ChangeType(p, t))
    \/ Pin(TaskStep) \/ (\E b \in 0 .. 1 : Pin(TakeInterrupt(b)))
    \/ Pin(esp32s31_gpio_irq_handler) \/ Pin(HandlerStep)
    \/ Pin(ToolBound /\ ToolOpen) \/ Pin(do_gpio_set) \/ Pin(ToolStep) \/ Pin(ToolDone)

Spec == Init /\ [][Next]_<<part, i2cVars, uartVars, relayVars, pinVars>>
=============================================================================
