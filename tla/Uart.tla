-------------------------------- MODULE Uart --------------------------------
(***************************************************************************)
(* The serial driver (linux/drivers/tty/serial/esp32_uart.c): one port     *)
(* with the tty above it, the kernel console beside it and the UART below. *)
(*                                                                         *)
(* Linux has one hart: an operation under the port lock, which turns       *)
(* interrupts off, and the handler never run at the same time; the UART    *)
(* goes on between the steps of both.  The tty core (uart_port_tx_limited, *)
(* uart_get_baud_rate, the write buffer) and the UART itself are external, *)
(* modelled as the driver uses them: TXFIFO_EMPTY holds for as long as the *)
(* FIFO is empty, RXFIFO_FULL and RXFIFO_TOUT for as long as bytes wait.   *)
(***************************************************************************)
EXTENDS Naturals, Sequences, FiniteSets, SequencesExt

CONSTANTS
    TX_FIFO_SIZE,     \* ESP32_UART_TX_FIFO_SIZE (127)
    RxFifoSize,       \* the RX FIFO of the UART (128)
    UartClk,          \* port->uartclk in Hz (40 MHz)
    Bauds,            \* the rates a user asks for; 0 is B0
    MaxBytes,         \* bound: bytes the tty writes
    MaxConsole,       \* bound: console messages
    MaxRx             \* bound: bytes that arrive

ASSUME UartAssumption == TX_FIFO_SIZE \in Nat

VARIABLES
    up, users,        \* the port is started; the enable count of sport->clk
    xmit, xchar,      \* the tty's write buffer, and port->x_char is pending
    txfifo,           \* the TX FIFO
    written, lost,    \* tty bytes written, and dropped by a close
    stopped,          \* the tty stopped the output
    wire,             \* ghost: what left the TX FIFO
    rxfifo, brk,      \* the RX FIFO and the latched BRK_DET
    sysrq,            \* port->sysrq: the byte after a break is for sysrq
    arrived, taken,   \* ghost: what came in, and what each byte read became
    intEna,           \* INT_ENA
    isr, intSt,       \* the part of the handler to run next, and its INT_ST
    rxLeft,           \* the bytes of rx_fifo_cnt it still has to read
    con, messages,    \* console characters left to put, console messages so far
    line              \* the rate set_termios reports and the divider it latched

port == <<up, users>>
tx == <<xmit, xchar, txfifo>>
output == <<written, lost, stopped>>
recv == <<rxfifo, brk, sysrq, arrived, taken>>
irq == <<isr, intSt, rxLeft>>
console == <<con, messages>>
uartVars == <<port, tx, output, wire, recv, intEna, irq, console, line>>

RX_INTS == {"FULL", "TOUT", "BRK"}

-----------------------------------------------------------------------------
(* The divider.                                                            *)

DIV16_MIN == 16 * 8
DIV16_MAX == 16 * 4095 + 15
MinBaud == (UartClk * 16 + DIV16_MAX - 1) \div DIV16_MAX
MaxBaud == (UartClk * 16) \div DIV16_MIN

(* uart_get_baud_rate (external): a rate out of range becomes the nearest  *)
(* one inside it; B0 returns 0, as 9600 baud is out of range.              *)
GetBaudRate(b) ==
    IF b = 0 \/ (b >= MinBaud /\ b <= MaxBaud) THEN b
    ELSE IF b < MinBaud THEN MinBaud + 1 ELSE MaxBaud - 1

Div16(b) == (UartClk * 16 + b \div 2) \div b

esp32_uart_set_baud(b) ==
    b # 0 /\ Div16(b) >= DIV16_MIN /\ Div16(b) <= DIV16_MAX

(* The clock divider that set_termios writes and the rate it reports.      *)
SetTermiosBaud(b) ==
    LET baud == GetBaudRate(b)
        used == IF ~esp32_uart_set_baud(baud) /\ esp32_uart_set_baud(115200)
                THEN 115200 ELSE baud
    IN [baud |-> used, div |-> Div16(used) \div 16, frag |-> Div16(used) % 16]

(* Of the rate b that a tty asks for, set_termios latches a divider that   *)
(* fits its fields and is the nearest to the rate it reports: every rate   *)
(* of the range given to uart_get_baud_rate is accepted.                   *)
RateIsNearest(b) ==
    LET l == SetTermiosBaud(b)
        d == 16 * l.div + l.frag
        gap == IF d * l.baud > UartClk * 16 THEN d * l.baud - UartClk * 16
               ELSE UartClk * 16 - d * l.baud
    IN /\ l.div \in 8 .. 4095 /\ l.frag \in 0 .. 15
       /\ 2 * gap <= l.baud
       /\ l.baud \in MinBaud .. MaxBaud

-----------------------------------------------------------------------------
(* Sending.                                                                *)

Idle == isr = "none" /\ con = 0   \* the hart is free for an operation

(* What the FIFO takes: the x_char first, then the buffer unless it is     *)
(* stopped, up to the room of the FIFO (uart_port_tx_limited).  An empty   *)
(* buffer stops the interrupt (stop_tx), bytes left over enable it.        *)
TransmitBuffer(x, buffer, halt, on) ==
    LET room  == TX_FIFO_SIZE - Len(txfifo)
        first == IF x /\ room > 0 THEN << <<"x">> >> ELSE <<>>
        n     == IF halt THEN 0
                 ELSE IF Len(buffer) < room - Len(first) THEN Len(buffer)
                 ELSE room - Len(first)
    IN [txfifo   |-> txfifo \o first \o SubSeq(buffer, 1, n),
        xchar |-> x /\ first = <<>>,
        xmit  |-> SubSeq(buffer, n + 1, Len(buffer)),
        intEna   |-> IF n = Len(buffer) THEN on \ {"TX"} ELSE on \cup {"TX"}]

esp32_uart_transmit_buffer(x, buffer, halt) ==
    IF Len(txfifo) >= TX_FIFO_SIZE
    THEN /\ xchar' = x /\ xmit' = buffer /\ UNCHANGED <<txfifo, intEna>>
    ELSE LET t == TransmitBuffer(x, buffer, halt, intEna)
         IN txfifo' = t.txfifo /\ xchar' = t.xchar /\ xmit' = t.xmit /\ intEna' = t.intEna

(* The tty writes n bytes; the core starts the output unless it is stopped.*)
WriteBytes(n) ==
    /\ Idle /\ up /\ written + n <= MaxBytes
    /\ written' = written + n
    /\ LET buffer == xmit \o [i \in 1 .. n |-> <<"tty", written + i>>]
       IN IF stopped THEN xmit' = buffer /\ UNCHANGED <<xchar, txfifo, intEna>>
          ELSE esp32_uart_transmit_buffer(xchar, buffer, FALSE)
    /\ UNCHANGED <<port, lost, stopped, wire, recv, irq, console, line>>

StopOutput ==   \* uart_stop, through esp32_uart_stop_tx
    /\ Idle /\ up /\ ~stopped
    /\ stopped' = TRUE /\ intEna' = intEna \ {"TX"}
    /\ UNCHANGED <<port, tx, written, lost, wire, recv, irq, console, line>>

StartOutput ==  \* uart_start
    /\ Idle /\ up /\ stopped
    /\ stopped' = FALSE
    /\ esp32_uart_transmit_buffer(xchar, xmit, FALSE)
    /\ UNCHANGED <<port, written, lost, wire, recv, irq, console, line>>

(* uart_send_xchar: a stopped output does not hold it back.  Bound: one.   *)
SendXchar ==
    /\ Idle /\ up /\ ~xchar /\ <<"x">> \notin ToSet(txfifo \o wire)
    /\ esp32_uart_transmit_buffer(TRUE, xmit, stopped)
    /\ UNCHANGED <<port, output, wire, recv, irq, console, line>>

(* The console keeps the lock, with interrupts off, and waits for room     *)
(* before each character; a FIFO that stays full for a second drops the    *)
(* character.  While port->sysrq is set it writes without the lock: that   *)
(* lets handle_sysrq() print from inside the handler, which holds it.      *)
(* Elsewhere printk (external) has interrupts off around the write too, so *)
(* that with one hart the lock that is not taken makes no difference.  The *)
(* trylock during an oops is left out.                                     *)
ConsoleWrite ==
    /\ con = 0 /\ isr \in {"none", "sysrq"}
    /\ isr = "sysrq" => sysrq
    /\ users > (IF up THEN 1 ELSE 0) /\ messages < MaxConsole
    /\ messages' = messages + 1 /\ con' = 2
    /\ UNCHANGED <<port, tx, output, wire, recv, intEna, irq, line>>

\* Mutant: the console does not wait for room in the FIFO.
esp32_uart_put_char_sync_NoWait ==
    /\ con > 0 /\ con' = con - 1
    /\ txfifo' = Append(txfifo, <<"con", messages>>)
    /\ UNCHANGED <<port, xmit, xchar, output, wire, recv, intEna, irq, messages, line>>

esp32_uart_put_char_sync ==
    /\ con > 0 /\ con' = con - 1
    /\ \/ Len(txfifo) < TX_FIFO_SIZE /\ txfifo' = Append(txfifo, <<"con", messages>>)
       \/ Len(txfifo) >= TX_FIFO_SIZE /\ UNCHANGED txfifo    \* the timeout
    /\ UNCHANGED <<port, xmit, xchar, output, wire, recv, intEna, irq, messages, line>>

-----------------------------------------------------------------------------
(* The handler: status, receive, transmit, clear.                          *)

IntSt ==
    intEna \cap ((IF rxfifo = <<>> THEN {} ELSE {"FULL", "TOUT"})
              \cup (IF brk THEN {"BRK"} ELSE {})
              \cup (IF txfifo = <<>> THEN {"TX"} ELSE {}))

IntEnter ==
    /\ Idle /\ up /\ IntSt # {}
    /\ intSt' = IntSt /\ isr' = "rx"
    /\ UNCHANGED <<port, tx, output, wire, recv, intEna, rxLeft, console,
                   line>>

(* rx_fifo_cnt: the bytes this turn reads.                                 *)
RxCount ==
    /\ isr = "rx"
    /\ IF intSt \cap RX_INTS # {} /\ rxfifo # <<>>
       THEN isr' = "byte" /\ rxLeft' = Len(rxfifo)
       ELSE isr' = "tx" /\ UNCHANGED rxLeft
    /\ UNCHANGED <<port, tx, output, wire, recv, intEna, intSt, console, line>>

(* A byte leaves the FIFO and becomes what it is taken for.                *)
TakeByte(as) ==
    /\ isr = "byte"
    /\ rxfifo' = Tail(rxfifo) /\ rxLeft' = rxLeft - 1
    /\ taken' = Append(taken, as)
    /\ UNCHANGED <<port, tx, output, wire, arrived, intEna, intSt, console,
                   line>>

NextByte == isr' = IF rxLeft = 1 THEN "tx" ELSE "byte"

IsBreak == Head(rxfifo) = "nul" /\ brk

(* A NUL read while BRK_DET shows is a break, and clears the bit.  On the  *)
(* port of the console, uart_handle_break (external) arms sysrq, or        *)
(* disarms it.                                                             *)
RxBreak ==
    /\ TakeByte("brk") /\ NextByte
    /\ IsBreak
    /\ brk' = FALSE /\ sysrq' \in (IF sysrq THEN {FALSE} ELSE BOOLEAN)

(* The tty gets the byte: sysrq is not armed, or uart_handle_sysrq_char    *)
(* (external) disarms it at a NUL or five seconds after the break.         *)
RxChar ==
    /\ TakeByte(Head(rxfifo)) /\ NextByte
    /\ ~IsBreak
    /\ sysrq' = FALSE /\ UNCHANGED brk

(* handle_sysrq() gets the byte, and may print; port->sysrq is cleared     *)
(* after it.                                                               *)
RxSysrq ==
    /\ TakeByte("sysrq") /\ isr' = "sysrq"
    /\ sysrq /\ Head(rxfifo) # "nul"
    /\ UNCHANGED <<sysrq, brk>>

SysrqDone ==
    /\ isr = "sysrq" /\ con = 0
    /\ isr' = (IF rxLeft = 0 THEN "tx" ELSE "byte") /\ sysrq' = FALSE
    /\ UNCHANGED <<port, tx, output, wire, rxfifo, brk, arrived, taken, intEna,
                   intSt, rxLeft, console, line>>

esp32_uart_rxint == RxCount \/ RxBreak \/ RxChar \/ RxSysrq \/ SysrqDone

IntTx ==
    /\ isr = "tx" /\ isr' = "clear"
    /\ IF "TX" \in intSt THEN esp32_uart_transmit_buffer(xchar, xmit, stopped)
       ELSE UNCHANGED <<tx, intEna>>
    /\ UNCHANGED <<port, output, wire, recv, intSt, rxLeft, console, line>>

IntClear ==
    /\ isr = "clear" /\ isr' = "none"
    /\ brk' = (brk /\ "BRK" \notin intSt) /\ intSt' = {}
    /\ UNCHANGED <<port, tx, output, wire, rxfifo, sysrq, arrived, taken, intEna,
                   rxLeft, console, line>>

-----------------------------------------------------------------------------
(* Opening, closing and settings.                                          *)

esp32_uart_startup ==
    /\ Idle /\ ~up
    /\ up' = TRUE /\ users' = users + 1
    /\ brk' = FALSE /\ intEna' = RX_INTS
    /\ UNCHANGED <<tx, output, wire, rxfifo, sysrq, arrived, taken, irq, console,
                   line>>

(* The core drops what is left to send.                                    *)
esp32_uart_shutdown ==
    /\ Idle /\ up
    /\ up' = FALSE /\ users' = users - 1 /\ intEna' = {}
    /\ xmit' = <<>> /\ xchar' = FALSE /\ lost' = lost \cup ToSet(xmit)
    /\ stopped' = FALSE
    /\ UNCHANGED <<txfifo, written, wire, recv, irq, console, line>>

esp32_uart_stop_rx ==
    /\ Idle /\ up /\ "FULL" \in intEna
    /\ intEna' = intEna \ {"FULL", "TOUT"}
    /\ UNCHANGED <<port, tx, output, wire, recv, irq, console, line>>

esp32_uart_set_termios(b) ==
    /\ Idle /\ up
    /\ line' = SetTermiosBaud(b)
    /\ UNCHANGED <<port, tx, output, wire, recv, intEna, irq, console>>

(* The console holds the clock from its setup on.                          *)
esp32_uart_console_setup ==
    /\ Idle /\ ~up /\ users = 0
    /\ users' = 1
    /\ line' = SetTermiosBaud(115200)
    /\ UNCHANGED <<up, tx, output, wire, recv, intEna, irq, console>>

esp32_uart_console_exit ==
    /\ Idle /\ ~up /\ users = 1
    /\ users' = 0
    /\ UNCHANGED <<up, tx, output, wire, recv, intEna, irq, console, line>>

-----------------------------------------------------------------------------
(* The UART (external).                                                    *)

SendByte ==
    /\ txfifo # <<>>
    /\ wire' = Append(wire, Head(txfifo)) /\ txfifo' = Tail(txfifo)
    /\ UNCHANGED <<port, xmit, xchar, output, recv, intEna, irq, console, line>>

(* A byte, NUL or not, or a break: a NUL with BRK_DET.  A full FIFO drops  *)
(* it.                                                                     *)
ReceiveByte(v) ==
    /\ Len(arrived) < MaxRx /\ Len(rxfifo) < RxFifoSize
    /\ arrived' = Append(arrived, v)
    /\ rxfifo' = Append(rxfifo, IF v = "brk" THEN "nul" ELSE v)
    /\ brk' = (brk \/ v = "brk")
    /\ UNCHANGED <<port, tx, output, wire, sysrq, taken, intEna, irq, console,
                   line>>

UartInit ==
    /\ up = FALSE /\ users = 0 /\ xmit = <<>> /\ xchar = FALSE /\ txfifo = <<>>
    /\ written = 0 /\ lost = {} /\ stopped = FALSE /\ wire = <<>>
    /\ rxfifo = <<>> /\ brk = FALSE /\ sysrq = FALSE /\ arrived = <<>> /\ taken = <<>>
    /\ intEna = {} /\ isr = "none" /\ intSt = {} /\ rxLeft = 0 /\ con = 0 /\ messages = 0
    /\ line = SetTermiosBaud(115200)

Operations ==
    \/ \E n \in 1 .. MaxBytes : WriteBytes(n)
    \/ StopOutput \/ StartOutput \/ SendXchar \/ ConsoleWrite
    \/ esp32_uart_startup \/ esp32_uart_shutdown \/ esp32_uart_stop_rx
    \/ \E b \in Bauds : esp32_uart_set_termios(b)
    \/ esp32_uart_console_setup \/ esp32_uart_console_exit

Handler == IntEnter \/ esp32_uart_rxint \/ IntTx \/ IntClear

UartNext ==
    \/ Operations \/ esp32_uart_put_char_sync \/ Handler
    \/ SendByte \/ \E v \in {"nul", "byte", "brk"} : ReceiveByte(v)

(* The handler runs when its interrupt is pending, a console writer goes   *)
(* on, and the UART sends what is in its FIFO.                             *)
UartFairness ==
    /\ WF_uartVars(Handler)
    /\ WF_uartVars(esp32_uart_put_char_sync)
    /\ WF_uartVars(SendByte)

-----------------------------------------------------------------------------
(* The tty's bytes of a sequence, and that they are in the order written.  *)
TtyAt(s) == {i \in DOMAIN s : s[i][1] = "tty"}
TtyBytes(s) == {s[i] : i \in TtyAt(s)}
Ordered(s) == \A i, j \in TtyAt(s) : i < j => s[i][2] < s[j][2]

(* Whatever interleaving of writes, console messages, stops and interrupts *)
(* fills the FIFO, it never overflows, and the tty's bytes go out once     *)
(* each, in the order they were written, except those a close dropped      *)
(* (esp32_uart_transmit_buffer, esp32_uart_put_char_sync).                 *)
TxInOrder ==
    /\ Len(txfifo) <= TX_FIFO_SIZE
    /\ Ordered(wire \o txfifo \o xmit)
    /\ TtyBytes(wire \o txfifo \o xmit) = {<<"tty", i>> : i \in 1 .. written} \ lost

Plain(v) == IF v = "brk" THEN "nul" ELSE v
Breaks(s) == {i \in DOMAIN s : s[i] = "brk"}

(* Each received byte is taken once and in order: the tty gets it, or it   *)
(* is a break, or sysrq gets it.  Sysrq gets a byte only directly behind a *)
(* break, so never two in a row.  A NUL and a break beside each other may  *)
(* be taken for each other, but no more breaks are taken than came,        *)
(* whenever the flag is set and cleared around the handler                 *)
(* (esp32_uart_rxint, the INT_CLR at the end of esp32_uart_int).           *)
RxInOrder ==
    /\ Len(arrived) = Len(taken) + Len(rxfifo)
    /\ \A i \in DOMAIN taken :
          IF taken[i] = "sysrq"
          THEN arrived[i] = "byte" /\ i > 1 /\ taken[i - 1] = "brk"
          ELSE Plain(taken[i]) = Plain(arrived[i])
    /\ \A i \in DOMAIN rxfifo : rxfifo[i] = Plain(arrived[Len(taken) + i])
    /\ Cardinality(Breaks(taken)) <= Cardinality(Breaks(arrived))

(* Nothing is lost, doubled or reordered on the way through the port, in   *)
(* either direction, by any interleaving of the tty, the console and the   *)
(* interrupt (esp32_uart_int with what it calls).                          *)
BytesInOrder == TxInOrder /\ RxInOrder

=============================================================================
