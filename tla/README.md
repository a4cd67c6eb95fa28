# Verification of esp32-s31-linux

TLA+ models, TLC configurations and TLAPS proofs for the parts of this
repository where two harts, an interrupt and a task, a driver and a device or a
program and its peers work on the same state.

The chip has two harts.  Hart 0 runs the loader, which stays resident as the
ESP-Hosted firmware (FreeRTOS) with the radios.  Hart 1 runs OpenSBI and a
uniprocessor Linux.  They share a block of SRAM
(`src/shared/esp32s31-hosted-shm.h`), two doorbell registers, the flash and one
cache sync engine.  Linux has drivers of its own for the interrupt controller,
I2C, UART and pins, and the user programs `ble-ha`, `thread-relay` and `pinctrl`.

## Inventory

| Component | State | Operations | Interaction | What makes it correct |
|---|---|---|---|---|
| Transport, Linux side (`esp_shm.c`) | tx queue, paused, quiesced, tx_work, head of one ring, tail of the other | write, flush, push, irq, read, quiesce, reinit, replay request, probe, remove | net stack calls write; irq schedules the receive work and tx_work; rings and doorbells to hart 0 | frames whole, in order, at most once; none left behind; stopped queues wake |
| Transport, firmware side (`shm_slave_api.c`) | tail and head of the rings, two semaphores, boot capabilities | ring_push, shm_write, shm_read, doorbell isr, host requests | send task and receive task; doorbells to hart 1 | the same; the send task never hangs on Linux; requests are served |
| Flash mailbox (`esp_shm_flash.c`, `shm_flash.c`) | one command slot, mutex, wait queue, flash task | read, write, erase, command, service, wake | doorbell, receive task, flash task and back | a request is stable while it runs; reported progress is real; no command waits for nothing |
| Cache sync engine (`platform.c`, `shm_flash.c`, `esp32s31-cache.c`) | lock word, engine registers, interrupt mask | vendor extension, DMA syncs, wrapped ROM syncs, handoff | OpenSBI and firmware tasks on two harts | one master at a time; the range asked for; never the memory of OpenSBI |
| OpenSBI platform (`platform.c`) | MTIMECMP, CLIC registers, request word | timer event, timer value, trap, power-off, reset | SBI calls of Linux, CLIC inputs | a timer event is neither lost nor early; a power-off arrives |
| CLIC driver (`irq-esp32s31-clic.c`) | source to line map, enables, irq_work input | map, mask, handle, irq_work | Linux irq core, OpenSBI | queued work runs; a handled input is not lost |
| ble-ha: Improv (`ble-ha.c`) | advertising, connection, ACL credits, provisioning state, deadlines | HCI events, RPC writes, join, timers, exit | HCI socket, wpa_supplicant | credits come back, commands of one client, advertising follows the state, no unproven network stays |
| ble-ha: GATT server (`gatt.c`) | MTU, CCCDs, prepared writes | ATT requests | the adapter part sends its answers | a client that follows the procedures gets the whole database, whole values and its own packet |
| ble-ha: ESPHome API (`api.c`, `hci.c`, `ble-ha.c`) | client slots with their buffers, subscriptions, scan, batch | accept, read, frames, subscribe, reports, flush | TCP clients, adapter | every message answered once and on its own connection, batches fit |
| thread-relay | one client, two descriptors, the poll snapshot | poll loop, accept, both directions, reopen | radio tty, TCP | never blocks; an event of an old client is not applied to a new one |
| I2C driver (`i2c-esp32s31.c`) | cursor over the messages, command list, completion, error | transfer, list after list, interrupt, timeout | i2c core, controller | the bus carries the messages; nothing is written to a buffer after the return |
| UART driver (`esp32_uart.c`) | FIFO levels, interrupt enables, break flag, sysrq, divider | start_tx, handler, startup, shutdown, console, termios | tty core, kernel console | bytes in order in both directions; the buffer drains |
| Pins (`pinctrl-esp32s31.c`, `tools/pinctrl`) | pad and matrix registers, edge status, interrupt types | mux, GPIO, configuration, interrupt set-up, chained handler, `pinctrl set` and `get` | pin core, irq core, gpiomem | no change to a register word is lost, the handler runs after each edge, no glitch on a pad that becomes an output |
| WS2812 driver, clock driver, USB PHY, Ethernet glue, eFuse | tables, one lock | register sequences | | |
| Loader (`bootloader/main`) | boot steps | load, start hart 1 | cache engine | order of the handoff |
| Radio coexistence, root file system, scripts, patches, build | configuration | | | |

Hard to test: every choice that leaves a doorbell out; the wait flag against
freed space; counters at the wrap and rings that are exactly full; a session
reset in the middle of a flush; a command that is answered after its timeout;
the engine between the stores of the two harts; a compare value between its two
halves; a client that connects or goes while ble-ha waits for the answer of a
command; a TCP message that comes in pieces; an event of a poll snapshot whose
descriptor has changed; a break that arms sysrq in the middle of a burst; the last list of an I2C transfer against its timeout; a
register word that a task, a handler and a tool change.  `PROJECT.json` lists
these under `hazards`, each at its line.

## Modules

| Module | Models |
|---|---|
| `ShmLayout` | one byte ring: counters, record lengths, the two copies, the length check |
| `FrameChannel` | abstract: frames come out whole, in order, once; a sender that has given up drops what it holds, a receiver without memory loses the oldest frame, nothing else is lost |
| `HostToFw`, `MCHostToFw` | Linux to firmware: write, queue, flush, irq, session reset, requests, `shm_read()` |
| `ShmLayoutProofs` | lemmas: counters, words, copies, the records in the ring |
| `HostToFwProofs` | theorems about `HostToFw` |
| `FwToHost`, `MCFwToHost` | firmware to Linux: `shm_write()`, bind, unbind, irq, receive work, `esp_shm_read()` |
| `FwToHostProofs` | theorems about `FwToHost` |
| `FlashMailbox`, `MCFlashMailbox` | MTD calls, mailbox, timeout, receive task, flash task, the flash itself |
| `FlashMailboxProofs` | theorems about `FlashMailbox` |
| `CacheSync`, `MCCacheSync` | engine, lock word, OpenSBI, Linux cache driver, firmware tasks, handoff |
| `CacheSyncProofs` | theorems about `CacheSync` |
| `Interrupts`, `MCIrq` | machine timer and CLIC inputs of OpenSBI, the CLIC driver, irq_work |
| `BleHa`, `MCBleHa` | ble-ha: the loop, commands and the packets handled while they wait, connection, ACL credits, RPC writes, join, timers, exit |
| `Gatt` | ble-ha: the ATT server, and a client that runs the GATT procedures |
| `ApiProxy` | ble-ha: the ESPHome API and the proxy of advertisements |
| `BleHaProofs` | theorems about `BleHa`, `Gatt` and `ApiProxy` |
| `MCBle` | the three ble-ha modules for one run |
| `I2cMaster` | the I2C driver and its controller |
| `Uart`, `MCUart` | the UART driver, tty, console and UART |
| `ThreadRelay` | thread-relay |
| `SerialProofs` | theorems about `ThreadRelay`, `Uart` and `I2cMaster` |
| `Pins` | pin controller, GPIO and its interrupts, the pinctrl tool |
| `IrqProofs` | theorems about `Interrupts` and `Pins` |
| `MCDevices` | `I2cMaster`, `Uart`, `ThreadRelay` and `Pins` for one run |

`MCBle` and `MCDevices` put modules that share no state into one run: `part` is
chosen at the start and never changes, so a behaviour is one of one module and
each is explored to its own bounds; every action is a disjunct of its own there, so
that TLC's coverage counts it.  (`run()` of ble-ha serves the Improv part
and the proxy in one loop; what they have in common, a command of the adapter
that waits while packets come, is in `BleHa`, which lets the subscriptions of the
proxy change freely.)

### How the state and the actions correspond to the code

*Granularity.*  A step makes at most one access that another hart or an
interrupt handler can see (a load of an index, a store, a doorbell write); what
is local is folded into it.  `head`, `tail`, `wait`, `data` are the words of one
ring; `bellFw`, `bellHost` the doorbell registers; `txPc`, `rxPc`, `wrPc`,
`rdPc`, ... the place of a thread in its function.  The code has a fence between
every store and the load of the other side that matters (`mb()`, `wmb()`,
`shm_fence()`), and the block is uncached SRAM, so the steps are sequentially
consistent.  The models do not show that a fence could be left out.

*Linux* has one hart: a section under `spin_lock_bh()` is entered when no other
is (`LockFree`), and only the interrupt handler runs inside it.

*Firmware.*  A binary semaphore is a Boolean.  `xSemaphoreTake()` with a timeout
may return at any time.  `heap_caps_malloc()` and `netdev_alloc_skb()` may fail
at any time.  In `CacheSync` the tasks of hart 0 have priorities, because that
is what could deadlock; in the other modules each task does one thing.

*Ring memory.*  The ring is a function from its 32-bit words to pairs: a length
word or the k-th word of a named frame.  `ring_copy_in` writes them with the
wrap at the end of the ring, `ring_copy_out` reads them back and gives a frame
without a name when they are not the words of one frame.  The length check is
the code's.  `ring` is a history variable with the records between tail and
head; no guard reads it.

*Doorbells* are shared by both rings and the mailbox.  Each module has steps
that ring them for the other users (`OtherBellHost`, `OtherBellFw`,
`OtherBells`), at any time; no liveness property needs them.

*Flash.*  A byte is the set of users who programmed it since the last erase, so
that programs add up as on NOR flash.  The driver of the chip may fail at any
byte.

*Cache engine.*  A ROM sync before the handoff is one step: `app_main()` has the
lowest priority and does the handoff when no other task is in a sync.

*ble-ha.*  One thread; a step is what it does between two points where a packet
can come.  `pc` is the place in `run()`, `timers()` or `main()`; `"wait"` is the
loop of `hci_cmd()` with the command `op` and the place `ret` it returns to, so
`AfterCmd` is the code of `set_advertising()` and `set_scan()` between two
commands.  `evts` and `cmds` are the two directions of the HCI socket; `ctrlAdv`,
`links` and `held` the state of the controller, which the program sees only
through them.  A controller refuses advertising when all its links are in use
and reports no packets of a closed link, as the comment at `ble-ha.c:454` says.
An RPC write is one of `head`, `tail` (the parts of a Wi-Fi packet), `long` (a
packet that never fits), `identify` and `info`, with the link it came from.  A
deadline is a Boolean, due at any time after it is set; `check_at` is due at any
time.  Whether API clients are subscribed (`subs`) changes freely with `-p`.

*GATT.*  ATT has one request at a time, so a step is a request with its response.
The database is `db`, handle by handle.  Of a value only the length is kept, of
the RPC packet its bytes as `<<link, position>>`.  The client (`proc`) goes
through discovery, long reads and prepared writes as GATT prescribes, each cut by
the MTU, which may change between two requests, and by a client that goes.  A
request that is too short for its opcode is one request that is refused.

*Proxy.*  A turn of `run()` is in steps: scan, poll with its snapshot of events,
adapter, listener, each client with each of its messages, full batch, timers.
The stream of a client is bytes (frames of `api_frame()` and bad ones) that
arrive in pieces of any length.  Of the answers the type is kept; of
advertisements the sizes, since `BatchesFit` is about the encoded length.

*Interrupts.*  An M-mode function is a program of register accesses, one per step,
and time goes on between them.  M-mode runs it to the end, S-mode runs when it is
empty.  Input 7 latches the rising edge of the comparator, which is why the value
between two stores matters.  The timer layer of OpenSBI and the clock event layer
of Linux are external.

*I2C.*  A byte is named by what it is (address of message i, byte j of message i),
so `bus` can be compared with the messages.  The controller runs a list command
by command, holds the bus at END, and may answer with NACK, an arbitration loss or
its own timeout.  The handler is two steps, the decision and the store, and the
thread's timeout may be over at any time.

*UART.*  One hart, and the port lock turns interrupts off, so an operation and the
handler do not overlap; the UART shifts bytes between their steps, and the
handler is a step for each of its parts and for each byte it reads.  TXFIFO_EMPTY is
a level: it holds for as long as the FIFO is empty.  The port is the one of the
console, with `CONFIG_MAGIC_SYSRQ`: a break is not passed to the tty but may arm
sysrq (which breaks do is left open, as `uart_handle_break()` toggles it and only on
the port of the console), and `uart_handle_sysrq_char()` then takes the next byte
unless it is a NUL or five seconds late.  `handle_sysrq()` can print from inside the
handler, which holds the lock: `ConsoleWrite` runs without it there.  printk has
interrupts off around a console write, so that the write without the lock outside
the handler needs no step of its own on one hart.  The trylock of a console write
during an oops is left out.

*thread-relay.*  A turn of the loop is four steps: the snapshot of `poll()`, then
listener, device and client, served from that snapshot while clients connect,
send and go.  An error of `poll()` ends the turn (`PollError`).

*Pins.*  A driver function is a program of register accesses.  Three run: a kernel
task, the chained handler (to its end) and the tool, which can be left between any
two accesses.  The handler of a bank takes the pending pins (`todo`) one at a time,
each with a program of its own.  A word that the tool has written over a change of the driver is
in `raced`: the tool says at `pinctrl.c:75` that it has no lock against the
driver, and `ChangesKept` is about the other words.  `SetIsShown` expects no mode
after `a1`: function 1 is the matrix, as the help of the tool says.

`EdgesReachConsumer` is about the run of the handler after an edge.  The status of a
pin is one bit, so edges that come before that run are one event, and an edge between
the write of the type and the acknowledge (`pinctrl-esp32s31.c:540-541`) is cleared
with those of the old type.  `src/README.md:273-275` reports that `gpiomon` lost a few
of 2000 edges at half periods of 20 µs and 100 µs: edges that coalesce, and what the
kernel or `gpiomon` drops behind the handler, are outside this property.

*Not in these modules*: header contents of frames, the aggregation size limit
(the boot event tells Linux the limit that `shm_read()` checks, so both ends
have the same `FrameMax`), the esp_hosted core between the boot event and the
calls of `esp_shm.c`, and the recovery that a bad record schedules:
`ChannelSpec` shows that only whole records come out, so no bad one is ever met.

## Runs

| Run | Question | Bounds |
|---|---|---|
| `host_to_fw` | Can a frame be torn, lost, reordered or left behind; is anything dropped but the queue that a session reset purges? | ring of 16 bytes, counters mod 32, 3 frames of 3 or 8 bytes (records of 8 or 12), queue limit 2, one replay, power-off |
| `host_to_fw_live` | Does every frame leave, do queues wake, also after a purge, are requests served? | 2 frames of 12 bytes (the ring holds one), queue limit 1, one replay, power-off |
| `fw_to_host` | The other ring, with bind, unbind and bind; does a frame get lost but by a late writer or a failed allocation; does `shm_write()` return with a dead Linux, does the ring drain with a live one? | 3 frames of 3 or 8 bytes, one unbind |
| `flash` | Mailbox, progress, wake-ups, reads | 2 users, 2 calls, window of 4 bytes, chunks and blocks of 2 |
| `flash_read_after_timeout` | The comment at `esp_shm_flash.c:66` | as `flash`; TLC finds a counterexample |
| `cache_sync` | Exclusion, completeness, all ranges, and does anyone spin for ever? | addresses mod 12, lines of 2, all `<<addr, size>>`; 2 tasks, 1 SBI sync, 2 firmware syncs (`SyncsEnd` says nothing of firmware syncs that never stop and starve the spin lock of OpenSBI) |
| `interrupts` | Is the time that OpenSBI reads a time that was, does every event reach Linux, does queued work run? | halves of 2 values, time up to 4, 2 events, 2 work items |
| `ble_ha` | Improv: credits, commands of one client, a quiet board, no unproven network.  ATT: do the procedures give exactly the database, the values and the packet?  Proxy: are sessions answered exactly, do batches fit? | Improv: 2 clients on 2 links, 3 writes (2 beside the proxy), 1 ACL buffer, one late answer or read error, one packet of a client in the socket beside the answers.  ATT: buffers of 27, 70 and 255, names of 8, 22 and 63, results of 0 and 44, MTUs of 20, 65 and 247, packets of 18, 128 and 129 bytes, 2 clients.  Proxy: 2 clients, buffer of 6 bytes, batches of 4, 2 events, one failing send |
| `ble_ha_live` | Do joins, identifies and Improv end; is the board discoverable? | 2 clients, 2 writes of all five kinds, one packet of a client in the socket, answers in time |
| `ble_ha_second_link` | The comment on `conn_sent` | 3 clients on 2 links, 3 writes; TLC finds a counterexample |
| `devices` | I2C: does the bus carry the messages, is a buffer left alone after the return?  UART: bytes in order?  Relay: never blocked, one client?  Pins: no change lost, the handler runs after each edge, pads start right, does `get` show what `set` did? | I2C: 8 commands, FIFOs of 3, two or three messages of 0, 1, 3 or 4 bytes, 2 transfers.  UART: FIFOs of 2, 2 bytes each way, one console message.  Relay: 2 clients with 2 chunks each, one frame, 2 openings.  Pins: 2 pins, 1 signal, 2 cells, open drain as the configuration (the word that the handler changes too), the interrupt types rising, both and high, 2 commands of the tool, 3 calls, 2 edges (1 beside the tool) |
| `uart_tx_stuck` | Does a started tty write drain? | FIFO of 2, 3 bytes, one console message; TLC finds a counterexample |

Why the bounds are enough for the interesting cases: records of 8 and 12 bytes
in 16 bytes give a full ring, a ring with less space than the next record, a
record that crosses the end of the ring and, after three records of 12 bytes,
counters that have wrapped.  Frames of 12 bytes fill the ring, so every second
frame meets the wait flag.  A queue limit of 2 with the pause mark at 2 and the
resume mark at 0 makes every transition of the flow control happen.  In the flash
window, the range `<<1, 3>>` starts and ends inside a chunk.  In ble-ha, three
writes are a Wi-Fi packet in two parts with a notification setting before it, or
a part of a packet that one client leaves for the next; one buffer makes the
second notification meet an empty pool.  The MTUs lie below the default, between
and at the largest; packets of 128 and 129 bytes fill and overflow the prepared
writes.  A buffer of 6 bytes holds a whole message, a message that is too long
for it, and one whose length has more than one byte; `SEND_SIZE`, `ADV_BATCH` and
the address types 0 to 3 that HCI defines decide `BatchesFit` with the longest
advertisements.  With I2C, three messages of up to 4 bytes need more commands than
a list has and more bytes than a FIFO has, in each direction and at each place of
a message.  With the type both, two edges of one pin come in a row, before, in and
after the handler of the first.  A time of 4 with halves of 2 carries into the high half twice.

Each property has a mutant in `PROJECT.json` (the operators named with an
underscore, each commented `Mutant:`) that changes the code the way a plausible
mistake would and that TLC refutes under the same configuration.

The baud rates are checked on constants: `EachRate` of `MCDevices` says that for
the rates at the ends of the range and the usual ones, and for B0, the divider
that `esp32_uart_set_termios()` writes is the nearest to the rate it reports.

Cases that the runs do not reach: a TCP connection that is refused because all
slots are taken (as many connections as slots are made), a varint of five bytes,
whose upper bits `read_varint()` drops, and counters of more than one wrap.
`RelayNeverBlocks` is about the reads of the relay; `write_all()` can wait for a client
or a device that does not read.  A user of the mailbox that sleeps while `ctx->flash`
is not set yet is exempt from `HandshakeMoves` (`wokenEarly`): its timeout looks at
the command again.

### Findings

`esp_shm_flash.c:66` says "The lock keeps a read from seeing half of a program
or erase."  After `-ETIMEDOUT` the mutex is released while the firmware still
works on the command, and `esp_shm_flash_read()` does not look at the command
word: the run `flash_read_after_timeout` shows a read in the middle of the old
command.  `ReadsSeeWhole` shows that the comment holds as long as no command has
timed out.

`ble-ha.c:51` describes `conn_sent` as the packets of the connection.  When a
client connects while `set_advertising(1)` waits for the answer to new data, the
function finds `s.advertising` cleared and turns the advertising on beside the
connection.  A controller with more than one link then takes a second client,
and `conn_sent` holds packets of both (`ble_ha_second_link`).  `CreditsConserved`
and `OneClient` hold as long as one client is connected at a time (`second` is
the history flag that says so).

`src/README.md:90` lists the UART console as working.  A console message can fill
the transmit FIFO while TXFIFO_EMPTY is off; when a tty writes just then,
`esp32_uart_transmit_buffer()` returns at lines 244-245 before it enables the
interrupt, and nothing sends the bytes until start_tx is called again
(`uart_tx_stuck`).  `BytesInOrder` shows that no byte is lost or reordered by it.

Seen while reading, without a run:

* `docs/release-notes.md:135` says that after an Improv identify `ble-ha` gives the
  LED back.  Only `timers()` does this: when the loop ends within the five seconds
  (a signal, a read error, Improv that ends without `-p`), `main()` undoes the
  scan, the advertising and the join but not the identify.  `DeadlinesMet` is
  about a program that goes on.
* Read By Type of one value that does not fit the response answers that the
  attribute was not found (`gatt.c:217`), where ATT lets a server cut it.
* The width of the WAIT_HIGH field of I2C is seven bits (`i2c-esp32s31.c:297`);
  the timing registers are not modelled.
* A mux cell with an input only leaves the output enable of the pin as it was
  (`pinctrl-esp32s31.c:198`); `Pins` has it as the code does.
* `set()` of the WS2812 driver computes the colour before it takes the lock.

## Fairness

* Interrupt handlers run when their doorbell is set: weak fairness.
* A runnable task, work item or system call goes on: weak fairness of its steps.
  tx_work and the steps that need the tx lock get strong fairness, because
  flushes of other callers disable them again and again without starving them
  (a spin lock with the bottom halves off on one hart).
* An allocation does not fail for ever (`ReadCopy` in `HostToFw`, strong).  The tick
  count grows, so the time of a writer is over at some time (`WriteTimeOver`, weak);
  that it then finds out is a step of its own program (`WriteLate`).
* `WriteReturns` assumes nothing of Linux; `RingDrains` has the fairness of its
  steps (`LinuxRuns`) as a premise.
* ble-ha: the program goes on and the controller answers its commands (weak); a
  deadline that is tested again and again is over at some time (`JoinLate`,
  `IdentifyEnds`, `DoneDue`, `NetworkFound`, strong: each turn of the loop
  passes the test, and `poll()` returns at the latest after `poll_timeout()`).
  The liveness specification (`InTime`) has answers in time: after a late one the code does
  not know whether the controller advertises.  wpa_supplicant answers each
  request.
* Interrupts: time goes on, M-mode goes on, a handler that runs goes on (weak);
  Linux takes an input that is pending again and again (`TakeTimer`, `TakeWork`,
  strong: M-mode and the other input run in between, and the CLIC gives a pending
  input its turn).
* UART: the handler, a console message and the shifter go on (weak).  With this,
  `uart_tx_stuck` is a behaviour in which everything that can go on does.
* Nothing makes the network stack send, a boot event come, Linux power off or
  the other users ring, a Bluetooth client connect, write or go, a tty write or an
  event be asked for.
* The host-to-firmware runs bound the number of resets (`MaxReplays`).  With resets that
  never stop, each one cancels tx_work again, and nothing makes the queues wake:
  the code does not claim it.

## Proofs

Each theorem holds for every value of the constants that the assumptions allow;
the bounds of the models (frames, clients, writes, timeouts) are constants too,
so it holds for any number of them.

**The rings** (`ShmLayoutProofs`, `HostToFwProofs`, `FwToHostProofs`), for every
ring size and wrap (`SizeAssumption`), every limit of a frame
(`FrameAssumption`), queue limits (`TxAssumption`) and number of frames:

* `TypeCorrect`, `QueueCorrect`.  `TypeOK` alone is not inductive: the flush
  takes the first frame of the queue in steps after the one that looked whether
  there is one.  `TypeInv` adds `QueueBounded`.
* `DoorbellCorrect`: `NoMissedDoorbell` is inductive together with `TypeInv`.
  The case that matters is `PushPublish` with a ring that the receive task found
  empty: `SubAdd` shows that the flush will find its old head in tail.
* `SpaceCorrect`: `SpaceInv` adds what each side may rely on after its check: a
  flush between the check and the store of head still has the space, a reader
  between its load of head and its store of tail still has the bytes.  The
  lemmas `UsedAfterPush`, `UsedAfterFree`, `UsedAfterDrop` are the counter
  arithmetic with wrap.
* `ChannelCorrect` of both directions: the specification implements
  `FrameChannel`, step by step.  Its drops have conditions, which the mapping ties
  to the code.  Linux has given up while `tx_quiesced` is set: `QuiesceInv` says that
  then no flush runs, so nothing is accepted or sent, that only the purge takes
  frames, and that it leaves an empty queue.  The firmware gives up a frame at the
  check after two tries without space with its time over.  A reader loses a frame
  when the allocation for that one has failed, and on the side of the firmware never
  (`MayLose`).  What else has to be shown is that the reader gets
  back what was written.  `RingInv` says that the records are whole words, next to
  each other from tail to head, and that the memory holds each of them; a copy
  into the free space leaves the words of the others alone (`CopyInKeeps`, from
  `WordStep`: where a word is, modulo the ring, when the counters may wrap in
  between), and a store of head or tail keeps the rest (`RingPush`, `RingFree`).
  The order of the records is stated for every pair, because it does not follow
  from the neighbours without an induction.  `CopyFinds` then says that the
  length check never fails: the branch that drops a broken record is dead code as
  long as both sides keep to the layout.
* `WokenCorrect` of `FwToHost`: `RetryInv` adds what the second try of
  `ring_push()` meets.  It needs `CopyFinds`, because a reader that drops broken
  records would free space without a look at the wait flag.

**The cache engine** (`CacheSyncProofs`), for every number of tasks, every range
and number of syncs:

* `ExclusionCorrect` from `LockInv`: hart 1 runs only after the engine is
  shared, a task in `cache_locked()` is the one that masks the interrupts, and
  whoever is between lock and unlock holds the lock word.
* `RequestCorrect` from `RegsInv`: the registers that the holder has written so
  far are still its own.
* `InvalidateCorrect` adds `CallInv` (what `esp32s31_cache_op_allowed()` has let
  through) and `BusyInv` (a running engine has a holder that waits).  Rounding to
  lines does not cross a multiple of the line (`AlignKeepsSide`), and the overflow
  check keeps the end of a range from coming round.
* `SyncCorrect` adds `RunsInv`, the runs of a call so far as a function of where
  it is, and `AskedInv`, the range that Linux asked for.

**The flash mailbox** (`FlashMailboxProofs`), for every number of users, calls and
timeouts (`NobodyAssumption`: the mutex can be free):

* `MailboxCorrect` from `Inv1`: who is inside a call holds the mutex, and the
  request in the mailbox is that of the user that filled it, until it gives up.
* `ReadsCorrect` adds `WaitedFor`: as long as nothing has timed out, a posted
  command has a user that waits for it and holds the mutex.
* `HandshakeCorrect`: `HandshakeMoves` is inductive together with `Inv1`; each
  step that takes a signal away is followed through to the one that it causes.
* `ProgressCorrect`: `OpInv` ties the chunks that are done to the flash, `OwnInv`
  the command that runs to the call that posted it, also after that call gave up.

**ble-ha** (`BleHaProofs`), for every number of clients, links, writes, packets,
buffers and late answers:

* `WifiCorrect`: the network of a join that has not ended is removed at the exit;
  it needs the place to which a waiting command returns.
* `AirCorrect` from `AirInv`: as long as no answer was late, what the adapter does
  is what the last command that was answered said (`CmdInv`, `AdvInv`, `WaitInv`),
  and nothing switches advertising on after the end (`OffInv`, `OverInv`).
* `ClientCorrect` from `LinkInv`: the packets in the socket are in the order of
  their links, only the newest link is open, and the connection that ble-ha knows
  is that one or one whose end is still in the socket.
* `CreditsCorrect` from `CreditInv`: free credits and those of the connection
  make up the pool, and those of the connection are with the controller or in
  reports that are still to be read.  `ReportsAppend` and `ReportsTail` count.

The last two hold with one client at a time, as their properties say;
`ble_ha_second_link` shows what a second link does.

**thread-relay** (`SerialProofs`), for every number of clients, chunks and
openings (`RelayAssumption`):

* `NeverBlocks` from `EventsInv`: until it has been used, an event of the poll
  snapshot is of the client that is connected now, which can be read.
* `SessionsCorrect`: `ConnInv` ties the open connection to the descriptor;
  `RcpInv` says that what the RCP has got of the client of now is of this session
  and comes last, and that what waits in a socket comes after what was sent on.
  `SentInv` counts the chunks: what a client sent is what waits in its socket and what
  the RCP got before.  `RunsInv` follows: each run starts with the first chunk of
  its client and has no gap.

**The timer** (`IrqProofs`), for every width of the halves
(`IrqAssumption`): `TimeCorrect` from `ReadInv` (each half that has been read is
that of a time between the start of the reading and now; when the high half was
the same before and after, both are of one such time) and `EventInv` (OpenSBI
waits for the event that Linux waits for, and one that it has passed on was due).

**The UART** (`SerialProofs`), for every size of the FIFOs (`UartAssumption`) and any
number of bytes: `BytesCorrect` from `UartInv`.  It adds to
the property that what is lost was written before a close dropped it (`TxInv`), that
a break that is latched still has its break to be taken, that sysrq is armed only
while the byte taken last is a break, and that the handler reads no more bytes than
there are (`RxInv`): without the second the next break could be one more than came.

**The pins** (`IrqProofs`), for every set of pins, configurations and commands
(`PinsAssumption`: the pins that are left out are reserved ones) and any number of
calls and edges, from `PinInv`:

* `ProgramInv`: in a program every write follows the read of its word, and every
  access is one that the call, the handler or the command can make.  It is kept by
  taking the first access and by joining programs.
* `WordInv`: what a program has read is still in the word when it writes it, or the
  word is raced; a write of the driver runs with interrupts off.  `ChangesStay`
  follows.
* `EdgeInv`: an edge of an old type is still to be acknowledged by the task, and of
  those of the new type one is latched or the event is still to come.  `EdgesArrive` follows.
* `DriveInv`, `ToolInv`: how far a call and the tool are, by what they have still to
  do.  `PadsDriveRight` and `SetShown` follow.

**I2C** (`SerialProofs`), for all messages, every size of the command list of at least
4 and of the FIFOs of at least 1 (`I2cAssumption`: with fewer commands a read of more
than one byte has no place for its address, its bytes and the end):

* What `esp32s31_i2c_fill` puts into a list is described by `Listed`: there is a plan
  (`Plan`) that says, for each command, from which place of the traffic to which it
  leads and which bytes of the FIFO it sends; the last command, and only that one,
  ends the list; the cursor is behind it.  `RxPlan` says the same of the bytes that
  the list reads and where `esp32s31_i2c_drain` puts them.  The functions of the
  driver are recursive functions over the place in the message; a plan grows with
  each of their turns.
* `I2cInv` is `ControlInv` (which of thread, handler and controller moves, and with
  what), `LineInv` (the bus has a prefix of the traffic, and the commands that are
  left lead from there to the cursor), `StoreInv` (each byte that was read is in its
  place of a buffer or of the FIFO) and `FullInv` (without an error all is done).
  `TransfersCorrect` follows.
* `BuffersGivenBack` needs `UseInv` of `ControlInv` only: the thread returns when no
  handler runs and none can start.

**The GATT server** (`BleHaProofs`), for every ACL buffer of at least 27 bytes, every
length of the name and the result that the code allows, every MTU, prepared write
and request in between (`GattAssumption`): `ProceduresCorrect` from `GattInv`.

* The database is walked by a recursive function (`Walk`).  `WalkSplits` says that
  the walk from a handle on continues the walk up to it, `ListOf` that a response
  lists the first of what remains and at least one: the MTU is at least 23
  (`EnvIs`), and the longest entry, a 128-bit characteristic of 21 bytes, just fits.
* `DiscoverInv`: what the client has found is the walk over the wanted handles up to
  the one behind its last entry.  `ReadInv`: the bytes of a value from the first
  on, and all of them when it has ended.  `PrepareInv`: the prepared write is a
  piece of one client's packet, from its first byte on, and what was refused never
  arrives.  `AttTypes` and `ProcTypes` are the types.

**The proxy** (`BleHaProofs`), for every size of the batch, the buffers and the events
(`ApiAssumption`): `BatchesCorrect` from `BatchInv`.  An advertisement takes at most 46
bytes, 48 with its field (`AdvFits`), which is what `ADV_BATCH * 48` has room for, and
a report is only added where there is a place.

The assumptions are properties of the constants of the code: ring sizes are
powers of two that divide 2^32, a ring holds a maximum frame (the two
`_Static_assert`s of `shm_slave_api.c`), the resume mark is below the pause mark
and that below the limit, memory of OpenSBI is made of whole cache lines, the
names for "nobody" and "no client" are not those of a user or client.

Only model-checked:

* All liveness properties: fairness and ENABLED are out of the prover's reach.
* `SessionsAreExact` of `ApiProxy`: not proved.  It needs the decoding of frames from
  bytes that were cut anywhere, and what a client got as a flattened sequence.

Induction over data stays out of reach in general.  Where a theorem above needs what
a recursive function computes, it is got by induction over a number, and that from
the pigeonhole principle for finite sets (`SetInduction`): a set that has 0 and with
each number below n the next one has n, or taking the successor would map it into
itself without 0.

## Not modelled

* WS2812: a frame of 24 symbols is written and waited for under one lock; there is
  no refill and no second actor.
* Clock driver: tables of gates, dividers and resets under one lock; the
  arithmetic is in the clk framework.
* USB PHY, Ethernet glue, eFuse: sequences of register accesses without state of
  their own.
* Loader: loading images, PSRAM and APM set-up and the display are I/O in one
  sequence.  The part with two actors, the handoff of the cache engine, is in
  `CacheSync`.
* Radio coexistence: one flag behind three wrapped calls of one task; the arbiter is
  a closed library.
* Root file system, init scripts, packages, patches, build: configuration and
  third-party code.
* Of the modelled components: `PROJECT.json` says for each what is left, mostly
  texts, tables, and what runs once at start.

## Plan

Next models: bind and unbind of the transmit side, and a composition of both rings
and the mailbox over the two doorbells in place of the `Other...` steps; L2CAP
reassembly under `BleHa`.

Next theorems: `SessionsAreExact`.
