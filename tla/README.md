# A TLA+ model of the SystemC virtual platform

The repository couples a QEMU machine (an Arm CPU with its firmware) to a
SystemC simulation of a programmable-logic (PL) SoC.  QEMU forwards every load
and store in the PL window over a Unix stream socket; the simulation performs
it on a TLM model of the SoC and answers with the data and the levels of the
interrupt lines.  This directory holds the specifications of that system, the
TLC configurations that check them and the proofs.

- [Inventory](#inventory): the parts, their state, how they interact, what is hard
- [Modules](#modules): which module models what, and how it corresponds to the code
- [Abstractions](#abstractions)
- [Runs](#runs), their bounds, the fairness assumed
- [Proofs](#proofs)
- [Where code and documentation disagree](#where-code-and-documentation-disagree)
- [Not modelled](#not-modelled), and how the [plan](#plan) ended

Run a check with `tlc -config link.cfg MCCosimLink`, a proof with
`tlapm CosimLinkProofs.tla`; the tables of runs and of theorems name the pairs.

## Inventory

| Component | Source | State | Operations | What makes it correct |
|---|---|---|---|---|
| Transactor client, the QEMU device `remote-mmio` | `bridges/remote_mmio.c` | socket, last interrupt levels, the call in progress | load, store, connect, send, receive, unrealize | each access gets its own answer, at most one is outstanding, every call returns |
| Transactor server `CosimServer` | `transactor/cosim_server.cpp` | listening and client socket, request and response buffers, `quit_` | accept, poll, receive, dispatch, send, quit | dispatches whole requests only, releases dead connections |
| Wire protocol | `include/cosim_protocol.h` | — | 20-byte request and response | fits both ends |
| Pin bridge | `bridges/tlm_pin_bridge.h` | strobes, address and data signals | TLM load and store as pin cycles | a load sees what the register held, a store is stored once |
| Timer and its testbench | `peripherals/timer/timer.h`, `timer_tb.cpp` | CTRL, VALUE, CMP, INTR, two interrupt pins | count, compare, overflow, bus read, bus write, reset | no interrupt is missed, the pins show INTR |
| UART | `peripherals/uart_pl011.h` | FIFO, CR, IMSC, RIS | DR, ICR, IMSC, CR accesses, reset | interrupts are neither missing nor spurious |
| GPIO | `peripherals/gpio_apb.h` | DIR, OUT, INTEN, INTTYPE, INTPOL, INTSTAT | register accesses, reset | a level interrupt is pending while its level is active; the line shows INTSTAT |
| Watchdog | `peripherals/wdt_apb.h` | LOAD, VALUE, CONTROL, RIS, lock | tick, register accesses, reset | expires at tick LOAD + 1 after the latest kick, neither sooner nor later |
| System controller | `peripherals/sysctrl_apb.h` | scratch, released flag, watchdog latch | register accesses, reset, `on_wdt` | every reset request is recorded until the guest dismisses it |
| SRAM | `peripherals/sram_ahb.h` | a page of memory | load, store, reset | a load returns the last store at its offset |
| Interconnect | `interconnect/*.h`, `bridges/ahb_apb_bridge.h` | regions | decode, translate, restore | an access reaches the device of the memory map |
| Clock and reset | `clocks/clock_reset.h` | divider, reset signal | divide, release | — |
| SoC and platforms | `Soc/cortexm_pl.h`, `platforms/*/cosim_main.cpp` | wiring, `irq_bits` | `pack_irqs` | every response carries the lines as the devices have them |
| Firmware | `platforms/*/firmware/` | the program counter, a few words | the numbered tests | the tests end and pass |
| QEMU machines, scripts | `processor/`, `scripts/` | — | construction, start-up | — |

**Interaction.**  The guest's CPU blocks in a callback of the client.  The
client and the server are two processes that share a byte stream.  The server
is one SystemC thread: it performs a request by nested `b_transport()` calls
(decoder, bridge, decoder, device), waits the time they add up, samples
`irq_bits` and sends the response.  Within the simulation the threads and
methods share signals, whose new values appear a delta cycle later, and events.
Devices reach the guest through `irq_bits` alone, which only responses carry.

**What is hard.**  A stream has no message boundaries, and either process can
fail between any two bytes.  In one delta cycle processes run in an unspecified
order.  A signal written is not yet a signal read.  Time between two accesses
is unbounded, the clock runs on, and read-modify-write sequences of the guest
are not atomic.  `PROJECT.json` lists these hazards at their lines with the
properties that cover them.

## Modules

    MmioRpc  <-- implements --  CosimLink  <- MCCosimLink
                                           <- CosimLinkProofs

    SystemC <- PinTimer <- TimerFirmware <- TimerBench
                        <- PinTimerProofs
            <- PlAccess <- GpioApb               <- GpioProofs
                        <- UartPl011             <- UartProofs
                        <- SysCtrlApb <- WdtApb  <- WdtProofs
                        <- SramAhb
                        <- CortexMPl <- CortexMFirmware <- CortexMProofs
            (the proof modules of the APB devices also extend PlAccessProofs;
             CortexMPl instantiates PinTimer and the device modules)

    AddressDecode <- DecodeProofs

**CosimLink** is the link.  `cpc` is the place in `remote_mmio_transact()`:
`idle`, `connect`, `send` (lines 111-120), `recv` (124-133), `gone` when QEMU is
not running; `fd`, `sent`, `rbuf`, `irq_last` are the variables of those names
or their buffers.  `spc` is the place in `server_thread()`: `loop` (179-195),
`recv` (198), `exec` (205-237), `send` (239), `stopping`; the three dead states
distinguish how the process ended.  `up[c]` and `down[c]` are what is in flight
on connection c, `copen` and `sopen` whether each side holds it, `backlog` the
connections not yet accepted.  `sigpipe` is what the simulator's process does at
a send to a closed peer.  `issued`, `outcome`, `ret` are what the guest and an
observer see; `served` and `sampled` record what the SoC last performed.
Accesses, buffers and descriptors follow the code step by step; the environment
interrupts a `send()`, a `recv()` or a `connect()` that waits for room in the
backlog, kills and restarts both processes and unrealizes the device.

**MmioRpc** is what the link promises, without sockets: an access is performed
at most once and in program order; a normal return answers that access, after it
was performed, and sets the lines to the levels sampled with it; an access may
be lost, and be performed later or never.  `CosimLink` states the refinement as
`ImplementsRpc`.

**SystemC** is the kernel's scheduler: an evaluation phase that runs the
runnable processes one at a time in any order, an update phase that makes the
signals' new values visible and wakes what is sensitive to them, and the advance
to the next timed wait.  It is external, written from how the sources use it
(`wait`, `notify`, `sensitive`, `sc_signal`).

**PinTimer** is the timer behind its pin bridge: every SC_THREAD and SC_METHOD
of `timer.h`, the bridge's two `wait(SC_ZERO_TIME)`, the server's place in
simulated time and `pack_irqs` are each an action.  It covers both platforms:
on `basic_cortexM` the server thread runs at the instants of clock edges, so
every order with `timer_thread` is possible; on `basic_cortexA` the first edge
comes at 15 ns and the thread runs between edges, and `irq_bits` is not driven.
An offset of the window that holds no register reads as 0 and ignores stores, and
is answered like the others.  `held` and `applied` are history for the
properties.

**TimerFirmware** runs the access sequence of test 6 of the Cortex-M firmware
and of the Cortex-A firmware against it, and **TimerBench** adds the third user
of the timer: the testbench's thread `run()`, which drives the pins itself on
the clock's edges (`write_reg`, `read_reg`, the polls of at most 200 reads, the
checks it prints PASS or FAIL for), with the bridge and the server absent.

**PlAccess** is the common shape of a device: the access as one step of the
server thread, its delay, the response, the release of the reset, `pack_irqs`.
**GpioApb**, **UartPl011** and **WdtApb** add one action per register access and
one per process of the device; `WdtApb` also has the clock divider and, through
**SysCtrlApb**, the system controller that latches the reset request.
**SramAhb** is the SRAM with its reset.  `acked` in the UART, `since` in the
watchdog and `dismissed` in the system controller are history.  The watchdog
ticks on the divided clock, two delta cycles into an instant, and an access is
performed in the first: the two never meet in one delta cycle, and the hazard
there is the count of ticks between kick and expiry.

**CortexMPl** is the whole PL of `cortexm_pl.h`: one instance of each device
module, on one clock, one reset, one scheduler and one server thread.  `Woken`
is the union of the devices' sensitivities, `Perform` sends an access to its
device, and `PackIrqs` packs the five lines.

**CortexMFirmware** runs `main()` of the Cortex-M firmware and `UART_Handler()`
on it.  `Program` is the sequence of the accesses of the seven tests with what
each checks; `step` is the place in it, `handler` the place in the handler.  A
line that is up in a response is latched as pending, as the NVIC does.

**AddressDecode** takes one transaction after another through the nested calls
of the decoders, the bridge and, on `basic_cortexA`, the one-region address map,
to a device and back; the SRAM's words are followed, of the other devices only
that they answer.

## Abstractions

- Messages carry the number of the access in place of address and data, and
  cross the stream in `Frags` fragments: this keeps what a stream can do wrong
  (a prefix, a leftover, a splice of two messages).
- `irq_bits` in `CosimLink` is any set of lines at each dispatch; the device
  modules say which.
- Loads and stores that are not aligned words return before the link
  (`remote_mmio.c:174`, 197) and never reach it.  The length, command and
  alignment checks of the devices are therefore for accesses nobody makes.
- `send_all()` retries on EAGAIN; a response is sent into a socket whose buffer
  holds at most one other, so the branch is not reached.  A partial send is
  covered by the fragments.  COSIM_OP_TICK has no sender.
- Registers are `WordBits` wide, with arithmetic modulo `2^WordBits`; a register
  with one bit per pin is a set of pins; characters are model values.
- The reset sequence ends at a time given by a constant, at the clock edge
  itself and not one delta cycle later; nothing in the devices sees the
  difference.  The end of the reset changes no state of the timer and is left
  out of `PinTimer`.
- The NVIC and the CPU are external.  A pending interrupt that is enabled and
  not masked is taken at some point before `irq_off()`; the code relies on that
  (`main.c:138`).
- `log_wait_bit()` gives up after a million reads; the models poll without a
  bound, and that the polls end is part of what is checked.
- `TimerBench` keeps the order of the testbench's times: 10 ns is a period, and
  its waits of 1, 2 and 5 ns, all between two edges, are half of one.
- Left out because nothing reads it: the UART's console output, baud-rate
  registers and transmit deque, the APB sideband extension, all logging and
  tracing.  In `CortexMFirmware` a store to one of those registers is an access
  that changes nothing.

## Runs

| Run | Question |
|---|---|
| `link` (`MCCosimLink`) | Does each access get its own answer, is each dispatched request whole, and does the link implement `MmioRpc`? |
| `link_live` (`MCCosimLink`) | Does every access return, and is every closed connection released? |
| `link_sigpipe`, `link_error_irq` (`MCCosimLink`) | Two claims of comments that the code does not keep, see below. |
| `timer` (`PinTimer`) | Are loads, stores, pins, response bits right in every order of the processes, and are interrupts always posted? |
| `timer_tests` (`TimerBench`) | Do the timer tests of both firmwares, whatever time they take, and the testbench end and pass? |
| `test6_sticky` (`TimerFirmware`) | Is INTR sticky across the firmware's read-modify-write?  It is not, see below. |
| `gpio` (`GpioApb`) | Is an enabled level interrupt at its active level pending after every sequence of stores, and does each response carry the line?  (The edge rule is in the model and has no property of its own.) |
| `uart` (`UartPl011`) | Is a raised receive interrupt backed by a character, is a waiting character announced, is the line right in each response? |
| `wdt` (`WdtApb`) | Does the watchdog expire exactly at tick LOAD + 1 after a kick, do its outputs show its registers, is every reset request recorded, and is a hang noticed and latched? |
| `decode` (`AddressDecode`) | Do two levels of decoding implement the flat memory map, on both platforms, and is the SRAM memory behind them? |
| `soc` (`CortexMFirmware`) | Does no check of the seven tests ever fail against the whole PL, and do they end, with every response showing all devices, every line seen and none left up? |

**Bounds.**

- `link`: 4 accesses, 3 connections, 3 faults, 2 fragments, 1 line, the backlog
  of the code.  Three faults allow both processes to be killed and a call to be
  interrupted in one behaviour; a stale response needs two accesses on one
  connection, a stale request two connections; two fragments are the least that
  can be split.  When `MaxConns` is used up a connect fails, as it does when
  nobody listens.  `link_live` has one access less.  Both runs start the simulator
  with SIGPIPE at its default, as the platforms do, and ignored, as a parent
  process may leave it: `sigpipe` is chosen at each start, so every return and
  release is checked with a simulator that dies of the signal and with one whose
  `send_all()` fails.  The two violation runs use the default alone.
- `CHECK_DEADLOCK FALSE` in the link runs: the guest may have no access left to
  make, and nobody has to start a program again.
- `timer`: 3-bit registers, overflow at 5 (both below and above it there are
  values), 3 accesses, one offset without a register, words 4, 5 and 7 for VALUE
  and CMP: before, at and beyond the overflow.  `PollSlice` is one clock period,
  so that accesses come at every phase of the counter; the 100 us of the code
  are a multiple of it.
- `timer_tests`, `test6_sticky`: 4-bit registers, overflow at 12 for 255, CMP 2
  for 20 and VALUE 10 for 250, in the order of the code's.  The poll slice, 14
  periods, is longer than a cycle of the counter, as in the code, where it is 10
  000 periods.  `Spins` is the 200 of the testbench.
- `uart`: a FIFO of 2 for 16, so that it is filled, overfilled and emptied; no
  bound on the accesses.  `gpio`: two pins, no bound on the accesses.
- `wdt`: 7 accesses suffice to unlock, load, enable, expire, clear, disable and
  enable; loads of 0, 1 and 3, the reset value at 4 for 0xFFFF.
- `decode`: the offsets at, one word before and one word after every boundary of
  the map, an offset inside the first slot, and the last word of the window; two
  words.  No bound on the accesses.
- `soc`: the 56 accesses of the seven tests and the polls, any number of poll
  slices apart, so that between any two accesses the watchdog may expire and the
  timer go round.  The delays the decoders, the bridge and the devices add up to
  are the constants `AccessTime`, `SysTime` and `SramTime`, in units of 5 ns;
  LOAD is the 8 of the firmware; the timer is that of `timer_tests`; the reset
  ends before or during the first access.  The slice is 12 units for 20 000.

**Fairness.**  `link_live` assumes that each of the two running processes is
scheduled, and nothing of its environment: no access, restart or fault has to
happen.  The operating system justifies that, as both processes either run, or
block in calls that the conditions of the actions describe.  `timer` and `wdt`
assume that the simulation runs; SystemC's kernel never stops while a clock is
bound.  The firmware runs add strong fairness of the guest's next access (and of
the handler): a request stays in the socket until a poll finds it, although the
action is only enabled at the instants at which the server polls.

## Proofs

| Module | Theorem | Property |
|---|---|---|
| `CosimLinkProofs` | `TypeCorrect`, `OwnResponse`, `DispatchedWhole`, `LinkImplementsRpc`, `OwnCall` | `TypeOK`, `MatchedResponse`, `WholeRequests`, `ImplementsRpc`, and an invariant of `MmioRpc` carried over |
| `PinTimerProofs` | `TypeCorrect`, `LoadsCurrent`, `StoresExactlyOnce`, `PinsSettle`, `LevelsAnswered` | `TypeOK`, `ReadsHeldWord`, `StoresOnce`, `SettledPins`, `ResponseIrqs` |
| `GpioProofs` | `TypeCorrect`, `LevelsPending`, `LevelsAnswered` | `TypeOK`, `LevelPending`, `ResponseLevel` |
| `UartProofs` | `TypeCorrect`, `NeverSpurious`, `CharactersAnnounced`, `LevelsAnswered` | `TypeOK`, `RxHasData`, `Announced`, `ResponseLevel` |
| `WdtProofs` | `TypeCorrect`, `ExpiresOnTime`, `ExpiresNotEarly`, `OutputsSettle`, `RequestsRecorded` | `TypeOK`, `OnTime`, `NotEarly`, `SettledOutputs`, `RequestIsRecorded` |
| `DecodeProofs` | `TypeCorrect`, `DecodersImplementMap`, `AddressComesBack`, `SramIsMemory` | `TypeOK`, `RoutedByMap`, `AddressRestored`, `LoadsLastStore` |
| `CortexMProofs` | `ResponsesShowDevices`, `OneInterruptServed`, `TimerLinesLeft`, `EveryLineSeen`, `TestsNeverFail` | `ResponseShowsDevices`, `OneInterrupt`, `OnlyTimerLinesLeft`, `EveryLineReachesNvic`, `NoTestFails` |

`PlAccessProofs` holds the lemmas the APB devices share.  Each theorem is for
every value of the constants that meets the named assumption of the module, so
for any number of accesses, connections, faults, pins, characters and words, any
FIFO depth, any register width of at least the three bits the code uses, any
access times and poll slice, and every offset that is a multiple of 4.  For the
firmware the assumptions are that the first pin exists, that the two characters
of tests 3 and 4 find room in the FIFO, that the offsets of test 1 are in the
SRAM and that the words of test 6 fit in a register (`FirmwareAssumption`), and
that a register has at least three bits (`PlAssumption`).

**The link.**  `TypeOK` alone is not inductive, as the type of `up'` after a send
needs `fd` to be a connection.  `TypeInv` adds what each process holds at each
statement (`Control`).  `MatchInv` follows the argument of the code: QEMU holds
no other connection than `fd` (`OneConnection`); the server closes only what it
has (`ClosedByServer`); all that is in flight on `fd`, in the server's buffers
and in the client's buffer belongs to the access in progress (`OwnMessages`);
the fragments sent, buffered and received add up to at most one message per
direction (`Progress`); and between two calls nothing is in flight on an open
connection (`AtRest`).  The last is why a callback that gives up has to close
the socket: it is the one conjunct that the mutant `LinkFailKeepsSocket` breaks
first.

**The link's refinement.**  `WholeInv` says that on every connection, abandoned
or not, what the server has taken and what follows it are one run of fragments.
`Queue` orders the connections the server holds by age, with QEMU's own the
youngest; `Order` says that what is requested on a connection and not yet
performed is newer than what was performed and than what older connections hold;
so dispatching is in program order and at most once.  `Sampled` says that an
answer on its way carries what was sampled with the latest dispatch.  From these,
`LinkImplementsRpc` has one step per action of `CosimLink`: entering a callback
maps to `Issue`, `Dispatch` of a whole request to `Serve`, `Complete` to
`ReturnOk` or `ReturnError`, a callback that gives up to `Lose`, a killed or
restarted QEMU to `Restart`, the rest to stutters.  `OwnCall` carries an
invariant of `MmioRpc` over to the link.

**The timer.**  `AccessInv` follows an access through the delta cycles: `Thread`
says where the server thread waits at each `pc`; `Raised1` to `Raised3` that the
strobe is written, then seen and its method runnable, then that the method has
run and its result is written, which is why one delta wait would be too few;
`Lowered` that the strobes are low again before the next access, without which
it would have no edge; `HoldsCurrent` that the history of the register includes
its present value.  The order in which `timer_thread` and the bus methods run
never matters to it.

**Interrupt levels.**  `Driven` says that the process that drives a line is about
to run or has written what the registers say, `PackedIrqs` the same of
`pack_irqs`, and `Answering` (`Fresh` for the timer) that a thread whose delay
has ended runs after all of them.  Together they give the level of the registers
in every response.

**GPIO and UART.**  `LevelPending`, and `RxHasData` with `Announced`, are
inductive together with the types; the lemmas are about what `note_edges()` and
the FIFO's operations leave.

**The watchdog.**  `Count`: until it expires, the ticks since the last kick and
VALUE make up LOAD; nothing the guest stores to CONTROL or LOCK changes either.
`Latched`: a request on the wire is recorded, dismissed, or `on_wdt` is about to
run.  `ResetOnce`: the reset is never asserted again, or `sys_reset` would clear
the record.

**Decoding.**  `Route` says for each `b_transport()` what the address has become
and what each decoder will put back; the lemmas on the maps show that regions do
not overlap, so that the first that is hit is the only one.  `Memory` says that
the SRAM holds what was last stored at each offset, the store on its way back
included.

**The whole PL and its firmware.**  `CortexMProofs` is built in layers, each
inductive relative to those before it, one lemma per action of `Next` and layer.

- `PlInv` carries the argument about interrupt levels over to six devices that
  share one scheduler: each driver is runnable or has written its line, and
  `pack_irqs` is runnable or has packed the lines.  `ResetOnce` and
  `InReset => step = 1` keep the reset, which clears every device, out of the
  tests: the first access cannot be answered before it has ended.
- `Control` ties `step`, `handler` and the place of the server thread together.
  With `PlInv` it gives `ResponsesShowDevices`.
- `UartInv` bounds the characters in the FIFO by the place of `main()`, and says
  that an interrupt is latched only while its character is there and never
  again once the handler has read it.  The interrupt may come before any of the
  accesses between `irq_on()` and `irq_off()`, so each conjunct holds on both
  sides of the handler.
- `TestedInv` follows INTSTAT and CONTROL.  For `TimerLinesLeft` it is needed
  that the answer to the store that clears CONTROL no longer carries the line,
  even if the watchdog expired again after INTCLR.
- `BridgeInv` follows an access of the timer through the delta cycles.  `Lasting`
  says that an interrupt bit of a word loaded from INTR is still in INTR when the
  load is answered, because only a store clears it and only one access is on
  the bus; the timer may post another meanwhile.
- `SeenInv` then says which lines the NVIC has seen at each place of `main()`: a
  test that goes on past its check read the flag of its device, and by `PlInv`
  the very answer carried the line.
- `PassInv` says of each device what the tests have left in it by the access
  that checks it: the scratch register, the words of the SRAM, the pin with its
  direction and polarity, the characters in the FIFO.  `Announced` is the part
  that interleavings could break: with the answer to the store that sends the
  character of test 4 its interrupt is pending, and it stays so until the
  handler is entered, which is before the store that masks it begins.
- `StopInv` follows the store that stops the timer: a store to CTRL is written
  once its access is sampled, a stopped timer keeps its VALUE, and so the two
  loads at the end of test 6 return the same word.  `TestsNeverFail` combines
  the two: the word that each checked access returns is the one expected.

**Model-checked only.**  Liveness (`AccessReturns`, `ClosedIsReleased`,
`CompareIsPosted`, `OverflowIsPosted`, `HangIsNoticed`, `HangIsLatched`,
`TestPasses`, `AllTestsPass`), which the proof system does not reach.  Of
`AllTestsPass` what remains to TLC is that the tests end: that none fails is
`TestsNeverFail`.  Every invariant and every other action property of a passing
run is proved.

## Where code and documentation disagree

- `link_sigpipe`: `send_all()` "Returns false if the peer closed"
  (`cosim_server.cpp:105`), but sends without MSG_NOSIGNAL, and nothing ignores
  SIGPIPE: a QEMU that closes during an access ends the simulator.
- `link_error_irq`: "sample SystemC IRQ levels after every completed access"
  (`remote_mmio.c:146`), but an access answered with COSIM_ERROR returns before,
  at line 138, and leaves the lines as they were.  In the trace it is the guest's
  first access that goes to an unmapped offset while a line is up.
- `test6_sticky`: INTR is "sticky until software clears" (`timer.h:18`), but the
  firmware clears CMP by writing back the word it read, which also clears an
  overflow posted since.  The comment at `timer.h:33` and `Timer.md` document the
  write of the full register, which is what allows this: the firmware's
  sequence, not the register, is what loses the interrupt.

The compare value 0 is never matched while OV_BIT is set (`timer.h:180`: the
comparison precedes the wrap), and without OV_BIT the counter passes
TIMER_OVF_COUNT.  `CompareIsPosted` and `OverflowIsPosted` state their
preconditions accordingly.

## Not modelled

- The QEMU machines (`systemc_soc.c`, `systemc_ps.c`), the start-up code and the
  build and run scripts: straight construction or process start-up, with no
  state of their own at run time.  The wiring of lines 0 to 4 to the NVIC is
  assumed by `CortexMFirmware`; the two lines of `systemc_ps.c` are never
  driven, as `basic_cortexA` leaves `irq_bits` at 0.
- `tlm_tick()`, as no client sends COSIM_OP_TICK; it changes nothing but the
  time. The retry of `send_all()` on EAGAIN, see above.
- `CosimIrqEvent`, a message of the protocol header that nothing sends or reads.
- The NVIC and the CPU are external and only as detailed as the firmware needs:
  one enabled interrupt, one handler.
- `platforms/_template` is a skeleton to copy, with no device of its own.

## Plan

Everything planned is done: the link with its abstract specification and the
refinement between them, the timer on both platforms and under its testbench,
every device of the PL alone and all of them together under the firmware, the
decoding of both platforms, and the proofs of the table above.

What a change of the code would ask for next: a second enabled interrupt in the
firmware needs priorities in the NVIC part of `CortexMFirmware`; a client that
sends COSIM_OP_TICK needs `tlm_tick()` in `CosimLink` and in the device modules;
a handler meant for bursts of characters would have to read the FIFO empty
before it clears RX, as `Announced` excuses what it leaves behind.
