# A verification project for the TOWER SDK

This directory holds TLA+ specifications of the HARDWARIO TOWER SDK (`twr/`), the C library that
firmware for the STM32L0-based TOWER modules is linked with, together with the TLC configurations
that model-check them and TLAPS proofs about them.  Every definition is translated from the code;
`PROJECT.json` gives, for each, the file and lines it stands for, and lists the runs, the mutants
that show each property to depend on the code, the hazards, and the theorems.

Contents: [The system](#the-system) · [The modules](#the-modules) · [The runs](#the-runs) ·
[The proofs](#the-proofs) · [What the checks found](#what-the-checks-found) ·
[What is not modelled](#what-is-not-modelled) · [Plan](#plan)

## The system

The SDK is one program on one Cortex-M0+ core.  There are no threads.  `main()` registers
`application_task`, calls `application_init` and enters `twr_scheduler_run`, which calls the tasks
that are due, one after another, each to its end.  Everything that is concurrent comes from outside
this loop: interrupt handlers fall between any two instructions, peripherals (USART, DMA, ADC,
transceiver) run by themselves, other radios do what they like, and the device may lose power.
Drivers are state machines: a task and/or an interrupt handler that share a `static` structure,
ask the scheduler for their next run and report to the application by a callback.

### Inventory

| component | state | operations | talks to | what is hard | what makes it correct |
|---|---|---|---|---|---|
| Scheduler, tick, sleep (`twr_scheduler.c`, `twr_tick.c`, `twr_sleep.c`, `main.c`) | `pool[32]`, `current_task_id`, `max_task_id`, `tick_spin`; the tick counter; the sleep semaphore | register, unregister, seven ways to plan, run, `application_idle`; RTC interrupt | every task by a call; interrupt handlers call `plan_now` | tasks change the pool while the loop walks it; a handler's plan lands in the middle of a pass; ticks wrap | every registered task is scanned; a pass serves all that was due; no wake-up is lost; due tasks are served; passes end |
| Radio protocol (`twr_radio.c`, `_pub.c`, `_node.c`) | state, transmit count, message ids, publish and receive queues, peers with the last id seen, pairing flags, subscriptions | publish, listen, pair, unpair, add/remove peers, clear queues; the radio task; the driver's events | SPIRIT1 driver by calls and callbacks; other radios by frames; EEPROM; ATSHA204 for its id | loss, noise, duplicates, ACKs that cross time-outs, two handlers and a task writing one state, the transmit buffer shared by ACK and message | delivered at most once and in order; "done" is true; one outcome per message; bounded retransmission; pairing is mutual; never stuck |
| SPIRIT1 driver (`twr_spirit1.c`) | desired and current state, receive timeout, frame buffers | tx, rx, sleep, set timeout; task; pin interrupt | scheduler, SPI, transceiver, protocol by events | desired and current state differ for a pass; the interrupt and the time-out write the same plan | it reaches the state the protocol waits in |
| Peers in EEPROM (`twr_radio.c`, `twr_eeprom.c`) | 24-byte records with three copies of an id, their number | load, save, word writes, verification | radio task | resets between words, worn cells | no peer lost, none revived |
| Configuration store (`twr_config.c`) | three banks with a header and a hash | init, load, save, reset | `twr_eeprom` | resets between banks, worn cells, a majority of three banks of which none is whole | a device starts with a configuration it was given, or with the defaults |
| UART (`twr_uart.c`) | three channels: FIFOs, in-progress flags, task ids, the USART's registers, clock semaphores | init, deinit, write, async write, async read, cancel; interrupt; two tasks; DMA on UART2 | FIFO, scheduler, clocks, DMA | the interrupt takes what the caller puts in; a task planned by both; time-outs that wrap | what was added is sent in order; "done" means sent; arrivals are announced; clock held while sending |
| FIFO (`twr_fifo.c`) | buffer, `head`, `tail` | write, read, from task and from interrupt, purge, empty | UART and others | wrap-around, one slot always free; a purge that does not mask the interrupt | it is a bounded queue, and whole again after a purge |
| Message queue (`twr_queue.c`) | buffer, length | put, get, clear | radio | lengths and messages in one buffer; one that just fits | whole messages come out in the order they went in |
| DMA (`twr_dma.c`) | channels, FIFO of pending events | config, run, stop; interrupt; task | UART, SPI, LED strip, LCD | interrupts of two priorities write one FIFO, which can be full | an event per end, once |
| ADC, DAC (`twr_adc.c`, `twr_dac.c`) | pending flag and callback per channel, channel in progress | async measure, blocking measure, calibration; interrupt and task | scheduler, sleep lock, clocks | a request for the channel in progress; channels that ask again and again; a result left in the register | every request is answered, by a conversion of its own input, which began after it unless it joined one |
| Clocks, low power, interrupts, watchdog (`twr_system.c`, `twr_irq.c`, `twr_exti.c`, …) | semaphores of HSI16 and PLL, sleep depth, interrupt nesting | enable, disable | all drivers | enable and disable from tasks and handlers | counted; on while anyone needs it |
| RTC (`twr_rtc.c`) | calendar, wake-up timer | set, get, init; two conversions of a date | tick | leap years, the end of the integer | both conversions give one instant |
| SPI, I2C, GPIO (`twr_spi.c`, `twr_i2c.c`, …) | transfer in progress, clock locks | transfer, async transfer | display, sensors, transceiver | the end of a transfer by DMA against the next transfer | a transfer under the clock, ended once; the clock returned |
| 1-Wire (`twr_onewire.c`, …) | the state of a search | reset, search, read, write | thermometers | a search over several passes on a bus that changes | each device found once, none hidden |
| Button, LED, switch, encoder, pulse counter, … | debouncing counters, patterns, counts | scan task, interrupts | application by events | time-outs that race; interrupts that preempt the task | presses, steps and pulses are told of, each once |
| Displays (`twr_ls013b7dh03.c`, `twr_gfx.c`, …) | frame buffers, transfer state, chip select | draw, refresh | DMA, SPI | another client of the SPI while a frame is sent | the chip stays selected, alone, for its frame |
| LED strips (`twr_led_strip.c`, `twr_ws2812b.c`) | buffer, transfer in progress, the effect and where it is | set pixels, write, start and stop effects; tasks; DMA and timer interrupts | scheduler, DMA, PLL | the DMA reads the buffer that the next frame is drawn into | a frame is shown whole; an effect ends, and has been shown when it says so |
| Sensors (about 25 drivers), modules and tags | state of a request/read cycle; alarms; power of the bus or the module | measure, set interval, set alarm; task | I2C, 1-Wire, UART of the CO2 sensor, capture timers, scheduler | an error in the middle, a request from the event handler, an interrupt in a measurement, an echo of the measurement before | an answer or an error per request, of values of this measurement; power taken away |
| Modems (`twr_cmwx1zzabz.c`, `twr_esp8266.c`, `twr_at.c`, `twr_sigfox…`) | command/response machines | join, send, … | UART | time-outs, unsolicited lines | an answer or an error per command |
| Radio messages (`twr_radio_pub.c`, `_node.c`) | — | one function per message, two decoders | radio | two pieces of code must agree about each field; lengths at their limits | what is read is what was written |
| USB (`twr_usb_cdc.c`) | transmit buffer and its length, the library's transfer | write; two tasks; the library's interrupt | scheduler, FIFO, USB library | the buffer is written while it is being copied | bytes are sent once, in order |
| Console, log, infrared, 433 MHz, data and cryptography | small | — | — | — | functional correctness of encoders |

`bcl/` renames the API for old programs, `_examples/` shows its use, `lib/` and `sys/` are vendored
or generated by the chip's vendor.

## The modules

| module | models | extends / instantiates |
|---|---|---|
| `Scheduler` | scheduler, tick, sleep lock, `application_idle`, the interrupts that plan tasks | |
| `SchedulerProofs` | theorems about `Scheduler` | `Scheduler`, `TLAPS` |
| `Radio` | one radio: protocol and SPIRIT1 driver, as operators on a radio's record | |
| `RadioLink` | several radios, the ether, the applications: the state machine and its properties | `Radio` |
| `RadioProofs` | theorems about `RadioLink` | `RadioLink`, `SequenceTheorems`, `WellFoundedInduction`, `TLAPS` |
| `LinkProofs` | theorems about `RadioLink` that relate two radios | `RadioProofs` |
| `PeerStore` | the list of peers and its copy in EEPROM | |
| `StoreProofs` | theorems about `PeerStore` and `ConfigStore` | these two, `SequenceTheorems`, `WellFoundedInduction`, `TLAPS` |
| `ConfigStore` | the application's configuration in its three banks | |
| `UartWrite` | asynchronous transmission on one channel | |
| `UartRead` | asynchronous reception on one channel by interrupt | |
| `UartDma` | asynchronous reception on UART2, by DMA | |
| `UsbCdc` | transmission by USB, with the packets of the library | |
| `Clocks` | HSI16, PLL and the sleep lock, as operators on a record | |
| `SpiBus` | SPI, DMA channel 5, the pending events of the DMA, the display | `Clocks` |
| `Adc` | the converter, shared by channels, with its interrupts | |
| `Fifo`, `BoundedQueue` | the ring buffer, and the abstract queue that it implements | `Fifo` instantiates `BoundedQueue` |
| `BufferProofs` | theorems about `Fifo`, `DataStream` and `MessageQueue` | these three, `SequenceTheorems`, `WellFoundedInduction`, `TLAPS` |
| `MessageQueue`, `Messages` | the queue of messages in one buffer, and the sequence of messages that it implements | `MessageQueue` instantiates `Messages` |
| `DataStream`, `SampleWindow` | the ring of samples with its queries, and the window of the latest samples | `DataStream` instantiates `SampleWindow` |
| `Buttons` | two buttons of the LCD module, with BOTH_HOLD | |
| `Led`, `PulseCounter`, `Encoder`, `Relay` | the drivers of these names | |
| `LedStrip` | the effects of a strip of LEDs, and the transfer of a frame | |
| `BoardProofs` | theorems about `PulseCounter`, `Relay`, `LedStrip`, `UartWrite`, `UartRead`, `UartDma`, `SpiBus` and `UsbCdc` | extends these but `UsbCdc`, which it instantiates; `SequenceTheorems`, `FiniteSetTheorems`, `TLAPS` |
| `Sensor` | seven drivers of I2C sensors, with their differences as parameters | |
| `Lis2dh12`, `Lp8` | the accelerometer with its alarm, the CO2 sensor with its module | |
| `HcSr04` | the ultrasonic sensor, with the timer that captures its echo | |
| `DeviceProofs` | theorems about `Adc`, `HcSr04` and `OneWire`; of `Sensor`, `Lis2dh12`, `Lp8`, `Ds18b20`, `Encoder`, `Led`, `Buttons` and `Rtc` | extends the three, instantiates the eight; `FunctionTheorems`, `FiniteSetTheorems`, `WellFoundedInduction`, `TLAPS` |
| `OneWire`, `Ds18b20` | the search of a 1-Wire bus, the thermometers on one | |
| `Rtc` | the two conversions of a date | |
| `RadioMessages` | the messages, as one device writes and another reads them | |
| `Modem` | the driver of the LoRa modem, and the modem | |
| `ModemProofs` | theorems about `Modem` | `Modem`, `SequenceTheorems`, `FiniteSetTheorems`, `WellFoundedInduction`, `TLAPS` |
| `MC…` | the instances that TLC checks, where a module's constants do not say it all in its configuration | their modules |

Each module that models code and whose properties a passing run checks contains, beside a
definition, a variant of it called `Mut…`: a plausible mistake (a dropped guard, a missing reset, a
swapped order).  `Mut…` operators are used by nothing; `PROJECT.json` says which property rejects
which of them.

Components that share no state are put into one instance to be checked together: `MCBoard`,
`MCDevices`, `MCUart` and `MCPeerStore` choose one of theirs in `MCInit` and let only that one move
(the variables of the others keep one initial state).  A behaviour of such an instance is a
behaviour of one component; nothing is said of two at a time.  Components that do share state are in
one module, or in modules that extend each other: protocol, driver and ether in `RadioLink`; SPI,
DMA, clocks and display in `SpiBus`; sensor and module in `Lp8`; both buttons in `Buttons`.

### Scheduler

Variables carry the names of the code.  `pc` is where the main thread is: in `application_init`, at
the head of a pass (`spin`), at the loop test (`scan`), past the due test (`due`), inside a task,
in `application_idle` or in WFI.  The loop of `twr_scheduler_run` is split where an interrupt can
make a difference: `StartPass` reads the tick, `FindDue`/`SkipSlot` test a slot, `Dispatch` disarms
it (`tick_execution = TWR_TICK_INFINITY`) and enters the task, `TaskReturns`, `EndPass`, `Idle`.
A task is unknown to the scheduler: it makes any sequence of at most `MaxCalls` calls of the API
(`Register`, `Unregister`, `PlanNow`, `PlanAbsolute`, `PlanRelative`, `PlanFromNow`, the
`PlanCurrent…` functions, `SleepDisable`, `SleepEnable`), for any slot, itself included.  `TickIrq`
is the RTC wake-up interrupt and `DriverIrq(i)` any handler that calls `twr_scheduler_plan_now(i)`;
both may fall anywhere and end WFI.  `AddTicks` wraps as `uint64_t` does.  Registration in a full
pool goes to `application_error` (`pc = "error"`), which does not return.

`touched` and `irq_wake` are history variables: the slots planned since the pass began, and the
slots that an interrupt woke and that have not been called since.

### Radio and RadioLink

`Radio` describes what each handler of `twr_radio.c` and `twr_spirit1.c` does to the record of one
radio: `RadioTask` is `_twr_radio_task` with its priorities (pairing request, subscriptions, publish
queue, receive queue), `DriverTask` is `_twr_spirit1_task` with the check for the state it is in,
`RxFrame…` are the branches of the protocol's handler of RX_DONE, `GoToRxOrSleep` is
`_twr_radio_go_to_state_rx_or_sleep`.  Since a handler runs to its end without giving way, it is one
operator, and each operator is the whole handler.  `RadioLink` makes a state machine of them:
`RunRadioTask` and `RunDriverTask` run a task that is planned, in any order among radios;
`Transmitted` ends a frame on air and gives it, or a garbled one, or nothing, to each radio that
listens; `Publish` and the actions of `Use` are the application's calls.

A frame is `[src, id, kind, body]`.  Time is left out: a finite receive timeout may expire whenever
the radio listens, which is every order of frame and timeout that the clock could produce.  Message
identifiers count modulo a small number instead of 2^16.

What the radios are and do is a *scenario*, chosen in `Init` and constant from then on, so that one
run answers one question for all of them: mode, window after an ACK, subscriptions, peers loaded at
start, bodies published, other API calls, noise, and the number of attempts.

### PeerStore

`peer_devices` is the list in RAM, `records` and `length` are the EEPROM.  `Encode` gives the six
words of a record with the inverted halves, `Vote` is what the load makes of any six words, `Found` of
the first records and `Loaded` of all.  A save is `StartSave`, a `WriteWord` for every word that differs (the driver skips the
others), `CompareRecord` and `WriteLength`; `BadWord` and `BadLength` are a cell that keeps its old
value, which the driver's verification finds and the task makes up for.  `Reset` may happen anywhere,
in particular between two words, and loads what is there.  Ids are pairs of words that share halves,
so that a mixture of two ids may be a third.  `held` and `seen` are history: the ids held at all
times, and at some time, since the list was last completely stored.

The load plans the radio task before `twr_radio_init` has registered it, so that the plan goes to
slot 0; `planned` follows the code in this.

### UartWrite and UartRead

`UartWrite` splits `twr_uart_async_write` where the interrupt handler can come between: the chunks of
up to 16 bytes put in the FIFO (`WriteChunk`), the registration of the task, the plan for never
(`PutOffTask`), the setting of TXEIE, and the return.  `Shift` and `Sent` are the USART, `IrqHandler`
is the channel's handler with its TXE and TC branches, `WriteTask` is the task that reports
WRITE_DONE and releases the clock.  `Deinit` and `Init` of the channel are the application's.
`Slots` are the scheduler's, so that a task id kept after its slot was released is seen to belong to
somebody else.  `UartRead` has the interrupt handler, the read task in its steps (`ReadTask` arms the
timeout, `TellApplication` decides between data and timeout and calls the handler, which may read and
may start or cancel) and the tick, which wraps at `INFINITY`.

### UartDma

UART2 receives by DMA: the channel writes the cells of the FIFO in a circle and knows nothing of its
`tail`.  `Arrive` is a byte on the line and `DmaMove` its way into a cell (CNDTR counts down and starts
anew); `Poll` is the task that runs in every pass, compares CNDTR with the value of its last look,
moves `head` and plans the read task; `DmaReadTask` tells the application, which reads with `DmaRead`.
A byte is the number of its arrival, so that `ReceptionFollows` can say that what is read is what was
received.  The code relies on three things that the model makes visible as history: no lap of unread
bytes (`lapped`), a FIFO that is empty at its first cell when a reception starts (`aligned`), and, for
the liveness, that it is the first reception (a later one keeps the old `length`).

### UsbCdc

The application fills one buffer (`Write`), a task hands it to the library (`Task`, with
`CDC_Transmit_FS`), and the interrupt copies it into the peripheral's memory, a packet at a time
(`Copy`; the first packet at once, the next when the host has taken one, `PacketTaken`).  The task
sets the length to 0 as soon as the library has accepted the buffer, so that a write during a transfer
that is longer than a packet may reach bytes that are not copied yet: `overwritten` is history and
`SentInOrder` is claimed up to it.  Before the host has configured the device, where the code looks
through a null pointer, the library is taken to be busy.

### Clocks and SpiBus

`twr_system.c` counts the users of HSI16 and of the PLL in plain integers.  An operator of `Clocks`
is given the value to be stored, so that `SpiBus` can put an interrupt between load and store, which
is where `clock_race` comes from.  In `SpiBus` the main program is at one of a few places (`main.at`).
`AsyncBegin` and `AsyncRun` are `twr_spi_async_transfer`, `SyncBegin` to `SyncEnd` the synchronous
transfer; `Progress` and `TransferError` are the channel.  The interrupt of channel 5 is split between
writing the event into the FIFO of pending events (`IrqWrite`) and advancing its head (`IrqAdvance`):
that of another channel (1 to 3, a higher priority) may come between, `OtherChannelIrq`, and writes
the same cell.  `DmaTask`, `DmaEvent` and `DmaTaskEnds` take the events out and report them, and `SpiTask`
ends the transfer.  `lost` becomes true when an event of channel 5 was overwritten so, or found the FIFO
full: what is claimed is claimed up to this.  `Ook` adds the interrupt of the 433 MHz transmitter
(`OokIrq`), which gives back the PLL.

### Adc

A request marks its channel (`pending`), and starts the converter if it is idle.  `ReferenceIrq`
and `InputIrq` are the interrupt in its two states: the reference is read and the channel selected, the
channel is read and the task planned.  `Task` tells the channel's handler (which may ask again, for any
channel) and
starts the next one that is pending, in the order behind the last.  `GetValue` is the blocking
measurement, with and without a place for the result, which the code refuses while an asynchronous one
is underway.  The value of a conversion is the channel it was made of, and a result is kept in `value`
until the task has told of it.

Without a place for the result, `GetValue` ends with EOC set and DR unread, which `unread` remembers.
Then the interrupt may come as soon as `twr_adc_async_measure` enables it, before the conversion is
started; for this case the call is two steps, `Enable` and `AdStart`, with `starting` in between.
Otherwise nothing can come between the two, and the call is one step.  What DR holds after an overrun
depends on the register settings and is left open (`Left`).

### Buttons

A button scans its input each `ScanInterval`; a tick that the code compares with now is kept as the
time that is left until it.  `Task(b)` is the whole of `_twr_button_task`: debounce, toggle, click or
hold, and with `OtherHeld` the handler of `twr_module_lcd.c`, which makes one BOTH_HOLD of both and marks
the other button.  Inputs change at any time.  `presses` is history: what was made of the present press.

### Sensor, Lis2dh12, Lp8, Ds18b20, Relay

`Sensor` takes the driver from `Drivers`: which quantities one measurement reads and in how many parts.
One action is one state of `_twr_…_task`; a transfer succeeds or
fails; `fresh` holds the quantities read since the request.  `Lis2dh12` adds what a sensor that works
by itself adds: `chip` is its registers and `Interrupt` its interrupt, which sets `irq_flag` and plans
the task at any moment.  The scheduler clears the plan when it runs the task (`TaskStarts`), so a plan made
while the task runs, by the interrupt or in an event handler, is there when it ends, and an error
(`Fail`) leaves it there.  `Careful` confines the application to setting the scale outside of event
handlers and while no alarm is set, without which the three parts of `AlarmKept` do not hold, and
`unasked` marks a plan that an error left behind (for both see below).  `Lp8` has the module with its expander, capacitor and UART bridge; a step of the task may fail
at any of its transfers.  `Ds18b20` has the power of the bus as the driver believes it (`power`) and as
it is (`bus`), a search that may find other sensors than before, and handlers that ask for another.
`Relay` has the driver's record together with the coil and contact it drives: commands overtake each
other and writes fail.

### OneWire

A ROM number is a sequence of bits, least significant first, of which the last is their parity in the
place of the CRC; `Pass` is one call of the search: `Passed`, a function of the bit's
position, gives the devices that still take part, whose answers are a wired AND, the number picked so
far and the last place where 0 was picked.  A device may be unplugged between two
passes.  `OthersFound` speaks of one such device: two may hide a third, when they are all that stood on
both sides of the bit at which the next pass is to turn, which then leaves the way before it
(TLC shows it with four devices and `MaxUnplugged = 2`; nothing in the code says otherwise).  A search for a family is begun with the family's bits and the last discrepancy behind them,
as the code does it.

### HcSr04

The echo is a line that may rise and fall at any time (`Edge`); the timer's capture sets a flag per
edge and an overcapture flag for a second one, and its compare a flag after 250 ms (`Timeout`).
`TimerIrq` is the handler, of which the code has two, for TIM2 and TIM3, that differ in registers only.
Durations are told apart as echoes and as longer than echoes (`long`).  The task that tells the
application is registered by `Measure` and unregistered by itself (`notify`).

### LedStrip

The buffer is a colour per pixel, and a colour is where it comes from (a position of the wheel, a
level, the application).  A task of an effect draws one frame and writes it; `Shows` is what their
ends have in common.  `SendPixel` is the DMA at one pixel, `DmaDone`, `PauseEnds` and `TransferTask`
are the handlers at the end of a transfer.  The wait of an effect is left out: its task may run at any
time, also during the transfer of its last frame.  The application may draw at any time, which may show
half of the old and half of the new; `FrameShownWhole` says that the effects do not do this to
each other.

### RadioMessages

A message is its fields, a field is its bytes in their order, and a byte is which one of which value it
is; so the offsets and sizes at which it is read are compared with those at which it is written.  Sizes
are the real ones: 56 bytes for a message, 6 for an id.  Texts and data are their lengths, of which
those near each limit are tried.  `EndedAt` is the 0 that the decoder of topics writes: not where the
message ends but so many bytes behind its topic's beginning, in what earlier messages left.

### Led, PulseCounter, Encoder

`Led` has a step of the task (`Slot`, `PulseEnds`) and every call of the API between two of them.
`PulseCounter` lets the interrupt (`Edge`) come between any two steps of its task: the test of the flag,
the event, the plan.  `Encoder` has the contacts as they are and as they were sampled; an edge on a
registered line waits until its handler runs; the code's two registrations are apart, as are the copy
of the count (`Take`) and its clearing (`Tell`), between which the handler is masked.

### DataStream, MessageQueue, Fifo and what they implement

Three containers and three abstract specifications, each with the refinement mapping that reads the
abstract state out of the concrete one: `Fifo` from `tail` to `head`; `MessageQueue` from message to
message by the lengths in the buffer (`From`); `DataStream` the latest samples back from `feed_head`.
The ring buffer takes a byte at a time, as all its users do from a task and a handler of which each
has one end; `irq_end` is the handler's.  Writing, reading and testing mask the interrupt in the main
program and are one step each.  `twr_fifo_purge` does not, and is two: `PurgeHead` and `PurgeTail`, in
the order in which the code has the stores, with the handler free to come between.  So the abstract
queue's purge has two steps too.  When the first is done the queue is empty; up to the second the handler
may be refused a byte without reason, or read bytes that are gone, but what it writes is in the queue
and stays.  `UartWrite` has no purge, and `Modem` one of lines, not bytes: see below what that leaves out.
  The queries of the stream (first, last, n-th, average, median, maximum, minimum) are
compared with what they mean for a window.

### Rtc

The date proceeds by days.  One conversion counts leap years by rule, the other by tables, as the two
functions of the code do; the unit of 128 seconds makes the numbers small enough for TLC, and
`DatesAgree` is about whole days.  It and `MessagesUnderstood` make `ConversionsAgree`.

### ConfigStore

A save writes the header (signature and hash) into each of the three banks and then the data into
each, word by word; a reset may fall between any two words, a worn word may keep what it held, and
the first bank that does not take keeps the code from writing the others.  A load takes the majority
of the bits of each word and tests the hash.  A word is a set of bits, and the hash of data is a set
that contains it.

### Modem

The application asks (`SendMessage`, `Join`, `LinkCheck`, `Set`, `Reboot`, …) at any time and from the event
handler.  The task's states are the code's; a run of the task ends where the code returns.  The modem
executes a command (`Execute`), brings out its lines (`Emit`), misbehaves (`Misbehave`: it loses a
command or refuses it) and has news of its own (`News`: a message, a line in two pieces, a reset).
`MaxFaults` bounds how often.  What the properties need of the past is in `history`: the settings the
modem has not stored yet, those among them whose yes may be taken for another's (`doubtful`), and
whether a request ran the task while an answer was due (`haste`).

## The runs

| run | instance | checked |
|---|---|---|
| `scheduler` | 3 slots, 1 task function, ticks to 2 of 7, 2 calls per task, 1 sleep lock | `RegisteredSlotsScanned`, `PassServesDueTasks`, `IrqWakeKept`; live: `NoneStarves` |
| `radio_link` | a base and a remote; the scenarios Linked, Pairing, SleepingRemote, Joining | `NothingForgotten`, `ResentAsPromised`, `OutcomeIsTrue`, `AcceptedOnceInOrder`, `PairedIsMutual` |
| `radio_live` | one message each way, any frame may be lost, no noise | live: `EverythingDone` |
| `radio_timeout` | the same with noise | `TimedReceptionsEnd`: violated |
| `peer_store` | peers: 4 ids that share halves, 4 records, 2 changes, 2 resets, 1 bad word; configuration: 3 configurations, 2 saves, 2 starts, 1 worn word | `ResetsHarmless`, `ConfigKept`; live: `StoreFollowsList` |
| `uart` | transmitter: messages of 1 and 2 bytes, 6 bytes, FIFO of 3, chunks of 2, 2 deinits; by interrupt: FIFO of 2, 4 bytes, timeouts of 2 ticks and for ever; by DMA: FIFO of 3, 6 bytes, 2 receptions; USB: buffer of 5, packets of 2, 9 bytes | `ArrivalAnnounced`; with liveness: `AllWritesServed`, `ReceptionFollows` |
| `uart_overlap` | messages may overlap | `DoneMeansSent`: violated |
| `clock_race` | the SPI with the 433 MHz transmitter | `TransferClocked`: violated |
| `board` | SPI, pulse counter, CO2 sensor, dates, radio messages, samples, relay, encoder, accelerometer, 1-Wire search, thermometers | `TransfersUndisturbed`, `PulsesTold`, `ConversionsAgree`, `RelayAgrees`, `SearchFinds`, `StreamIsWindow`; with liveness: `TransferCompletes`, `RequestsServed`, `StepsReachApplication`, `AlarmKept` |
| `devices` | FIFO, message queue, converter, buttons, sensors, ultrasonic sensor, LED, LED strip | `ImplementsQueue`, `ImplementsMessages`; with liveness: `ConverterShared`, `PressesTold`, `MeasurementsServed`, `ShowsWhatWasAsked` |
| `debounce` | the buttons | `Debounced`: violated |
| `modem` | 2 settings, 2 calls, 1 fault | `ToldIsTrue`; live: `EverythingAnswered` |

Every passing run but two checks the types of its modules as well (`TypeOK`, `TypesOK`): `scheduler`
does not, since `TypeOK` is proved, nor does `radio_live`, whose states `radio_link` types.

A property that stands for what a component promises is a conjunction of named parts, each stated and
commented where it is defined: `ResentAsPromised` is `OnlyTheMessageIsResent`, `SentBeforeGivenUp` and
`TransmissionsBounded`; `OutcomeIsTrue` is `DoneMeansAccepted` and `OneOutcome`; `NoneStarves` is
`DueTaskServed` and `PassesEnd`; `WritesServed` is `ToldIsSent`, `ClockHeldWhileSending`,
`DoneAloneMeansSent`, `EverythingSent` and `DoneComes`, and with `UsbServed` it is `AllWritesServed`; and
so on.  A violated part violates the whole,
and TLC names the part.

**scheduler.**  Three slots are the least for which a task may unregister another one before it, one
behind it and itself, with `max_task_id` falling by more than one.  One task function is enough since
the scheduler does not look at it; the code tells free from used slots only.  `TickBound` saturates
the counter, and `TICK_INFINITY = 7` lies beyond every sum of the delays except those that wrap, which
the delays include.  Two calls per task allow a task to register and unregister, or replan what
another replanned.  `PassServesDueTasks` is the property that is easy to lose: the loop walks
`0 .. max_task_id` while tasks move the end.

**radio_link.**  *Linked*: a gateway and a listening node that are peers and publish at the same
time, two messages from the node so that the order shows and a second may overtake; garbled frames;
two attempts so that a retransmission may cross an ACK.  *Pairing*: neither knows the other; the node
asks to be paired, the base opens pairing mode and removes its peer again.  *SleepingRemote*: a node
that sleeps, with the window after each ACK, `twr_radio_listen`, and queues cleared under the task.
*Joining*: the base learns of the remote while that is sending already, by automatic pairing or
`peer_device_add`, and the remote has a subscription that is out of range and a pairing request that
is too long.  More attempts than two only repeat the same states: the counter is compared with its
limit and with nothing else.  A third radio would add collisions, which the loss of frames covers,
and ACKs for others, which a radio ignores by their id.

**radio_live.**  Fairness: each planned task runs (the scheduler's `NoneStarves`), a driver whose
reception is timed gets its timeout, a transmission ends, the serial number is read.  Nothing is
assumed of what the ether delivers: since attempts are bounded, a radio that is never heard gives up
its message, and its queue still drains.  Without noise, because of what `radio_timeout` shows.

**peer_store.**  Peers: the initial states are all the lists of at most three of four ids, stored.  Two
changes are enough for a removal that moves the last record into the hole and an addition over the
record that is left behind; two resets cut two saves short.  The part `NobodyRevived` is claimed for at most
one reset and no worn word, since with two the mixture of remains can win a vote (see below).
Fairness: the radio task runs when it is planned; nothing is assumed of resets.  The early return
of `twr_eeprom_write` for a busy EEPROM does not occur here: every write waits for its own end.

Configuration: three configurations of two words, of which the bits overlap, so that a majority may
mix them; two saves and two starts, so that the second save falls on banks that a reset left in
different states.

**uart.**  The transmitter's FIFO is smaller than two messages, and a message is at most as long as a
chunk, so that a call finds it full, partly full and empty, with the interrupt anywhere between; two
deinits let the slot of the write task go to another module and come back.  Fairness: the USART
shifts, its interrupt is served, the task runs, and the caller's code goes on.  `DoneAloneMeansSent`
is for an application that waits for WRITE_DONE before it writes again (what a second write does is
`uart_overlap`).  The receiver by interrupt: ticks run from 0 to 5 with a timeout of 2, so that up to
two timeouts expire between arrivals; the timeout of 15, which is `INFINITY` here, wraps.  By DMA: six
bytes are two laps of three cells.  Its fairness is strong for the two tasks: other tasks may plan
theirs for the same pass, but a pass calls each that is due.  USB: writes of 1, 3 and 4 bytes
into a buffer of 5 with packets of 2 make transfers of one packet, of a whole number and with a rest,
and writes that reach behind, at and before the place of the copy.  The host goes on taking packets.

**board.**  SPI: a FIFO of 3 pending events is filled by the half and the end of one transfer and an
event of another channel; one transfer without a handler (`MaxLeaks`) shows that it keeps its clock.
Pulse counter: five edges and a
counter of 8 values that the application may set, to the last before the wrap too.  CO2 sensor: two
calibrations asked for and three faults, so that an error falls into the measurement that repairs the
first.  Dates: each day from 2000 to 2040 (to 2099 by proof), which is past the end of the signed integer in January 2038.
Radio messages: every
kind, every combination of values and none, lengths 0, 1, 5 and around each limit.  Samples: a ring of
3, eight samples, of four values, two equal ones possible.  Encoder: six edges are a step there and
back and the beginning of another.  1-Wire: every set of at most three of the 16 numbers with 5 bits, of
which 2 are
the family's and one is the parity; searches for everything and for the family 1; three devices are
enough for two discrepancies below each other and side by side.
Thermometers: room for 2, two searches asked for by handlers.  Relay and accelerometer need no
bound.  Fairness: interrupts that are raised and tasks that are planned run.  In
`SpiBus` it is strong for the tasks of DMA and SPI, which share the main program with the application's
calls, and weak for the channel and the interrupts.

**devices.**  A buffer of 4 cells goes round; a message queue of 8 bytes with lengths of 2 holds several
short messages or one of 3 with a short one, and is full in several ways.  Converter: three inputs
beside the reference, the least for which one can be passed over while two others ask again; blocking
measurements with and without a result; an event handler of one of the three, set and taken back at any
time, since all it changes is that calls come before the task ends, and calls of any kind do.  Buttons: the
least times in the code's order (scan 1, debounce 2, click 3, hold 4); any finger at any scan.
LED:
patterns of 8 slots (the code has 32) and counts of 1 and 2.  Strip: three pixels, the least that tell
the three positions of the theatre chase apart and a middle from the ends; a wheel of 4 positions, two
rounds of a pulse, an icicle of 2; two calls of the application, of which the second falls anywhere in
the effect that the first started.  The ultrasonic sensor needs no bound.
Fairness: time passes, a due task runs, a conversion, a transfer and a timer come to their end; for the
converter and the strip some step of theirs is taken as long as one can be, whichever.  Liveness of a
button is stated for an input that stays.

**modem.**  Two settings, so that one may be set anew while the other is saved; two calls of the
application at any time; one fault.  `Settles`, in `EverythingAnswered`, is about the time after the
last fault: without a bound on the faults no answer can be promised.

**clock_race, debounce, uart_overlap, radio_timeout** each check the one property that a document or
a comment states and that the code does not keep; what they found is below.

Deadlock is checked except where the work of the instance runs out (the bytes, the messages, the
changes): the configuration says so.

## The proofs

`SchedulerProofs` proves, for any number of slots, tasks, delays and bounds:

- `TypeCorrect`: `Spec => []TypeOK`.
- `AllRegisteredSlotsScanned`: `Spec => []RegisteredSlotsScanned`.
- `EveryPassServesDueTasks`: `Spec => []PassServesDueTasks`.
- `NoIrqWakeLost`: `Spec => []IrqWakeKept`.

The argument is one inductive invariant, `IInv`.  `RegisteredSlotsScanned` is almost inductive: when
the last slot is released, `max_task_id` becomes the largest slot in use, and no slot beyond is in use
by maximality (`MaxOfSlots`); with no slot in use it is 0.  `CurrentInPool` keeps the scan in the
pool, `TicksBounded` says that the counter never reaches `TWR_TICK_INFINITY`, so that a disarmed slot
is not due.  `PassServesDueTasks` speaks of
the end of a pass only; the strengthening says what is true in its middle: every slot that the pass
has gone by and that is due at the pass's tick has been touched.  It needs that `Register` arms a
slot for the future or marks it touched, and that the slot a task is called from is disarmed before
the call, which is why the task's own plans, made after, count.  `IrqWakeKept` needs `TypeOK` and
that disarming, unregistering and replanning remove the slot from `irq_wake`.  Each action has its
lemma (`LoopPreserves`, `RegisterPreserves`, …), and `NextPreserves` puts them together.  The
assumptions are
those that the module names (`SizeAssumption`, `TickAssumption`, …); TLC evaluates them in the run.
The bounds `MaxCalls`, `MaxLocks` and `TickBound` are parameters of the theorems too: these hold for
every value, so no bound hides a behaviour from the invariants.

`BufferProofs` proves of the three buffers, for any size and whatever is put into them:

- `TypeCorrect`: `head` and `tail` of the FIFO stay inside the buffer.
- `RingImplementsQueue`: `Spec => ImplementsQueue`; initial states map to the empty queue, and each
  of the ring buffer's steps to a step of the queue, a purge to its two.  The lemmas describe what the
  refinement mapping does when `head` or `tail` moves past the end of the buffer.  The mapping takes
  `tail` for stored as soon as a purge has stored `head` (`First`).  That needs an invariant
  (`InPurge`): meanwhile `head` is still 0 if the handler reads, and if it writes it does not go past
  `tail`, so what it has written lies from cell 0 up to `head`.

- `StreamImplementsWindow`: `StreamSpec => ImplementsWindow /\ []PlacesAgree`: the stream of samples is the
  window of the latest ones, and its queries for a place read the sample there.  The invariant,
  `StreamInv`, says that until the ring has wrapped around the head is at the last sample since the
  reset; `Place` is the cell of each sample of the window, without a modulo.

- `QueueImplementsMessages`: `QueueInit /\ [][QueueNext]_queueVars => ImplementsMessages`: the buffer of the
  message queue is a queue of whole messages.  The invariant, `QueueInv`, says that there are
  messages and the places where they end (`LaidOut`): each begins with its length where the one before
  it ends, its bytes follow, and the last ends at `used`; nothing is said of what earlier messages
  left behind.  A put adds an end; a get takes the first length off all of them, which is what moving
  the rest up does to the cells.  `From` and the abstract queue's `Taken` are recursive functions; that
  there are such functions and what they give is shown with the least place at which it would fail
  (`FromUnfolds`, `FromReads`, `UsedReads`).

The assumptions are that the sizes of the rings are natural numbers but 0, and `QueueAssumption` for the
message queue: its bytes, its size and the longest message are natural numbers, and a length takes at
least one byte.  The statistics of the stream (`StatisticsAgree`) sort and fold, and are checked only.

`BoardProofs` proves of three small drivers, of a UART, of the SPI and of USB:

- `NoPulseUntold`: `PulseSpec => []PulsesTold`, for a counter of any width and any number of edges,
  without an assumption.  The strengthening is `ToldOnce`: while the handler is told of an overflow
  none is counted as untold, because the update that follows replaces its event.
- `TheRelayAgrees`: `RelaySpec => []RelayAgrees`, without an assumption.  `RelayAgrees` speaks of a relay
  at rest; the strengthening, `Follows`, says what leads from any state to the last command: the command
  in its place, or the way back of the pulse underway, or the contact as it is.  `Active` says that the
  task exists while there is something to do, `Known` that in the middle of a command the driver knows
  what it has set.  What a transfer may leave of the record is said by `TransferChanges`,
  `WrittenChanges` and `DrivenChanges`.
- `FramesAreWhole`: `StripSpec => []PllHeld /\ FrameShownWhole`, for any number of pixels.  The
  strengthening, `FrameKept`, says which pixels of the frame have been shown in the middle of a transfer.
- `EndsAreTrue`: `StripSpec => EndIsTrue`, with at least one pixel.  `TestSeen` and `WipeSeen` say, for
  each place of the effect, which colours have been shown or are being sent (`ShownOrSent`).
- `TransmitterTyped`: `Spec => []TypeOK` of `UartWrite`; `ClockIsHeld`: `Spec => []ClockHeldWhileSending
  /\ DoneAloneMeansSent`; `ToldIsWhatIsSent`: `OneChunk => (Spec => []ToldIsSent)`.
- `ReceiverTyped`: `ReadSpec => []ReadTypeOK` and `ArrivalsAreAnnounced`: `ReadSpec => []ArrivalAnnounced` of
  `UartRead`: no byte that came by interrupt is left in the FIFO unannounced.
- `DmaReceiverTyped`: `DmaSpec => []DmaTypeOK` and `DmaReceptionInStep`: `DmaSpec => []InStep` of `UartDma`,
  the safety of `ReceptionFollows`.
- `SpiTyped` and `TransfersAreUndisturbed`: `SpiSpec => []TransfersUndisturbed`, provided that `~ Ook`.
- `UsbSendsInOrder`: `UsbSpec => []SentInOrder` of `UsbCdc`, for any sizes of the buffer, the packets and the
  writes that are at least one byte (`UsbSizes`).

The transmitter's theorems assume `LengthsAssumption`, `BoundsAssumption` and `SlotsAssumption`: lengths
but 0, bounds and sizes that are natural numbers, and at least two slots, numbered from 1.  The inductive
invariant, `WriteInv`, has five parts: types (`WriteTyped`, which leaves the clock's count unbounded); how
far a call has come (`CallMade`); the write underway has one task, that of the channel's `task_id`, and no
other slot is the channel's (`TaskRegistered`), which is what makes the handler's plan reach the right task
though another module may take the slot after a write; the clock's count is one for a write underway and
at most one more for each deinit (`ClockCounted`); and `QuietWhenDone`: without a write underway the
USART rests, and so it does when the task of the write is due.  The last part speaks of an application that
has not written in the middle of a write (`~ overlapped`), as `DoneAloneMeansSent` does; the types, the
task and the clock hold of any application.  `ToldIsWhatIsSent` needs `Kept` besides: in the middle of a
call, what is underway is what was told and what this call is going to tell.  Its hypothesis `OneChunk`, no
message longer than a chunk, is the exception named under "What the checks found", and without it the property is false.

Of the receiver by interrupt, `ArrivalAnnounced` says nothing of an application that is being told, and
would not survive the handler's return.  `AnnouncedEarly` does: a new byte finds the task due, or planned for
its timeout and about to look, or a handler that was told of data and reads until the FIFO is empty.  A
handler that was told of a timeout may return without having looked; for it the task must be due already.
`OfThePast` is that nothing is in the FIFO that has not arrived.  The assumptions are that a tick comes
before `TWR_TICK_INFINITY` and that the bounds are natural numbers.

Of the receiver by DMA, the task moves `head` after a register and the application moves `tail`, while the
DMA writes cells that are neither's.  `FollowedBy` relates the three by the history of the reception: the
channel's next cell is as far before `tail` as there are bytes received and not read, `head` as far as there
are bytes seen and not read, and the cells between hold these bytes in order.  A read (`OneRead`) and a
transfer (`OneMoved`) each keep it, the latter because less than a lap is unread; the places go past the last cell
by one lap at most, so that `Wrap` does for the remainder (`WrapIsMod`).  The FIFO has one cell at least.

Of the SPI, five facts hold as long as no event of the DMA is lost, and the proof needs them together
(`SpiInv`): the flags follow the place of the main program (`FlagsFollow`), the PLL's semaphore is its
users, HSI16's and the sleep lock follow it, and the value that the main program has loaded is the one in the semaphore
(`ClocksHeld`); the end of the transfer underway is in one place, the channel, its flag or the FIFO
(`EndsToCome`); the display's chip is selected from the call to the end of its transfer (`SelectedFor`),
and it asks before it waits for bytes (`DisplayAsksFirst`).  `HandlerUnderway` is what the
interrupt handler has seen in its middle: the free cell is still free unless another handler took it.
The hypothesis `~ Ook` is not a weakening to get through: the transmitter at 433 MHz changes the semaphore
from an interrupt, and with it `clock_race` shows the clock to fail.

Of USB, `UsbInStep` says where each byte is that was accepted: what the host has been sent comes first, then what
is left of the transfer, then what waits in the buffer, each at its place, and where some of a
transfer is left, what was written since ends before it.  The library sends from the buffer
that the next write fills, and the property excuses a write that reached bytes of the transfer, as the code does
not prevent one; so does the invariant (`overwritten`).

`DeviceProofs` proves of two drivers that hold what others use, of the search of a 1-Wire bus, of seven drivers
of sensors, buttons and lights, and of the clock's dates:

- `SharedSafely`: `Spec => []ConverterOwned /\ RightInput /\ FreshAnswer` of the converter, for any
  number of channels from 2 on (one and the reference), whether or not who measures by
  `twr_adc_get_value` takes the result.  Where the latest one did not (`unread`), the end of conversion
  that it left is taken for that of the next measurement: the converter and the device are still held from the
  request to the task, and what is claimed of values is claimed otherwise only.  `FreshAnswer` is
  about requests for a channel that is not being measured; a request that joins a measurement is told of
  that one.  The strengthening says that while a measurement waits for an interrupt, what is or was
  converted is the input its state selects (`Converted`), and that once the channel itself is converted
  its measurement has begun (`Begun`).  That the search for the next
  channel finds one that waits needs the least of a set of distances (`LeastNatural`).
- `EchoesAreOwn`: `EchoSpec => []HeldWhileMeasuring /\ EchoIsOwn` of the ultrasonic sensor, without an
  assumption.  The interrupt judges by flags and by a difference of captures; the strengthening,
  `Followed`, says for each number of edges since the measurement was accepted which flags they have
  left: three leave an overcapture flag, and of two that begin with a falling one the distance is too
  long for an echo, so that a result taken for valid is the measurement's own (`ValidIsOwn`).
- `SearchTyped`: `SearchSpec => []SearchTypeOK` and `TheSearchFinds`: `SearchSpec => []SearchFinds`, for
  numbers of any width, families of any number of bits less than that, and any number of devices.

A pass of the search is a function of the bit, followed by `AskedFollows` one bit at a time (the bits are
counted by the least one that fails, as the prover has no induction): the devices still addressed are
those that share the way so far and there is one, and at every device that left the way the direction
decided (`Chosen`); what is remembered is the last turn (`LastTurn`).  Of this follow the facts that
the algorithm rests on: the first pass finds the device that no other precedes (`FirstPass`); the next
one finds the next (`NextPass`), for it shares the way of the last up to the bit at which it turns
(`SharesTheWay`); and the first of a search for a family finds the first of the family
(`FirstOfFamily`), though it prefers 1 at the last bit, because there the parity leaves no choice.  The
invariant, `SearchInv`, adds to the type that the last number is that of a device and the last
discrepancy its last turn (`PassDone`), and for one device gone that another is left on the way to that
turn (`WayKept`): who has not been found is then where some pass to come turns (`NoneMissed`).  It was
checked by TLC before it was proved; that `OthersFound` needs its condition came out of this proof.

The others have each an instance of their own, whose variables the module declares:

- `SensorTyped`: `SensorSpec => []TypeOK`, and `UpdatesAreOfThisMeasurement`:
  `SensorSpec => []NotReadEarly /\ UpdateIsFresh` of the I2C sensors, without an assumption.  The strengthening:
  what is planned is planned for a measurement, and a handler is called only in the state it is called in
  (`SensorPlanned`); the parts before the one that is read have been read since the measurement was accepted,
  and what has been read is valid (`SensorRead`).
- `AlarmAndScaleKept`: `AccelSpec => []AlarmWatches /\ ScaleUsed` of the accelerometer, provided that
  `Careful`: without it the property is false, as "What the checks found" says.  The
  strengthening says what the alarm knows of the chip, and that whoever was accepted has a plan, a
  plan in a measurement is somebody's, and none is made in the middle of one (`AccelPlanned`); and that
  the chip is powered and scaled as the state of the driver has it (`AccelSet`).  The exception in
  `AlarmWatches`, `~ unasked`, is a fault of the code, described there too.
- `Co2RestsAndCalibrates`: `Lp8Spec => []SensorRests /\ CalibrationSent`, without an assumption.  The
  strengthening, `CommandChosen`, is that in the run of a calibration the command chosen is the calibration's, or
  that the calibration was changed midway.
- `BusPowered`: `Ds18b20Spec => [](PoweredWhenUsed /\ BusRests)`, without an assumption.  The
  strengthening, `PowerKnown`, is what the driver's flag says of the bus: it errs only after taking the power away failed.
- `EveryStepIsCounted`: `EncoderSpec => []StepsCounted`, without an assumption.  The count that the task
  has taken is the one that it clears, since the interrupt is disabled between (`TakenIsCleared`), and
  the last sample tells what the interrupt that is awaited will count (`SampledInStep`).
- `LedShowsWhatWasAsked`: `LedSpec => []ShowsWhatWasAsked` of `Led`, provided that the width of the pattern is a multiple of
  8 (`LedSizes`; 32 in the code).  While it blinks the slots that are over are 8 for each time
  done and the remainder, and the place in the pattern is at the same remainder (`Midst`).
- `PressesAreToldAsTheyWere`: `Init /\ [][ButtonsNext]_buttonVars => OneHoldPerPress /\ HeldIsNoClick /\
  DebouncedOnceSettled`, provided that a click's time is no longer than a hold's and the debouncing takes time
  (`ButtonTimes`; 500, 2000 and 50 ms in the code).  Its strengthening is what a button's fields may be before
  and after its press (`PressFits`).
- `DatesCountDays`: `RtcSpec => []DatesAgree` of `Rtc`, provided that the last year is of the
  century of the registers, which have two digits for it.  `BackYears`, the loop over the years, is a recursive
  function: a function given outright solves its equation (`YearEnds`), so that the one chosen does too, and by the least
  year for which they differ there is none (`BackYearsCounted`).  The tables of years and months are compared with the
  same rule (`EpochTable`, `NextMonth`), and so is the calendar that the clock follows (`DatesInv`).

`RadioProofs` proves of the link, for any number of radios, messages, peers and bounds, in each scenario:

- `TypeCorrect`: `Spec => []TypeOK`.
- `NothingIsForgotten`: `Spec => []NothingForgotten`: what a radio waits for has a task planned, an
  interrupt to come or a transmission in the air, whatever frames are lost, repeated or late.
- `ResentIsAsPromised`: `Spec => []ResentAsPromised`: the transceiver does what the protocol asked of it
  as soon as its task has run, what is sent again is the message that was asked for, and no message is
  sent more often than its number of attempts.

None of these is inductive, and none is a matter of one field: each handler of the protocol calls the
driver, the list of peers and the queues, and a call leaves the record in a state that a run of the task
never shows.  So the invariant has two layers.  `Core` is what is true of a radio in the *middle* of a
task, after any of its calls: the types (`Body`), that the state and the transceiver's goal fit
(`Agrees`), that the counters of attempts fit the transmissions made (`Counts`), what the transceiver
may be doing (`Transceiver`), and that work left in the queues has the task planned (`Work`).  `Planned` is what is true *between*
tasks besides: a goal not yet reached, a sent frame and a received one each have the driver's task
planned for now.  `Sound` is both, and `IInv` says it of every radio.  The lemmas follow the code: for a call
which fields it leaves alone (`SameBut`) and that it keeps `Core` (the names in `…Quiet` and
`…Step`), for a task that it makes `Sound` of `Core` (`…Sound`), for an action that it keeps `IInv`
(`…Preserves`).  The parameter `early` stands for `EarlyReturns`, with which the task may leave work
behind unplanned; the theorems hold with it and without.  A radio's invariant speaks of that radio
alone: what it hears is any frame at all, so the proofs use nothing of the ether.  The assumptions are those of `Radio` and `RadioLink`: `NONE` is no radio, body or
frame, `For` and `UnknownOrder` are about bodies, there is room for two peers at least
(`MAX_DEVICES`, 32 in the code), and the scenarios are of the radios there are.

`LinkProofs` proves of the link what the radios may believe of each other, again for any number of
radios, messages, peers and losses and in each scenario:

- `PairingAgrees`: `Spec => []PairedIsMutual`: a node that gets its peers by pairing only is paired only
  with gateways that took it and have not removed it since.
- `OutcomesAreTrue`: `Spec /\ []IdsLeft => []OutcomeIsTrue`: while no message id comes round, TX_DONE is
  true of a message, and an application is told of it once.
- `AcceptedInOrder`: `Spec /\ []IdsLeft /\ PeersStay => []AcceptedOnceInOrder`: if besides the slots in
  use keep their peers, each message is taken once, and a peer's messages in the order of sending.

The two conditions are what the code relies on.  An id is 16 bits wide and is compared for equality, so
the claims are false of a radio whose ids come round (`IdsLeft`: none has used its last one), as an ACK
kept for 65536 messages would answer the wrong one; `PairedIsMutual` compares no ids and needs no
condition.  A slot's `message_id` is all that a radio knows of what it took from a peer; when a peer is
removed, the last slot moves into its place, and a peer that is added anew finds a slot with some other
peer's last id in it, so that its message under way may be taken again (`PeersStay`: no slot in use is
vacated or given to another peer).

The handlers are not looked at twice.  `Moves` says what a step of one radio looks like from outside: the
radio says nothing new (`Silent`), starts a message with a new id (`Starting`), or decodes the frame in
its FIFO (`Learning`), and in the last case its table, its log, what it tells its application and its
answer are as that frame allows (`Table`, `Takes`, `News`, `Answers`): it acknowledges a message only
as it takes it or has it in its table, sends its id only to peers, and believes an ACK only for the
message that it sent last.  `Own` is the invariant of one radio that this needs: what is sent, saved and
told is its own message with its current id.  For each call of a handler a lemma says what it adds
(`Stays`, `Notes`, `Learns`), and `StepIs` that every step of the link is a move of one radio or the
delivery of a frame.  The invariants between radios are then proved of moves and deliveries only:

- `GrantInv`: an ACK with a gateway's id, in a transmit buffer or heard, says that the gateway took its
  addressee, and a gateway forgets nobody except into `removed`.
- `IdInv`: the frames in buffers and FIFOs are of the sender's current message or of older ones (`Fits`),
  and an ACK of the current one exists only once another radio has accepted it.
- `LogInv`: what a radio accepted of a peer has ids up to the one in the peer's slot (`Logged`), and a slot
  is never ahead of its peer or of what was heard of it (`Behind`).  Slots not in use hold the id 0 (`Fresh`);
  this is what removals break.

TLC checked the three on the scenarios before they were proved.  The assumption that is added is that
`ACK_SUB_REQUEST`, the mark of an ACK, is not the id of a radio.

`StoreProofs` proves of the list of peers and its copy, for any ids, any length of the list, and any
number of changes, of resets and of words that do not take:

- `TypeCorrect`: `Spec => []TypeOK`: the list stays within its table and holds no empty id, whatever
  records are left to be loaded.
- `ResetsDoNoHarm`: `Spec => []ResetsHarmless`: the next load finds everybody who was paired all the time
  since the list was last stored; and as long as every word takes and at most one reset came before, it
  brings nobody back and makes no id of the halves of two.

A record is read through its copies: an id other than 0 is voted for if and only if two of the three
copies hold it (`VoteIsMajority`).  So a word of an id that is written over a record of that id cannot
take its majority away, whether it takes or not (`VoteKept`).  The first part needs two invariants more:
`Covered`, that whoever was in the list all the time is stored at his place in the list *or behind it*
(a removal moves the last entry forward, and a record that is skipped moves those behind it forward; a
device that is added was not held), and `Rewritten`, that what the save has passed is stored.  When the
save overwrites the only record of a device that moved, it has passed the device's new place.  The
second part needs `Traced`: a record is that of one id seen (`Single`); after a reset it may be that of
two, with the words of the new one before those of the old one (`Torn`); and the record that is being
saved is one of these with the first words rewritten (`Over`).  Of such a record, of three ids at most,
two copies agree only on one of the three (`VoteOfThree`).  With a second reset, or a word that does not
take, a record may hold four ids, which is why the property stops there.

What the load makes of the records is a recursive function, `Found`.  That there is such a function
(`FoundUnfolds`), and that the list has the id of each record, none of them behind its own place
(`FoundGathers`), are proved by induction in the form of a least counterexample (`LeastNatural`), which needs no
operator as a parameter.  The assumptions are those of `PeerStore`: a word has a value, the list has room
for one entry and a free one, the ids are pairs of words other than 0 and the bounds are natural numbers.

Of the configuration in its three banks it proves, again for any number of resets and of words that do not
take:

- `ConfigTyped`: `ConfigSpec => []ConfigTypeOK`.
- `TheConfigIsKept`: `ConfigSpec => ConfigKept`: a device starts with the defaults or with a configuration that
  it was given by the last save that reached all banks or later, and what two banks took entirely is read.

`ConfigInv` has three parts that are not types.  Every hash in a bank is that of a configuration that may
be read (`HashesOffered`): a save writes the hash of one that it is given, and what is read fits
the hash that two banks agree on, so that a mixture is not taken, however many saves were cut short.
In a save the parts found to be written are still there (`SaveUnderway`: it comes back to no part of a
bank); and what was stored is in the first two banks word by word until the next save (`StoredHeld`),
so that the majority of each word is its own (`HeldIsRead`), whatever the third holds.  A hash
stands for the configuration it is computed of, that is, no two have the same one; `ConfigAssumption` says besides only that the default
configuration is one.

`ModemProofs` proves for any number of settings, requests and faults:

- `TypeCorrect`: `Spec => []TypeOK`.
- `SavedIsSaved`: `Spec => []ConfigSaved`: a setting that the driver counts as saved is stored in the modem.
- `NoErrorArises`: `Spec => []NoErrorOfItsOwn`: a modem that does nothing wrong, and an application that
  does not run the task while an answer is due, get no error.
- `WhatIsToldIsTrue`: `Spec => []ToldIsTrue`, which is these two.

`ConfigSaved` needs `SaveInv`: whenever the yes to a setting is awaited, that setting's command is alone
on its way, and what has come or is to come says yes only if the modem has executed it
(`YesIsItsOwn`); what the modem owes besides never says yes (`NoYesOwed`); and what is not stored is
still marked to be sent (`Kept`).  It rests on the driver's purging the FIFO before it writes, as one
step.
`NoErrorOfItsOwn` needs an account of the whole dialog, `DialogInv`: as long as nothing has gone wrong
(`Calm`), for each state of the task what the modem may have been asked and may have said that is not read
yet (`Talk`), in which baud rate it listens (`Baud`), that the first line has come when the task runs for
it (`Prompt`), that what the handler is told fits the state (`Telling`), and that of two requests one is
served at a time (`OneAtATime`).  `Replies` gives the lines of each command; that a handler's `CASE` over
lines meets none but these is a lemma per state.  Both invariants were checked by TLC before they were
proved; the assumption is `ModemAssumption`, of which only that there is at least one setting says something.

`RegisteredSlotsScanned`, `PassServesDueTasks`, `IrqWakeKept`, `ImplementsQueue`, `NothingForgotten`,
`ResentAsPromised`, `PairedIsMutual`, `ResetsHarmless`, `ConfigKept`, `PulsesTold`, `RelayAgrees`, `TransfersUndisturbed`,
`ArrivalAnnounced`, `SearchFinds`, `ToldIsTrue` and the types of the link, the list of peers and the modem are both checked and proved; so are `OutcomeIsTrue` and `AcceptedOnceInOrder`, under the
conditions above (in the instances a peer is removed too, but it is the only one, and the messages are
too few for their ids to come round); of `ConverterShared`, `PressesTold`, `MeasurementsServed`, `ShowsWhatWasAsked`, `RequestsServed`, `AlarmKept`,
`StepsReachApplication`, `AllWritesServed` (`ToldIsSent` for messages of a
chunk, as they all are in the run), `ReceptionFollows`, and of `StreamIsWindow` but the statistics, the safety
is proved, and all of each is checked.

Only checked by TLC, on the instances above:

- All liveness, that of the components with proofs too (`EverythingDone`, `EverythingAnswered`, `NoneStarves`,
  `TransferCompletes`, the parts of the properties above that promise an answer, …): fairness is beyond the prover.
- What is computed of data by folds, as that is induction over the data with operators as parameters:
  the radio's messages (the half of `ConversionsAgree` that is not of dates) and the statistics of the stream.
- `TypesOK` of the modules `MC…`, which joins the types of components checked in one run; many of its
  parts are proved above, the others are used by no theorem.

No module uses a recursive operator.

## What the checks found

Disagreements between the code and its documentation that a run shows:

1. **`radio_timeout`** — `twr_spirit1_set_rx_timeout` documents a "Maximum timeout for receiving"
   (`twr/inc/twr_spirit1.h:80`).  After a frame that the transceiver discards, reception is restarted
   without planning the timeout again (`twr_spirit1.c:409`).  A node waiting for an ACK, or with a
   receive window open, then listens until some frame arrives.
2. **`uart_overlap`** — WRITE_DONE, "Event is writting done" (`twr/inc/twr_uart.h:129`), is reported
   with the second of two messages unsent, when the transmission-complete interrupt of the first comes
   between the plan for never and the setting of TXEIE (`twr_uart.c:449`); the task disables the clock.
3. **`clock_race`** — `twr_system_pll_enable` increments a plain counter in the main program
   (`twr_system.c:407`), and the interrupt of the 433 MHz transmitter decrements it
   (`twr_rf_ook.c:171`).  When it comes between load and store the PLL is off and the counter says that
   it is on: the SPI transfer that begins runs without it, though "// Enable PLL and disable sleep"
   (`twr_spi.c:280`) was called, and nobody turns it on any more.
4. **`debounce`** — the debounce time is the "minimum sampling interval during which input cannot
   change to toggle its state" (`twr/inc/twr_button.h:106`), but `_tick_debounce` is set back only by a
   sample without a change (`twr_button.c:132`): right after a press was recognized a single differing
   sample releases it.  What does hold is `DebouncedOnceSettled`.

Disagreements that no run is about; the models follow the code:

- With the timeout `TWR_TICK_INFINITY` ("Maximum timeout in ms", `twr/inc/twr_uart.h:192`), which two
  modem drivers pass, the sum of ticks wraps and the read task reports timeouts in every pass
  (`twr_uart.c:602`).
- A search for a family ends with devices of other families, since nothing compares what was found
  (`twr_onewire.c:289`; `twr/inc/twr_onewire.h:143`): `FamilyFirst` says what is true.
- `twr_config_save` answers true whatever the EEPROM did (`twr_config.c:114`;
  `twr/inc/twr_config.h:31`).
- A LED whose mode is ON is dark after a pulse (`twr_led.c:31`; `twr/inc/twr_led.h:33`): `ShowsMode`
  makes an exception for it.
- Seconds since 1970 are computed in an `int`, which ends in January 2038 (`twr_rtc.c:261`).
- The guard of `twr_data_stream_get_nth` is the wrong way round for indexes from 0 on
  (`twr_data_stream.c:269`); `QueriesAgree` is about the negative ones, which are those in use.
- The accelerometer: a scale set in an event handler is never written to the chip, since the state is
  overwritten when the handler returns (`twr_lis2dh12.c:258`); a scale set while an alarm is set powers
  the chip down until the next measurement (`:173`).  Hence `Careful`.
- The accelerometer again: in an error the task takes the measurement back (`twr_lis2dh12.c:139`) and not
  the plan.  If the application asks for a measurement in the handler of an update, or motion is seen
  then, and the transfer that follows fails (`:242`), the task runs once more with no measurement asked
  for: it initializes the chip, which powers it down (`:173`), and returns with nothing planned (`:180`).
  The alarm is set ("Enable or disable accelerometer threshold alarm", `twr/inc/twr_lis2dh12.h:184`) and nobody watches for it until the next
  call or the end of the update interval: the exception `unasked` in `AlarmWatches`.  Without it TLC finds
  this in eight steps.
- The wait of an effect in a radio message is written in two bytes, and the high one is lost when it is
  read, `>> 8` for `<< 8` (`twr_radio_node.c:201`): an exception in `MessagesUnderstood`.
- The thermometers forget their resolution, which is written once after a search, when the power of
  the bus is taken away (`twr_ds18b20.c:363`).

Behaviour that no document speaks about and that the models follow, so that it appears as an exception
in a property or as a precondition:

- `twr_uart_async_write` of more than a chunk can lose bytes in the middle of a message, when the
  handler makes room after a chunk did not fit and before the next is tried (`ToldIsSent` is for
  messages of a chunk); `twr_uart_deinit` keeps the clock and the task id of a write that it ends
  (`ClockHeldWhileSending`).
- The radio task returns without planning itself on a subscription message with an unknown order and
  on a pairing request that does not fit a frame (`EarlyReturns` in `RadioLink`); other work waits for
  the next event.
- A frame that comes in TX_WAIT_ACK with no attempt left ends the transfer without an event; so
  `OneOutcome` says *at most* one.
- Peers in EEPROM: a reset in the save after a removal may leave the moved device in two records; it
  is then loaded twice, and one `twr_radio_peer_device_remove`, which answers true, leaves it a peer.
  A second save cut short over the remains of a first can produce two equal mixtures of two ids, which
  win the vote: an id that nobody has.  The repair of a record is written back only when something
  else wakes the radio task.
- The first timeout of an asynchronous read may be reported early, since the task runs at once after
  the start and once more after each plan for now.
- A write to the USB during a transfer of more than a packet can change bytes that are still to be sent
  (`twr_usb_cdc.c:118`): an exception in `SentInOrder`.
- The last pixel of a colour wipe is drawn and not sent (`twr_led_strip.c:290`), and the test of a strip
  blackens the buffer under a transfer that is going on (`:199`): exceptions in `EndIsTrue` and
  `FrameShownWhole`.
- The decoder of topics writes its 0 too far behind (`twr_radio_pub.c:442`), by the size of the value and
  one; the text ends where it ended when it was written.
- The first measurement of the CO2 sensor after an error counts a calibration as sent that was not
  (`twr_lp8.c:339`): an exception in `CalibrationSent`.
- The modem's answer to a setting clears the bit of a newer value of it (`twr_cmwx1zzabz.c:917`), and so
  does the answer to another command when a request ran the task before the modem had executed that
  one: the exceptions of `ConfigSaved`, `doubtful`.  The second came out of the proof: the invariant
  failed at `ConfigSaveSend` with a command still on its way, which takes more calls than the run allows.
- A failed initialization of the relay's expander may leave its coil energized (`twr_module_relay.c:21`):
  an exception in `CoilRests`.
- The FIFO of pending DMA events loses one when it is full or when two handlers write it at once
  (`twr_dma.c:33`, `:91`), and a transfer error is never acknowledged (`twr_dma.c:12`).
- A request for the channel that is being measured joins that measurement (`twr_adc.c:237`), and may be
  told of a value that was converted before it was made: an exception in `FreshAnswer`.  It stays pending
  all the same, so the channel is measured once more and told of once more; `Answered` says that this
  delays nobody for good.
- `twr_adc_get_value` without a place for the result does not read DR (`twr_adc.c:210`).  EOC stays set,
  and `twr_adc_async_measure` after it clears EOCAL only (`:261`): its first interrupt comes at once, with
  the old value, of which VDDA is computed; if the conversion has been started by then, the reference's
  value is told of as the channel's.  These are the exceptions `unread` in `RightInput`, `FreshAnswer` and `ConverterOwned`.  No caller in the SDK leaves
  the result.
- `twr_fifo_purge` stores `head` and `tail` without masking interrupts (`twr_fifo.c:12`), and the modem's
  driver purges FIFOs of a UART whose handler is active (`twr_cmwx1zzabz.c:349`, `:350`, `:363`, `:458`,
  `:803`, `:929`, `:1005`, `:1116`).  Between the stores a received byte may be refused, as if it had come
  before the purge, and the transmitter may send a byte of what is being purged.

`PROJECT.json` lists the hazards that weigh most, at their lines.  Three of them have no property, since
the code does not withstand them and no document promises that it does: a message of several chunks, the
nested DMA interrupts, and the answer that clears a newer value's bit, all described above.  The models have them, and the
properties except them: by the lengths of the messages, `lost` and `doubtful`.  The modem's properties say
that each request ends, not that it is told of only once.  Of the radio three more are known that
no property covers, since no document promises otherwise: a frame in TX_WAIT_ACK that ends the transfer
without an event (above; `twr_radio.c:699`); a message that is acknowledged and dropped since the
receive queue is full (`:890`); a peer that restarts and whose message carries the last identifier
accepted (`:868`).

## What is not modelled

- The values in messages, formatting, logging, register settings of the transceiver: no property is
  about them.  Frames garbled without notice would need the CRC, which is the transceiver's.
- Blocking functions (`twr_uart_write`, `twr_uart_read`, `twr_tick_wait`): sequential code that nothing
  interleaves with except handlers of other drivers.  The exception is `twr_adc_get_value`, which shares
  the converter.
- The purge in `Modem` is one step.  For what is received that is no loss: a byte that comes within
  a purge is either refused, as one before it, or kept, as one after it.  A byte that the
  transmitter takes within the purge of what is to be sent goes out before the AT, which the modem then
  does not understand; this appears as a command refused or lost (`Misbehave`), within its bound.
- The asynchronous write of `twr_eeprom.c`; the DAC; the setting of the RTC and its fractions of a
  second; the analog sensor; timers, watchdog and PWM.
- The registers of I2C: to the drivers a transfer succeeds or fails, which is how the models see it.
- The other sensors (SGP30, SGPC3, SPS30, ZSSC3123, CP201T, soil sensor, VEML, …), which repeat the
  shape of `Sensor` with other commands; PIR, switch, flood detector.
- The other modems and the AT console: command and answer over lines, of which `Modem` is the largest.
- Graphics, fonts, the brightness and the thermometer of a LED strip, the console, the log, infrared:
  data without a protocol.  The reception by USB: an interrupt that writes a FIFO which the application
  reads, as in `Fifo`.
- Messages that only older devices send (the header of the push button, a longer battery message).
- Ciphers, hashes and codes: pure computation, better served by tests with vectors.
- A word of EEPROM torn by the loss of power (a value neither old nor new); a reset falls between words.
- The vendor's HAL, CMSIS headers and the tables of the fonts, which are most of the lines of the tree
  and none of its logic: the share of mapped lines is small for this reason.

## Plan

Done: the scheduler with its proofs; the radio link; the UART with all its receivers; containers with
their refinements; both stores; SPI, DMA and clocks; the converter; buttons, LED, strip, encoder, pulse
counter; representatives of the sensors; relay; 1-Wire; dates; the radio's messages; USB; the LoRa modem.
Proved: see above; with the link and the modem the two largest state machines of the project.

Theorems worth having next: the types of the small drivers, where no proof above needed them; and, once it is
stated, that the link implements an abstract specification.

Models worth having next: restarts of a radio in the middle of the link, with message ids that begin
anew; an abstract specification of the link that `RadioLink` implements; I2C with its recovery of a
bus that is held; the asynchronous write of the EEPROM.
