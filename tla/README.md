# RKB-DM8100: models and proofs of the amplifier's control firmware

The RKB-DM8100 is a four-channel (A to D) networked power amplifier. An
STM32F2 runs one program without an operating system: a superloop
(`source/main.c`), interrupt handlers for SysTick and the serial port, and lwIP
for the network. This directory holds TLA+ models of the program's control
logic, their model-checking configurations and machine-checked proofs.

## 1. The system

`main` initialises RAM structures and the board, loads or resets the settings,
calls `mode_power_on` and loops. What a round of the loop does depends on
`power_status.pwr_status`:

| state | what runs |
|---|---|
| `MAIN_POWER_OFF` (`task_suspend`) | one character of input, transmitter |
| `MAIN_POWER_INITIAL` (`task_initializing`) | 20 ms countdown of 2 s, then `mode_status_initial` |
| `MAIN_POWER_ON` (`task_running`) | the 10 ms tick, one character of input, Ethernet, upgrade check |

The 10 ms tick (`check_timer_10ms`) is a fixed sequence: temperature scan, fan,
amplifier protection, signal sensing, digital receivers, publication of
temperatures, input selection, serial transmitter.

### Inventory

| component (source) | state it keeps | operations | talks to | hard part | what makes it correct |
|---|---|---|---|---|---|
| amplifier supervision (`power_led.c`, `signal_sense.c`, `proc_function.c`) | power status, protection, amplifier stage, debounce and sleep counters, mute | tick check, sense check, power on/off, commands | pins, published temperatures, commands | four writers of one amplifier stage; one wrapping counter for two debounces | interlock, bounded reaction, sleep only without signal, hot means protected |
| settings (`proc_function.c`, `eeprom.c`) | settings in RAM and EEPROM, marks `ADDR_RESET`, `ADDR_CHECKRAM` | load, repair, range check, reset, set | every component's parameters | power failure between any two writes; repairs and range checks that undo each other | all-or-nothing reset, cells in range, RAM = EEPROM after boot, hysteresis |
| temperature sensors (`adckey.c`) | debounce per sensor, accepted readings, published temperatures | scan and debounce, publish | ADC; fan and protection | sensors debounced side by side, published together | only steady readings, in bounded time, hottest published |
| cooling fan (`fan_ctrl.c`) | two speeds, timer, six thresholds | decide every 100 ticks, set a threshold | published temperatures, commands | thresholds in any order; a timer without a first value | bounded reaction, no chatter, high speed never alone |
| RS232 transmitter (`uart.c`) | ring, indices, `tx_existed` | put, start, interrupt | every reply; the USART | lock-free sharing with the interrupt handler | order, nothing twice, no stall |
| command input (`command_key.c`, `uart.c`, `httpserver.c`) | two receive rings, one command buffer, key structure | receive, assemble, parse, dispatch | every `exec_` function | two ports, one buffer; stale and uninitialised data | a line executes its own command, mix-ups end, no starvation |
| command execution (`command_key.c`) | - | some sixty commands | all components | all-channel recursion, unchecked arguments | (properties of the components commanded) |
| audio path (`njw1194.c`, `njw1112.c`) | volume of both sides and of the channel, balance, tone, routing | set, step, balance, set up after power on | SPI chips, EEPROM | four copies of volume and balance set by different commands; arithmetic on unsigned chars; two cells for one setting | chip, memory and EEPROM agree; balance only turns down |
| digital inputs (`ak4117.c`, `mode_input_check`) | lock status, its timer, selected input, stored mode | check, debounce, select, set the mode | receivers, EEPROM | the derived selection overwrites the setting; a timer without a first value | the input follows, gaps are bridged, a restart finds the mode |
| timers (`timer.c`) | one byte per period | count in SysTick, test and clear in the loop | every tick | test-then-clear against the interrupt; long passes | never early, in time |
| network set-up and DHCP (`netconf.c`, `stm32f2x7_eth.c`) | stage of the bring-up and of the PHY, `DHCP_state`, `STATIC_state`, interface, client | one stage a pass, half-second tick, set mode and address, stand by | PHY, lwIP's DHCP client, commands | switched off or switched over at any stage; `netif.dhcp` read without a look, though `dhcp_start` may have failed; tries reset by every change of the client's state | one interface, a client while waiting (if it could be started), a true status, comes up, settles |
| Ethernet server (`httpserver.c`) | slots with connection, state and send ring | accept, refuse, receive, send, poll, check | lwIP, command input | lwIP frees and reuses a connection's memory and tells no slot; ring and count of what is left kept apart; two segments for all | a slot per live client, rings agree, waiting bytes leave |
| EEPROM bus (`eeprom.c`, `i2c.c`) | - | bit-banged read and write | settings | give up after five tries in silence | written or reported |
| upgrade, board initialisation, LEDs | pins, registers | - | - | - | - |

Other sources in the repository are not part of this product's build
(`RA_function.c`, `rkb_temperature.c`, everything under `source/old`) or are
third-party code (`Libraries`, `Third_Party`).

The hazards, each at its line and with the properties that watch it, are listed
in `PROJECT.json`.

## 2. The modules

| module | what it is | run |
|---|---|---|
| `AmpSupervisor` | supervision of the amplifier | `MCAmpSupervisor`: `AmpSupervisor.cfg`, `AmpShutdown.cfg` |
| `AmpSupervisorProofs` | its theorems | |
| `Settings` | settings, boot, factory reset | `MCSettings`: `Settings.cfg`, `SettingsGateway.cfg` |
| `SettingsProofs` | its theorems | |
| `TempSensors` | debounce and publication of temperatures | `TempSensors.cfg` |
| `TempSensorsProofs` | its theorems | |
| `FanControl` | the fan | `MCFanControl`: `FanControl.cfg` |
| `FanControlProofs` | its theorems | |
| `SerialQueue` | abstract: what the transmitter promises | (through `SerialTx`) |
| `SerialTx` | the transmitter's ring, loop and interrupts | `SerialTx.cfg` |
| `SerialTxProofs` | its theorems | |
| `CommandInput` | two ports, one command buffer | `CommandInput.cfg` |
| `CommandInputProofs` | its theorems | |
| `TcpServer` | clients, their slots and send rings, on lwIP's memory | `TcpServer.cfg` |
| `NetConf` | bringing the Ethernet up, its address and DHCP | `NetConf.cfg` |
| `EthernetProofs` | theorems about `TcpServer` and `NetConf` | |
| `ChannelAudio` | volume and balance of a channel | `ChannelAudio.cfg` |
| `TenMsTimer` | SysTick and `timer_Get10ms` | (through `DigitalInput`) |
| `DigitalInput` | lock, input selection and stored mode, on the 10 ms tick; extends `TenMsTimer` | `DigitalInput.cfg` |
| `ChannelProofs` | theorems about `ChannelAudio`, `TenMsTimer` and `DigitalInput` | |

Names are the source's where TLA+ allows. A step of a model is a piece of the
program that nothing else can interleave with; where something can, the piece
is cut:

* the superloop runs one thing at a time, and the interrupt handlers share
  state with it only in the serial rings and the timers. So in `AmpSupervisor`,
  `TempSensors` and `FanControl` a handler, or a command, is one step. The tick
  of `AmpSupervisor` is three steps because the pins may change within it;
* in `Settings` each EEPROM write is a step, since the power may fail after it;
* in `SerialTx` each access of `PutChar` to a variable the interrupt handler
  reads is a step, and `uart1_TxData` in the loop is two;
* in `CommandInput` a step is the arrival of a piece of a line, or one round of
  `key_input_check`;
* in `TcpServer` a step is one callback of lwIP, one call of the program, or one
  iteration of the send loop. A handshake is two steps, SYN and accept, and what
  comes between them, the connection check included, can happen;
* in `NetConf` a step is what `EthernetMain` does in one pass of the loop, one
  half-second tick of DHCP, one message of the network, or one command;
* in `ChannelAudio` a command is one step up to its EEPROM writes, and each of
  those is another, which may fail in silence or never come;
* in `TenMsTimer` the test of `timer_Get10ms` and its reset are two steps, with
  SysTick anywhere; the tasks of a tick are one more.

`TcpServer` names the state of a connection by what its memory says, since that
is all the program looks at: `free` (reads `CLOSED`), `ghost` (freed by lwIP's
slow timer and still reading `ESTABLISHED`), `SYN_RCVD`, `ESTABLISHED`,
`CLOSE_WAIT` (which stands for all later states). `Listed` is being in
`tcp_active_pcbs`, the list the check walks.

The interfaces between components are inputs of any value: `AmpSupervisor` and
`FanControl` take any published temperatures, which is more than `TempSensors`
publishes; pins, signal and commands come in any order.

### History variables

Variables commented as "history" are not the program's; they record what a
property speaks of and no action's guard reads them: `released`, `run`
(`AmpSupervisor`), `asked`, `fresh`, `clean` (`Settings`), `scanned`, `streak`,
`collided` (`TempSensors`), `hot`, `cold`, `started`, `steady` (`FanControl`),
`queue` (`SerialTx`), `read`, `line`, `disturbed`, `blank` (`CommandInput`),
`orphan` (`TcpServer`), `lost`, `programmed` (`ChannelAudio`), `since`, `pass`,
`overrun` (`TenMsTimer`), `bad`, `steady` (`DigitalInput`). `twice` of
`TcpServer` is no variable of the program either: it tells that lwIP's list of
free control blocks is broken, and is read only by the bound stated there.

## 3. What the runs show

**amp_supervisor** (passes). `Interlock`: once the protection has released after
power on, "protection engaged and amplifier on" is only reached by signal
sensing, with its noise counter expired. `ReactsInTime`: at most
`AMP_CHECK_TIME + 1` consecutive samples ask in vain for the other protection
status. `SleepsForLackOfSignal`: running, unprotected and off means that a whole
sleep time was counted. `HotIsProtected`: after each check with the function
enabled a temperature above its limit finds the protection engaged.
**amp_shutdown** (finding): the protection engaged by `amp_status_initial` at
power on is not a shut-down amplifier, and a temperature above the limit does
not switch it off.

**settings** (passes). `ResetIsComplete`, `CellsInRange`, `RamMatchesEeprom`,
`HysteresisAfterBoot`, with power failures between any two writes.
`BootIsRepeatable`: from cells in range, every write of a boot and every failure
in it leaves cells that lead to the settings the boot would have had uncut
(`Outcome`), although a failure leaves a pair half repaired and the next boot
repairs it from there.
**settings_gateway** (finding): the gateway is loaded from the IP address's
cells.

**temp_sensors** (passes). `Debounced`, `FollowsTheScans`, and
`PublishedIsHottest` for as long as no two readings were accepted in one tick
since the last publication (see "Known deviations").

**fan_control** (passes). `HighNeedsLow`, `FollowsDemand`, `NoChatter`.

**serial_tx** (passes). `ImplementsQueue` is refinement of `SerialQueue`, where
the two exceptions are stated: the byte that fills the ring drops all of it, and
a byte put into an empty ring may be replaced by a stale one. `TestsStillHold`:
what the loop's `uart1_TxData` has tested holds when it acts. `KeepsSending`:
liveness.

**command_input** (passes). `OwnCommand`: a line read undisturbed executes the
command it is and nothing otherwise, and no earlier one again, although
`key_type` is left in `RS232_KEY` (`key`) from line to line. `StartsClean`: between two lines the shared
buffer is empty, so mix-ups end. `Served`: neither port starves the other.

**tcp_server** (passes). `RingAgrees`: `head`, `tail` and `left` of a ring, which
three functions move, agree up to two laps: a reply is copied whole whenever one
byte is free, so `left` may exceed the ring (`TypeOK`, proved, bounds it), but indices and
count never part. `EveryClientHasSlot`: a client lwIP holds established has a
connected slot. `StaleOnlyUntilCheck` and `SharedOnlyAfterReuse`: a slot names
memory that is no connection any more only until the next check, and two slots
name one connection only when a client comes on memory the check has not swept.
`WaitingBytesLeave` (liveness): once the unit is quiet and no peer connects any
more, waiting bytes reach lwIP, unless segments have leaked. Without "no peer
connects" TLC shows a client starved by another that connects again and again,
since a handshake takes one of the two segments.

**net_conf** (passes). `AddedOnce`: lwIP's list holds the interface at most once,
however often and at whatever stage the unit is switched off. `WaitHasClient`:
when `LwIP_DHCP_Process_Handle` reads through `netif.dhcp` there is a client, unless
the `dhcp_start` of this very wait returned `ERR_MEM`, which the code does not look at
(section 5); no mode change, refusal or power cycle takes a client away from a wait,
and none outlives it.
`StatusIsTrue`: a served unit that calls itself connected has an interface that is
up, with an address, the one it tells in DHCP mode (but for the deviation of
section 5). `Settles` (liveness): in DHCP mode the unit gets an address or gives
up, since `MAX_DHCP_TRIES` is reached although lwIP's client starts its count anew
with each state. After a `dhcp_start` that failed it gives up thanks only to the byte
read through NULL being above `MAX_DHCP_TRIES` (`TriesAtNull`): with `TriesAtNull = 0`
TLC shows a unit that waits for ever. `ComesUp` (liveness): with a link that stays, the unit gets from
the PHY to serving.

**channel_audio** (passes). `ChipFollows`: after `mode_status_initial` each
register stands for its side's volume and the present balance. `TurnsDownOnly`:
within its range balance makes no side louder than its volume, whatever the volume,
but for one from which the table's value is subtracted past 0 (`PassesZero`: less
than the value, more than half of it; section 5).
`CellsHoldVolumes`: with nothing left to write the cells hold the volumes, but
for a last write that failed. `BalanceKeepsVolume`: a balance command starts from
`vol` and still leaves both volumes alone.

**digital_input** (passes). `NeverEarly`, `OnTime`: two runs of the tasks are at
least 10 ms apart, and at most two passes late when passes are short enough.
`FollowsSignal`: the switch is where mode and signal want it after 256 + 40 runs.
`GapIsBridged`: automatic mode leaves the digital input only after two checks in
a row without lock. `CellTellsInput`: what a restart finds is the mode commanded
or the input automatic mode had chosen.

The type invariants and the property `StepsByOne` of `ChannelAudio` are in no run:
they are proved (section 4). `NetTypeOK` also says that the counters compared for
equality stay below the value they are compared with. `StepsEnabled` (`SerialTx`),
`RoundEnabled` (`CommandInput`) and `LoopEnabled` (`NetConf`) are premises of
theorems and in no run; put into the INVARIANTS of `SerialTx.cfg`,
`CommandInput.cfg` and `NetConf.cfg`, they hold.

### Bounds, and why they are enough

* `AmpSupervisor.cfg`: two channels (the code treats the four alike and asks
  only "all off?"), small debounce and sleep times, `U8 = 8`: the counters wrap
  within a few ticks instead of 256. Temperatures {0, 2}, the limit 1 at boot and
  1 or 2 by command (3 is refused): below, at and above. `PowerOption = {0, 1, 2}`
  is what the range check of the EEPROM lets through, so that option 4, the only
  one `mode_power_off` acts upon, never occurs; the proofs cover it.
  `no_signal_counter` above its limit is one value (`CountNoSignal`), and `run` is
  bounded by the property. The channels are interchangeable (symmetry).
* `Settings.cfg`: cells right, wrong in each pair's order and out of range
  (`MCStored`); one row for the channels' settings.
* `TempSensors.cfg`: three sensors, two and one in a group; values {0, 1};
  `HOLD = 3` as in the code; runs of equal scans are counted to `MAX_STREAK`.
* `FanControl.cfg`: `PERIOD = 2` and `U8 = 4`, so that the timer wraps before its
  first decision; temperatures for each of the five modes; thresholds hysteretic
  and not, and a command that sets any of them to 1.
* `SerialTx.cfg`: a ring of four slots, two bytes: it wraps and overflows in a few
  puts.
* `CommandInput.cfg`: rings of two slots, a buffer of three pieces, one prefix
  and a name of each of two tables, so that `key_type` differs from one command to
  the next; the proofs have the third table, and any names.
* `TcpServer.cfg`: two slots and two control blocks, so that a slot is stale,
  shared or taken, and a client refused; rings of two bytes, replies of one or
  two, so that a ring wraps and overflows; segments of one byte and two of them in
  all, as in `lwipopts.h`. No further client is modelled once the list of free
  blocks is broken (`twice`), until a power cycle sets it up anew.
* `NetConf.cfg`: two addresses, so that the user's, the server's and a second
  offer differ; `MAX_DHCP_TRIES = 4` as in the code, the back-off of lwIP at one
  tick a second (two in the code), so that five tries, a decline and a check are
  all counted out; the PHY is given one call to reset and three to find its link,
  enough to miss and to find it. The server or the network refuses once after
  each set-up of lwIP (`MaxRefusals`), with a NAK or by another host's ARP reply.
  Every `dhcp_start` may fail. `TriesAtNull = 8`: `tries` of a client at address 0
  is the high byte of a vector of the boot loader, 0x08 if that points into the flash
  (0x08000000). The boot loader is not in the repository; the proofs leave the
  byte open, and name what they need of it.
* `ChannelAudio.cfg`: volumes at both ends, just past the end, on both sides
  of 10 (where the table's rows change), and below and at its largest value, 32;
  balances at the centre, beside it, at both ends
  and beyond (`Explored`, `ExploredBalance` keep steps within them). `StrayByte` is
  what may lie behind the table.
* `DigitalInput.cfg`: `U8 = 10`, `TIME10MS = 3`, `LoopTime = 3`,
  `PLL_CHECK_TIME = 3`: a pass that overruns wraps the byte around, and the first
  check comes after a wrap-around, as with 256, 10 and 40.

### Fairness

Only four runs need any. `SerialTx!Fairness`: a routine that has begun ends,
a byte's transmission ends and its interrupt is served (weak fairness), and the
loop's `uart1_TxData`, called once a tick for ever, does not miss for ever a
ring that keeps being found filled (strong fairness, since interrupts may empty
the ring and other bytes refill it). Nothing has to be put. `CommandInput!FairSpec`:
`key_input_check` is called in every round of the loop (weak fairness on
`Round`); nothing has to be received. `TcpServer!Fairness`: a send loop that has
begun goes on, lwIP's slow timer polls every connection it holds, and a segment
is either acknowledged or lwIP gives up on its connection (weak fairness of
`Ack \/ PeerSilent`: the peer owes nothing). No reply, check or client has to
come. `NetConf!NetFairness`: `EthernetMain` and the half-second tick are called by
the loop for ever (weak fairness); a PHY that is asked again and again while its
cable is plugged finds its link and then negotiates in one of the waits for it
(strong fairness of `PhyLinked` and `PhyNegotiated`: each wait may time out and
reset the PHY). No message has to arrive, and no command has to be given.

### Assumptions about the environment

* `SerialTx`: a byte takes longer on the line (87 us at 115200 baud) than
  `PutChar` takes to run. If a byte started by an interrupt inside `PutChar`
  could also end inside it, a second interrupt at the wrap-around point would
  find the head out of the ring and replay it.
* `Settings`: one byte's EEPROM write is atomic and succeeds; `ChannelAudio` has the
  write that fails.
* `TcpServer`: lwIP 1.3.2 without threads, as `netconf.c` runs it; every callback is
  atomic. Its heap never runs out; its pool of segments does. Freed memory keeps
  its contents until it is used again (`memp_free` writes the first word only).
* `NetConf`: what is read through a NULL `netif.dhcp` is the fixed byte `TriesAtNull`,
  and reading it faults nowhere; an offer carries the server's identifier, as
  RFC 2131 requires (without it lwIP's client waits with no timer set, for ever);
  the user's static address is not 0.0.0.0. Commands switch the unit
  off and on here and in `TcpServer` and `ChannelAudio`; the code acts on them under the power
  option `SS_QUICK` (4) only, which the range 0..2 of the stored option does not let
  through. The shipped unit has fewer behaviours than these three models, and every
  safety property shown here holds for it.
* `ChannelAudio`: the SPI chips take every write.
* `DigitalInput`: the loop's commands run between two ticks; the pins and the
  status of the receiver may change at any time.
* A restart (`__iar_program_start`, or a power cut) zeroes the RAM.

## 4. Proofs

Each theorem is for all constants that satisfy the module's named assumption,
and is proved by an inductive invariant: initially true, preserved by every
action (one step per action in the proof), and implying the property.

* `AmpSupervisorProofs`: `TypeCorrect`, `InterlockHolds`, `ReactionIsBounded`,
  `SleepIsEarned`, `OverheatingIsProtected`, `ReleasedUnitShutsDown` (what
  amp_shutdown refutes is true once the protection has been released after power on,
  unless signal sensing has overridden the trip). The invariants add to each property
  where it stands within the tick (`step`), and to `ReactsInTime` that the run of
  samples is counted: `run <= check_timer + 1`, and the counter has not elapsed.
* `SettingsProofs`: `TypeCorrect`, `ResetCompletes`, `RunsInRange`,
  `StartsInAgreement`, `BootKeepsHysteresis`, `BootOutcomeIsFixed`. The invariants
  say, for each part of the boot and each row, what has been repaired, checked or
  reloaded so far. For the last one each repair is shown to leave `Outcome` as it
  was (`PairOutcome`, `ShutdownOutcome`), and a boot that has not been cut
  (`Asking`) to have in RAM what the repairs so far have made of the cells.
* `TempSensorsProofs`: `TypeCorrect`, `ScansAreFollowed`, `ReadingsAreDebounced`,
  `HottestIsPublished`. `Counted` says, for each mode of a sensor's debounce, how
  many scans in a row have agreed: holding, the run's length and the ticks left
  add up to `HOLD + 1` or `HOLD + 2`; off, the run's value has been taken over.
* `FanControlProofs`: `TypeCorrect`, `HighRunsWithLow`, `DemandIsFollowed`,
  `FanDoesNotChatter`. `Demand` adds the age of a demand not met yet to the ticks
  left to the next decision (`Left`, where a timer of 0 is a whole wrap-around
  away); the sum never exceeds `U8`. `Earned` remembers that the high speed was
  switched on above a threshold.
* `SerialTxProofs`: `TypeCorrect`, `TestsAreNotUndone` and the refinement
  `TransmitterImplementsQueue`, and `TransmitterKeepsSending` (below). `Length` ties the two indices to the number of
  bytes, with the one exception that makes `SendStale` necessary: between
  `rs232_Tx_Head++` and the wrap the interrupt may take a byte that is not there
  yet, and leave the head on the tail. `Contents` says that the slots from the
  tail on hold the queue in order, all but the byte being put. `SendRefines` and
  one step per action then map each step to one of `SerialQueue` or a stutter.
* `CommandInputProofs`: `TypeCorrect`, `BufferStartsClean`,
  `OwnCommandIsExecuted`, and `PortsAreServed` (below). `Clean` and `Sole` say what the shared buffer holds:
  nothing between lines, and in an undisturbed line that very line; `KeyClean` that
  between lines the key structure names no command. `ReadPiece`
  shows it for one port, and `RoundStep` applies it to RS232 and then to the
  Ethernet, as a round of `key_input_check` does.
* `EthernetProofs`, for `TcpServer`: `TypeCorrect`, `RingsAgree`, `ClientsHaveSlots`,
  `StaleSlotsAreChecked`, `SharingNeedsReuse`. The invariant has four parts that
  move together and are kept apart in the proof: `Rings` (a ring's counters, as
  laps of its length), `Loop`, `Clients` (slots against connections) and
  `Segments`. `PortionFits` and `EmptyRing` carry the arithmetic: what is handed
  over is never more than waits, than lwIP takes, or than lies before the end of
  the ring. `EveryClientHasSlot` is inductive because a slot is taken only when
  closed or empty and the check leaves a listed, established slot alone.
* `EthernetProofs`, for `NetConf`: `NetTypeCorrect`, `InterfaceAddedOnce`,
  `HandlerHasClient` (with a `dhcp_start` that may fail at any time, and for every
  `TriesAtNull`), `ToldStatusIsTrue`. `Stages` says what each stage of the
  bring-up has left behind: the interface is listed exactly while serving, and the
  states of DHCP and the static address are at their start until then.
  `ClientWaits` ties the client to `DHCP_WAIT_ADDRESS`, `AddressKept` the address
  told to the interface's. `SendFacts`, `ClientFacts` and `FineFacts` bound what
  lwIP's client may do to its record. `WaitIsFinite`: while an address is waited
  for, each tick, answer and refusal lowers `WaitLeft`, which weighs the refusals
  left above the stages of the exchange, those above the tries of a stage and those
  above the ticks of a try (`LeftFalls`); `ClientRuns`, that the timer of a client
  never stands at 0, makes it so. It assumes `TriesAtNull > MAX_DHCP_TRIES`, so that
  a wait without a client ends at its first tick. `AddressSettles`, `LinkComesUp`: below.
* `ChannelProofs`, for `ChannelAudio`: `AudioTypeCorrect`, `ChipFollowsMemory`,
  `BalanceTurnsDown`, `VolumesStored`, `BalanceChangeKeepsVolume`, `StepsAreByOne`.
  `EqualVolumesAgree` says that `vol` is the volume of equal sides, which
  `njw1194_vol_ctrl_l` and `_r` re-establish; `CellsFollow` that cells and volumes
  differ only by what is still to be written or has failed.
* `ChannelProofs`, for the tick and the inputs: `TasksNeverEarly`, `TasksOnTime`
  (the byte and the milliseconds since the last run differ by at most one pass
  until a pass overruns), `InputTypeCorrect`, `RestartFindsInput`, `SwitchFollows`
  (the runs since the last change and the ticks left to the next check add up to
  no more than `Reaction`), `GapsAreBridged`.

### Liveness

Four liveness properties are proved from their fairness, each under premises the
installed provers cannot discharge and the theorem states openly:

* that an action can be taken where its guard holds. ENABLED is beyond TLAPS, so
  the theorems assume `[]StepsEnabled`, `[]RoundEnabled`, `[]LoopEnabled`, which read
  "guard => ENABLED <<action>>" and nothing else. They are invariants of the
  small instances (section 3). That the guards come to hold and stay is proved;
* the rule of counting down (`CountsDown`, `EthernetProofs`): what leads to its end
  or to less of a natural number leads to its end. It is valid, being induction on
  that number, but its P and Q are temporal and no prover here does induction over
  those. The theorems assume one instance each, and prove its premise for every n.

`TransmitterKeepsSending` (`KeepsSending`): a routine that has begun ends; then the
loop finds `tx_existed` cleared, because the invariant says so of an idle USART, and
the indices apart, because there are bytes; or an interrupt is coming and sends.
`PortsAreServed` (`Served`): a round that passes over a port has ended a line of the
other, so the buffer is empty; the next round then reads both, unless it is blank.
`AddressSettles` (`Settles`): `WaitLeft` counted down by ticks, which nothing raises;
it assumes `TriesAtNull > MAX_DHCP_TRIES`, without which it is not true.
`LinkComesUp` (`ComesUp`): without an end the PHY would be reset again and again,
each reset is followed by a look for the link in time, strong fairness finds the link
and then the negotiation, and from there it is a few turns of the loop. It needs
`PHY_READ_TO > 1` (0x4FFFF in the code): with 1 the counter reaches it before the
link is looked at.

### Only model-checked

`WaitingBytesLeave`: its measure is a sum over all slots and segments
(`MapThenSumSet`), of which the provers know nothing without induction over finite
sets; and it is not for every constant true (with no segments nothing leaves). The
premises named under "Liveness". The violations of section 3 are counterexamples,
found by TLC. Recursive definitions do not occur in the models.

## 5. Known deviations

Besides the two findings of section 3, the models contain behaviour a reader of the code
may not expect. The properties above are stated around it, and say so.

* The defaults of the power supply's fan are swapped (`proc_function.c:60`): after
  a factory reset it is switched on at 50 and off at 60, until the next boot
  repairs the pair to 50 and 48.
* `temperature_read` leaves a publication to a later sensor with `KeyOk` set
  (`adckey.c:892`); when that one has nothing new, the published temperatures stay
  stale. Hence "unless two readings were accepted in one tick" in
  `PublishedIsHottest`. All sensors begin their debounce at the same tick.
* Balance: the table's value is tested against twice the volume and subtracted
  from the volume (`njw1194.c:186`), so that a side of a volume between half the
  value and the value wraps around to loud: hence the exception in `TurnsDownOnly`.
  `15 - data` and `15 + data` of the commands are not checked: beyond 30 the table
  is left, and `DIR_DIRECT` then refuses every further value. Balance is never
  stored, and refused without a word while the sides differ.
* A power failure between the writes of the two cells leaves a channel with
  unequal sides after the restart.
* In automatic mode the chosen input is written over the stored mode
  (`proc_function.c:564`): a restart ends automatic mode.
* `PLL_CHECK_TIME_40MS` counts 10 ms ticks: 400 ms. After boot the first check
  comes after 256 ticks, with `PLL_LOCK` (0) assumed until then, so automatic mode
  starts on the digital input.
* A pass of the loop longer than the byte's range (256 ms less 10) makes
  `Timer10ms` begin anew unnoticed.
* A full ring of any slot, also of a client that is gone, ends the copying of a
  reply for all slots after it (`httpserver.c:284`).
* A reply to a ghost takes segments that nothing gives back; when lwIP uses the
  memory again they are lost. With a pool of two, the server then falls silent
  until a power cycle.
* A refused client's control block is freed by `client_accept` and again by lwIP
  (`httpserver.c:577`), and `EthernetStandy` closes what may be free already.
* A client whose handshake straddles the check, on memory a slot still names as
  connected, is cut off by the check (`httpserver.c:476`).
* `network_status` still tells "connected" in standby, where nothing is served:
  hence "served" in `StatusIsTrue`. A unit with a static address that is switched
  to DHCP, refused there by a NAK and switched back tells "connected" without an
  address: hence its second condition.
* `LwIP_DHCP_Process_Handle` ignores what `dhcp_start` returns (`netconf.c:489`). When
  there is no memory for the client, its control block or its message, that is
  `ERR_MEM` with `netif->dhcp` NULL, the state is `DHCP_WAIT_ADDRESS` all the same, and
  the handler reads through NULL (lines 501, 537). What it finds at address 0 decides:
  `tries` above `MAX_DHCP_TRIES` and the unit gives up half a second later, without
  having asked a server; else it waits for ever. With an address already there, it
  takes that (and its DNS servers from address 0). `WaitHasClient` and `Settles`
  say where this is excepted; neither comment nor document speaks of it.
* `DHCP_TIMEOUT` is final: the unit asks no server again until it is switched off
  and on. A static address set by command, or the change from DHCP to static, is
  used from the next power on.
* `nvr_xPutData` gives up after five unacknowledged addresses and tells nobody
  (`eeprom.c:1008`): the setting is in RAM only. Hence "but for a last write that
  failed" in `CellsHoldVolumes`.
* The reception of RS232 never looks at `rs232_Rx_Tail` (`uart.c:136`): the byte that
  fills the ring empties it. `OwnCommand` speaks of lines as they are read, after that.
* `PutChar` moves `rs232_Tx_Head` before it stores the byte (`uart.c:455`): an
  interrupt in between sends what the slot held before, and the byte is never sent.
  That is `SerialQueue!SendStale`; without it TLC refutes the refinement.
* The DHCP client is stopped as soon as the interface has an address
  (`netconf.c:507`), so that nobody renews the lease, and the address is kept when
  the lease is over.
* A unit switched from its static address to DHCP while serving finds the interface
  with an address and takes it, its own, for one a server has assigned
  (`netconf.c:501`).
* `noise_counter` is reset neither by waking nor by switching off
  (`signal_sense.c:87`): the next wake may need a single sample of signal.
  `mode_status_initial`, waking and `exec_amp_ch_on` unmute channels by different
  rules. Power option 2, which the range check lets through, switches the amplifier
  on and leaves the power status off.
* An address is four writes (`command_key.c:2066`): a power failure in between
  leaves a torn one, which nothing checks. `Settings` has an address as one value.

## 6. Not modelled

* Tone (`njw1194_treble_ctrl`, `njw1194_bass_ctrl`) and routing (`njw1112.c`,
  `proc_input_channel_set` with its index one past the channels): a register
  write and a cell each, sharing no state with volume and balance. Mute of
  single channels is modelled as far as the amplifier's supervision sees it.
* Of the network: the link interrupt's registers, netmask, gateway and DNS, which
  go with the address; the UDP discovery; the upgrade connection and the boot
  loader behind it.
* The bytes of a ring: `ethernet_send_message` hands lwIP the ring's memory by
  reference, which later replies may overwrite before it is sent; the model keeps
  indices only.
* The bit-banged EEPROM bus and its retries, the SPI drivers, register set-up,
  LEDs and the texts of replies.
* The sources outside this product's build and the vendored libraries, but for
  the parts of lwIP that `TcpServer` and `NetConf` rest on.

What would be added next, in this order: `EepromBus` (addressing, acknowledge
and retry below `Put` and `Store`); `Thermal`, the composition of `TempSensors`,
`FanControl` and the protection, which now take each other's outputs as free
inputs; tone and routing beside `ChannelAudio`; `NetConf` composed with `TcpServer`,
whose `EthernetStandy` is now a free input.

## 7. Running

    tlc -workers 2 -config AmpSupervisor.cfg MCAmpSupervisor
    tlapm AmpSupervisorProofs.tla

The other runs are listed in section 2.
