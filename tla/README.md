# A TLA+ verification of the DC extension firmware

The firmware runs on an RP2040 that switches a DC output, measures it, keeps two
settings in flash, takes commands over a UART and updates itself over the same
UART through an A/B bootloader. It has no operating system, and most of what can
go wrong needs a power cut, a lost byte or a stalled sender at the wrong moment.
This directory models those parts in TLA+, model-checks them with TLC on small
instances and proves the most important results with TLAPS for all sizes.

Paths below are relative to the repository. `PROJECT.json` maps every definition
to the lines it models and lists every run, mutant, finding, hazard and theorem.

## 1. Inventory

| Component | State it keeps | Operations | Must hold |
|---|---|---|---|
| Settings store, `src/flash_store.rs` | one flash sector as a ring of 16 pages; `current_entry` in RAM | `new`, `set_power_state`, `set_restore_mode`, `write_entry` | RAM and flash agree between commands, across wraps and power cuts; pages are only programmed blank; the sector is erased only when full |
| Power output, `src/power_control.rs`, `src/main.rs:159-195, 240-262` | GPIO 4 | boot with restore mode, `PWR_ON`, `PWR_OFF`, `RESTORE_MODE_*` | what was commanded is what the next boot restores |
| Flash driver, `src/direct_flash.rs` (and its copy in `bootloader/`) | none of its own; one interrupt-masked window per operation | `erase`, `write`, `read` | exactly the requested bytes change, in order, for any alignment |
| Updater, `src/fw_update.rs` | DFU partition, running CRC, offsets | one session: length, chunks, CRC, verification, mark, reset | only an image that is right in flash is marked |
| Boot confirmation, `src/main.rs:280-299` | `boot_confirmed` | first tick: `mark_booted` after a swap | a hanging update is taken back; a healthy one is kept, unless commands starve its first tick |
| Bootloader, `bootloader/src/main.rs` with embassy-boot | state partition: magic word, progress marks | `prepare_boot`: swap, resume, revert | the chip always runs one whole image |
| Command handler, `src/uart_handler.rs` | receive ring, line buffer | `read_command`, `read_exact`, `send_*` | every command sent on a line of its own is returned, no byte is used twice |
| Main loop, tick and watchdog, `src/main.rs:148-366` | ticker, watchdog, the wait under way | `select` of command and tick; the waits of commands, ticks and sessions | the watchdog never fires on working firmware; ticks keep their pace; status lines go on; missed ticks are worked off |
| Startup and clocks, `src/main.rs:117-228`, `prestart_xosc` | - | clocks, UART, watchdog, settle delay, output, ticker | the output is restored before anything can fail; the watchdog is armed before anything can hang |
| Telemetry, `src/main.rs:301-366`, `send_status` | - | two I2C reads with a timeout each, the status line | a sensor that holds the bus costs two timeouts and no status line |
| Panic handler, `src/panic_handler.rs`, `bootloader/src/main.rs:80-94` | - | mask interrupts, report, reset | a panic ends in a reset |
| Wire protocol, `src/fw_update.rs:1-33` and `tools/uart-fw-update.sh` | what each side waits for | request, length, chunks, CRC and their answers | the sender's success means the update was marked |
| Packaging, `package.sh`, `memory.x`, `build.rs` | - | partition layout, provisioning | see section 7 |

How they interact. The main loop is a single task. It owns the handler, the store
and the output and calls them one after the other; a command or a tick runs to its
end before the next one. What runs beside it is the UART interrupt, which moves
bytes from a 32-byte FIFO into the receive ring. Flash operations mask that
interrupt. The settings store, the updater and the confirmation share the flash
driver, on disjoint partitions; the updater and the bootloader share the DFU and
state partitions but never run in the same boot stage; the bootloader and the
confirmation share the watchdog: the one arms it, the other's loop feeds it.

Hard behaviours: power may fail between any two flash operations and inside one;
the settings ring, the FIFO and the line buffer fill up; `select` drops
`read_command` whenever the ticker wins; a sender stops anywhere; the watchdog
fires on an image on trial; the swap and the revert are resumed any number of
times; reads that stall, flash windows, answers and sensor timeouts add up between
two feeds of an 8 s watchdog, and `select` prefers a command to a due tick. `hazards` in PROJECT.json lists each at its line.

## 2. Modules

| Module | Models |
|---|---|
| `NorFlash` | a byte of NOR flash: what programming, erasing, and being cut short do to it |
| `FlashStore` | the settings store, flash operation by flash operation |
| `DurableSettings` | abstract: one durable value, changed by a commit or wiped before one |
| `FlashStoreProofs` | theorems about `FlashStore` |
| `PowerDevice` | output pin and boot, composed with `FlashStore`, which it extends |
| `PowerDeviceProofs` | theorems about `PowerDevice`, from those about the store |
| `DirectFlash` | `erase` and `write` of the flash driver, window by window |
| `DirectFlashProofs` | theorems about `DirectFlash` |
| `Bootloader` | the two slots, the state partition and the swap |
| `AbUpdate` | updater, confirmation and watchdog over `Bootloader` |
| `UpdateContract` | abstract: a confirmed image, a candidate, one trial |
| `AbUpdateProofs` | theorems about `AbUpdate` |
| `UartHandler` | FIFO, ring, interrupt, line parser, raw reads, and what the loop is busy with |
| `UartHandlerProofs` | theorems about `UartHandler` |
| `MainLoop` | the loop, its waits, the ticker and the watchdog in discrete time |
| `MainLoopProofs` | theorems about `MainLoop` |
| `FwLink` | the update protocol on the wire, device and sender script, run after run |
| `FwLinkProofs` | theorems about `FwLink` |
| `MC*` | constants for TLC |

Operators whose comment begins with "Mutant" are plausible bugs; the specifications
never use them. PROJECT.json pairs each property with one that violates it.

### Settings store

`sector` holds the pages as pairs of bytes, a byte as the set of its one bits:
programming intersects (it can only clear bits), erasing gives all bits back.
`entry` is `current_entry`. `phase` names the flash operation under way, and
`slot` its page. `SetPowerState` and `SetRestoreMode` are the setters up to the
first flash operation; `EraseSector` and `ProgramPage` complete one each, so
`PowerLoss` can come between. With `TornFlash` it can also come inside one and
leave, per byte, anything between the old and the new contents; `damaged` then
remembers that this happened since the last completed erase. A byte has three bits
in the runs: two tell the values 0, 1, 2 apart and one stands for the other six,
which behave alike.

### Power output

`Boot` is `FlashStore::new`, the pin set low, and the match on the restore mode.
`PowerOn`/`PowerOff` set the pin first and the store second, as the code does.
`commanded` and `lastPower` are history variables for the properties. The module
extends `FlashStore` and adds to its variables; `DeviceSpec` steps the store only
through boots and commands, so every device behaviour is a store behaviour
(`DeviceUsesStore`) and the store's properties are checked again in its run.

### Flash driver

Pages of `PAGE_SIZE` bytes in sectors of `SECTOR_SIZE`. `Erase` and `Write` are the
range checks; `EraseSector`, `ProgramPages` and `ProgramPartialPage` one XIP-off
window each; `PowerLoss` may come between windows. Addresses wrap at `U32`, as
`u32` does. Source buffers and the ROM's entry sequence are left out.

### A/B update

`active` and `dfu` are sequences of pages, a page being a part of an image or
garbage. `magic`, `pvalid` and `progress` are the state partition: the word, the
"progress invalid" word and the number of progress marks. `pc` is what the chip is
doing, from the bootloader's decision (`Prepare`), through every erase, write and
mark of the swap and the revert (`CopyPage`, `RecordProgress`), to the running
application and its update session. Storing a magic word is three flash
operations (`Invalidate`, `ClearState`, `WriteMagic`) wherever it is done.
`UpdateContract` hides all that: `Stage` and `Running` are its refinement mapping.
The swap itself is embassy-boot's; those definitions are marked external and
follow from how that library lays out its state partition.

### Command handler

FIFO, ring and line hold positions in the stream `sent`, so a byte keeps its
identity. `KeepPartialLine` and `ReturnCommand` are one turn of `read_command`'s
loop, with any chunk `fill_buf` may return; nothing is kept between two turns but
`line`, which is why a tick may come there. `task` says where the loop is: awaiting
bytes, in a flash window (interrupt masked), busy with I2C or output, or in an
update session. Interrupt latency and parsing are fast compared with a byte time
(87 us): a FIFO overruns only while the loop is in a window or busy.

### Main loop

`MainLoop` has the whole application as one task that waits. `task` names the wait,
`timer` what is left of it, `dog` what is left of the watchdog, `next` the time to the
ticker's expiry, negative when ticks are overdue. `Elapse` passes one unit of time and
is enabled only while the processor waits; every other action is a step that ends one
wait and begins the next, with the feed of the watchdog where the code has it: in the
tick, after a complete chunk, before each flash operation, in the bootloader.
`TakeCommand` is the biased `select`: a line in the ring wins over a due tick, which
the history variable `starved` remembers until the next tick, and `behind`, which
remembers sessions too, until the overdue ticks are worked off. A read of a session swallows the lines in
the ring and ends early, at its timeout, or with an error. A tick is sensor, second
reading and status line, each bounded. `Boot` to `StartLoop` is the chip's way from
reset through `COPIES` page copies to the loop; an image on trial may hang instead,
any task may panic, and power may go at any time.

### Wire protocol

`FwLink` puts the session of `fw_update.rs` against `uart-fw-update.sh`. The stream
is cut into units (half a command line, a length, half a chunk, a CRC), so a lost
unit leaves the receiver out of step as lost bytes do. `expect` is what the script
waits for and `Proceed` what it sends next; `dev` is what the device awaits or does.
The command parser is reduced to what decides whether a session starts: is the line
under way empty, the first half of `FW_UPDATE`, or something else (`AfterLine`).
Whatever unit comes when a length is due is taken for one, up to `MaxSize`, which is
`MAX_IMAGE_SIZE` in units (`LengthOf`).
`FlashWindow` loses half a chunk if one arrives during flash work. `KeepsAnswers`
says whether unread answers outlive a run of the script; they do as long as another
process has the terminal open. The history variable `overlap` counts, up to two, the
runs in a row that were started while the device was not `Quiet`, at its prompt with
nothing on the way to it. `AbUpdate` has the flash side of the same sessions.

## 3. Runs

| Run | Shows | Bounds, and why they suffice |
|---|---|---|
| `FlashStore_heal` | `DurableUnlessDamaged` with torn operations | 2 pages, 3 bits: an entry can be shadowed and merged |
| `FlashStore_wrap` | violation: `CommitIsAtomic` | 3 pages |
| `FlashStore_torn` | violation: `EntryIsDurable` with torn operations | 2 pages |
| `PowerDevice` | `EntryIsDurable`, `ProgramsBlankPage`, `ErasesOnlyFullSector`, refinement of `DurableSettings`, `CommandedLevelSurvives`, `CompletedOffStaysOff`, with cuts between operations | 4 pages: first, last and inner pages differ, and the ring wraps without limit |
| `PowerDevice_laststate` | violation: `LastStateIsRestored` | 3 pages |
| `DirectFlash` | `StaysOnChip`, `WritesExactly`, `ErasesExactly` for every address and length up to 4 | 2 sectors of 2 pages of 2 bytes: head, whole page and tail occur together; an address word of 12 values for a chip of 8 bytes, so that ends of ranges wrap |
| `AbUpdate` | `RunsWholeImage`, refinement of `UpdateContract`, `AlwaysRecovers` | 3 pages per slot, three images of different sizes, one of which hangs; any number of updates and resets, bites of the watchdog on working images among them |
| `UartHandler` | `UsedOnceInOrder`, `LinesAreHeard`, `LoopReturns` | 5 bytes of 4 kinds, lines cut at 2 bytes, ring of 2, FIFO of 1: overlong lines, overruns and sessions occur before a good line |
| `UartHandler_lost` | violation: `NoByteDropped` | 5 bytes |
| `MainLoop` | `WatchdogStaysFed`, `OnlyExcusedReverts`, `TicksOnTime`, `Recovers`, `StatusContinues`, `CatchesUp` | a unit of 250 ms with the shorter waits rounded up to it: period 4, watchdog 32, receive timeout 12, settle 4, I2C, answer and flash operation 1 each; 33 copies, one more than the watchdog has units, so a swap outlives it; images of 2 chunks; up to 2 lines waiting; ticks counted up to 6 units overdue, more than one period; any number of resets, updates and sessions |
| `FwLink` | `SuccessMeansMarked`, `FlowControl`, `FirstTrySucceeds`, `SessionsEnd`, `RetriesSucceed` | two images, one of a full and a short chunk, one that fills its chunk; five faults: a run can be killed in a chunk, the next begun too early and killed, a third begun too early, and a message or an answer lost besides; any number of runs |
| `FwLink_stale` | violation: `RetriesSucceed` when answers outlive a run | one fault |

### What the violations say

* **A wrap is not atomic** (`flash_store.rs:149`). On every sixteenth change the
  only copy of the settings is erased before the new one is programmed. A power cut
  in between boots with the defaults.
* **A torn operation outlives the reboot** (`flash_store.rs:140`). The free-page
  scan looks at one byte, the valid-page scan takes the last page that parses. After
  a torn program or erase, a later change may be merged with leftover bits or sit
  below a stale entry. `DurableUnlessDamaged` shows how long this lasts: until the
  next completed erase.
* **LastState restores a level the output did not have** (`main.rs:177`). Restore
  modes On and Off move the pin at boot and leave the stored power state alone.
* **Bytes are dropped** (`uart_handler.rs:3`). A flash window masks the receive
  interrupt; an erase takes tens of milliseconds, the FIFO holds three.
  `LinesAreHeard` shows that what follows the next newline is unharmed.
* **Stale answers wedge the sender** (`uart-fw-update.sh:58`). The script is to be run
  with `jetkvm_app` stopped, which keeps the port open; so answers to a killed run
  stay in the terminal. The next run takes them for its own, sends without waiting,
  loses half a chunk to a flash window, dies on the old error and leaves new answers
  behind. With two faults such a run can even report success for an image that was
  not marked. Discarding the terminal's input before the request (`FwLink` with
  `KeepsAnswers = FALSE`) makes the properties of that run hold.

### What `SuccessMeansMarked` excludes

Nothing in the protocol ties an answer to a run. A run begun while the device is not
quiet has its request read as whatever the device awaits, or queued behind an earlier
one, and is given answers to earlier units. The property, and its proof, cover runs
that have the device to themselves and runs that overlap one before them; they leave out
a run that is the second or later in a row to be begun too early (`overlap = 2`).
Beyond that the claim is false. The behaviour that shows it came out of the proof
attempt and was replayed with TLC: 65 steps, five runs and nine faults, images of one
unit, `WireUnits` 12, the terminal closed between runs.

1. The first run is killed once its CRC is sent; the second takes the `CRCOK` that comes
   then for its `OK` and sends its length too early.
2. It, the third and the fourth are begun before the device has read what is there,
   so three requests pile up on the wire; the session of the first of them reads the
   halves of the next as chunk and CRC, and its `ERR` is lost.
3. The fourth run, answered by that session, has meanwhile sent its whole image; it is
   killed. On the wire is now a request with a length, an image and a CRC behind it.
4. The fifth run, of another image, is told `OK`, `RECV`, `ACK`, `CRCOK` and `FLASH`
   for those, and reports success while the fourth run's image is marked.

In the bounds of the run, TLC finds the claim true without the exclusion, and so it does
for the same images with up to 8 faults and 8 units on the wire.

### What `WatchdogStaysFed` excludes

The watchdog fires on working firmware in two cases, both named in the property.

* A stream of commands that `select` prefers to a due tick (`starved`). The loop feeds
  the watchdog in the tick only, and polls `read_command` first (`main.rs:236`). Each
  VERSION request takes longer to answer than to send, so a sender that repeats
  it keeps the ring filled; sessions begun one after the other that stall do the same.
* A session that begins before the first tick of a boot. The watchdog was last fed
  before the settle delay of 1 s; the tick, due 1 s later, waits for the session; a length
  that comes at the end of its 3 s and a chunk that stalls for 3 s make 8 s. The
  boot is not one of a trial, because a session on trial is refused at its length.

The first case can cost a healthy update. If the image starved of its first tick is one
on trial, the bootloader finds the swap complete and not confirmed, and reverts it.
`OnlyExcusedReverts` says that this is the only way in which time undoes a healthy
update: a trial that ends in a revert has hung, panicked, lost power or been starved
(the history variable `excused`, which is set where one of these happens and cleared
where a healthy trial begins). The settle delay, sessions that are refused or
given up, answers, silent sensors and the confirmation itself never do, and no session
resets the chip during a trial.

`AbUpdate` has no clock, so its watchdog may bite whenever the firmware waits, on a working image
as on a broken one: its safety properties and the refinement hold whoever wins that race.
Only its liveness, `AlwaysRecovers`, assumes that from some time on none but hanging
images are reset.

## 4. Fairness

Liveness is stated only under `FairSpec`, by weak fairness of single actions.

* `AbUpdate`: the bootloader's and the firmware's own steps (`Boot`,
  `InvalidateProgress`, `ClearStateSector`, `SetMagic`, `StageChunk`): the processor
  executes what it has begun. `ConfirmBoot`: the ticker fires each second.
  `AbortUpdate`: `RX_TIMEOUT` ends a session whose sender is silent. `Watchdog` is fair
  only where the image `Hangs`: the hardware must bite one that never feeds it, and may
  bite others. Nothing is assumed of the sender. That other resets end is the
  hypothesis of `AlwaysRecovers`.
* `UartHandler`: the interrupt, the loop's turns, the end of a flash window, of an
  I2C transfer (each has a timeout) and of a transmission (there is no flow control),
  and `RX_TIMEOUT`. Nothing is assumed of who sends bytes.
* `MainLoop`: time passes (`Elapse`), and the processor and the watchdog take the steps
  that are due without the world's help (`Run`). Nothing is assumed of the sender, of
  the sensor, or of the panic handler's return: each has a timeout, or the watchdog, behind
  it. The hypotheses that power stays on, nothing panics, no command is preferred to a
  due tick or no line comes are part of the properties.
* `FwLink`: the script and the device go on with what they have begun (`Link`, `Run`),
  `RX_TIMEOUT` fires on a silent sender, the first tick comes. Starting, resuming and
  stopping the script is up to its user: that somebody keeps starting it is the
  hypothesis of `RetriesSucceed`, not an assumption of the specification.

## 5. Proofs

`FlashStoreProofs`, for any number of pages and any byte width that holds the
values. `EntryIsDurable` is not inductive: it says nothing of the pages between
first and last. The invariant `IInv` adds the shape of the ring: some prefix of the
pages holds entries and the rest is blank (`Filled(sector, k)`); the write under way
targets page `k`, or the sector is full and being erased. Over that shape both scans
have a closed form (`ReadOfFilled` and its companions), so each action is a short
step. Torn operations break the shape; the history variable `damaged` says when, and
`IInv` is conditional on it. From `IInv`: `TypeCorrect` and `DurabilityHeals` hold
always; `Durability`, `BlankPages`, `FullErases` and `StoreRefinement` assume
`TornFlash = FALSE`.

`AbUpdateProofs`, for any number of pages, images and sizes. `IInv` has the types,
`ControlInv` (which state words go with which `pc`) and `DataInv`: while a swap is
on record, `Layout(progress)` says for every page of both slots which image's page
it holds after that many copies, with one page exempt while it is being rewritten.
Each copy moves from one layout to the next; `Layout(Swapped)` is the candidate in
place and `Layout(Reverted)` the old image back. From it: `TypeCorrect` and
`WholeImages`. `Refinement` maps each action to a step of `UpdateContract` or
to a stutter.

`PowerDeviceProofs`, for a ring of any size. `DeviceUsesStore` shows that the device
only steps its store as `FlashStore` allows, so `Durability` is a fact about the
device; the rest is two small invariants, `PinInv` (after a command, pin and RAM
entry agree) and `OffInv` (a PWR_OFF under way holds in RAM, a completed one in flash). From them: `DeviceTypeCorrect`, `CommandsSurvive`, `OffIsFinal`.

`DirectFlashProofs`, for any page size, sector size and chip size. The first part is
arithmetic: the next page boundary, whole pages, what the head and the tail of a write
leave (`NextBoundary`, `WholePages`, `PageBase`). The invariant adds to the properties that an
operation keeps to its range, and an erase to sector boundaries (`InRange`). `ChipIsNotLeft`,
`WritesAreExact` and `ErasesAreExact` follow for all requests, those whose end wraps included.
`TypeCorrect` is proved besides.

`MainLoopProofs`, for any durations within the budgets of `BudgetAssumption`: a session
that stalls twice just before a tick, and a session refused before the first tick, each
fit into the watchdog; and the waits of a tick fit into a period. The invariant bounds,
for every task, the time since the last feed plus what is left of the wait (`BudgetInv`);
`TickInv` ties the feed to the ticker, because each tick is a feed; `ControlInv` says
which flags and records go with which task. From it: `TypeCorrect` and `WatchdogFed`.
`HealthyTrialsStay` proves `OnlyExcusedReverts` by `TrialInv`, that a trial which is over, or
whose image hangs or panics, is excused; the step that could break it is the watchdog's bite, where
`FedInTime` leaves only the excuses.
`Punctuality` proves `TicksOnTime` by `PaceInv`: where the ticker will stand when the
present wait and the `Rest` of the tick are over. A tick moves it by one period and
takes at most one; only a command moves it back, by less than its wait, and only from
before the due time. It is the safety counterpart of `CatchesUp` and `StatusContinues`.

`UartHandlerProofs`, for lines, rings, FIFOs and chunks of any size. The first part says
what cutting, joining, popping and pushing do to an ascending sequence of positions. The
invariant splits `UsedOnceInOrder` into the lines already returned (`OlderBytes`) and the
places a byte passes before (`NewerBytes`), and adds that every position is that of a
byte sent, so that a byte that arrives is later than all others. From it: `TypeCorrect`
and `BytesUsedOnce`.

`EveryLineIsHeard` proves `LinesAreHeard`, which is not inductive: it says nothing of a
line before its newline is read. `LinesInv` adds where every byte is and how lines end.
`Accounted`: a byte sent is in a line returned, in the line under way, in the FIFO or
the ring, went to a session or was lost; there is no other place. `Open`: the line under
way holds no newline, and all bytes of sessions come before it. `Shut`: a line returned
has no newline before its last byte, and ended with one or because the buffer was full.
`Beside`: no session took a byte from between those of a line. From these, for a word
sent as a line of its own (`SentWord`): once its newline is read, it is in a line that
was returned; that line has no byte from before the word, because the newline before it
would then be inside (`NoEndInside`); and it has all of the word, because a line that
ended inside the word would be longer than the word (`Shut`). `Span` and
`WholeInterval` count its bytes as a set of positions, since induction over the line is
out of reach. `TrimsTo` and `ParsesTo` then give the word, which needs
`LettersAreOthers`: no letter of a command word is a blank or a newline.

`FwLinkProofs`, for images, chunks and buffers of any size. `TypeCorrect` holds whatever is
lost. The other two are about runs nobody disturbs, and neither is inductive: both follow
from the lockstep of the two programs. While there has been no fault, they are in one of
six `Phases` (`Idle`, `Requesting`, `Announcing`, `Sending`, `Checking`, `Finishing`), and
what each says of the units under way, written or not, and of the answer under way leaves
one next step (`InStep`). `Sending` is where both count chunks: the script in steps of a
full chunk, the device by what it has received, which `Multiples` and `NextMultiple` bring
together at every boundary. From it: `NothingInTheWindow` and `UndisturbedRunsSucceed`.

`SuccessIsTheImages` proves `SuccessMeansMarked` for a terminal that is closed between
two runs (`KeepsAnswers = FALSE`), the setting of the run, under any number of faults.
Lockstep is gone there. `RunsInv` says instead, for `overlap < 2`, what the device may
still do for the run before. `Opening`: a run that had the device to itself can start a
session only by its own request, whose end is the last of it on the wire, and has not
been told `OK` before. `Stale`: a CRC of another image is on the wire, or the device has
accepted one; it cannot be so for a run that had the device to itself. `Deaf`: while it
is so, the run has read nothing it takes for an answer, and no request comes before that
CRC, so that the session it belongs to is the last one that can accept it. `Concluding`:
as long as another image is marked, the run has not succeeded, and every `FLASH` on its
way to it comes too early (`TooEarly`), before the run waits for one: all it can take of
that answer is the `CRCOK` for an `OK`. Lost, garbled and swallowed units only thin the
stream out, which `Thinned` and `ThinnedKeeps` treat at once for reading, loss and flash
windows.

The assumptions are the named ASSUMEs on the constants (sizes at least one, images
fit into a slot and are no longer than the device accepts, the factory image is healthy,
command words are of letters and fit into a line, the time budgets), which TLC evaluates in the runs.

Only model-checked: liveness, which is out of the prover's reach (`AlwaysRecovers`,
`LoopReturns`, `Recovers`, `StatusContinues`, `CatchesUp`, `SessionsEnd`,
`RetriesSucceed`), and everything that tears flash beyond `DurabilityHeals`. Every
invariant and every action property that a passing run checks is stated by a theorem.

## 6. Abstractions

* A CRC stands for the contents: collisions are not modelled. A corrupted chunk, or
  one that did not land, makes it differ.
* Reading flash never fails: the driver's read checks bounds only.
* A torn page of ACTIVE or DFU is garbage, which the resumed copy rewrites. A
  torn *state word* or progress mark is not modelled, and nothing here shows that it is
  harmless. The words are one byte each, since the driver's write unit is
  (`direct_flash.rs:116`), so a program cut short may leave any byte between erased and
  intended, and what such a byte means depends on the values embassy-boot gives its
  states, which are not in this repository. `RunsWholeImage`, the refinement and
  `AlwaysRecovers` are about cuts between flash operations, not within the program of
  a state word.
* A panic masks interrupts, reports with bounded waits and resets
  (`panic_handler.rs:22-90`). In `AbUpdate` it is one of the resets that may come at any
  time; in `MainLoop` its reset may come late or, were it stuck, from the watchdog.
* `FwLink`: a garbled answer counts as lost. Status lines between sessions are left
  out; `wait_for` skips them. Image bytes that reach the command parser may end lines
  anywhere but are not taken to spell a command.
* In `AbUpdate`, `UartHandler` and `FwLink` time is order: a receive timeout may fire
  whenever bytes are awaited, and the watchdog of `AbUpdate` whenever the firmware waits.
  `MainLoop` has the clock; computing takes no time in it, waiting does, and the
  time of an answer is a bound, as is the time of the flash operations of one call
  (`FLASH`; an erase takes tens of milliseconds, 24 bytes two): a chunk, a setting whose
  page is the first after a wrap (`flash_store.rs:149-162`), the three operations of
  `mark_booted` and of `mark_updated`. Each is counted as one wait with one feed before it;
  the driver feeds before every operation in it, so the watchdog has more time than the
  model gives it, and for the pace of the ticker `FLASH` bounds them together.

## 7. Not modelled

`prestart_xosc` (register writes and a wait for the crystal, before anything
else runs; the wait has no timeout and precedes the watchdog's start, `bootloader/src/main.rs:51,
59, 69`, so `Recovers` is about chips whose crystal starts), the INA219 and PD readings and the format of the status line (they decide
nothing; their time and failures are in `MainLoop`), the text of the panic report, and
the build scripts. `get_state` errors and CRC arithmetic are abstracted as in section 6.

## 8. Plan

Done: settings store, power output, flash driver, A/B update, command handler, main loop
and wire protocol, each with proofs. Next, in this order:

1. `Device`: handler, loop, store and output composed; commands issued in order take
   effect in order; the tail of an aborted image taken for commands
   (`fw_update.rs:32`, "changes nothing").
2. Status lines in `FwLink`: `wait_for` gives up after 15 of them.
3. Proofs: that the device of `FwLink` and the session of `AbUpdate` are the same
   session, as a refinement of one abstract session by both.
