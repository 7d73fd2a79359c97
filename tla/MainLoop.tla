------------------------------ MODULE MainLoop ------------------------------
(***************************************************************************)
(* src/main.rs against time: one task that selects between commands and a  *)
(* ticker, with every wait bounded by a timeout, under a watchdog that the *)
(* bootloader arms and that ticks, update sessions and flash operations    *)
(* feed.  Time is discrete; computing takes none of it, waiting does.      *)
(***************************************************************************)
EXTENDS Integers, Sequences

CONSTANTS
  PERIOD,       \* Ticker::every(1 s)
  WATCHDOG,     \* watchdog.start(8 s)
  RX_TIMEOUT,   \* 3 s for each read of an update session
  SETTLE,       \* Timer::after(1 s) before the first I2C access
  I2C_TIMEOUT,  \* 50 ms for each of the two reads of the INA219
  SEND,         \* bound: the time to transmit an answer or a status line
  FLASH,        \* bound: the time of the flash operations of one call: a chunk, a
                \* setting with its wrap, a confirmation, an update marked
  COPIES,       \* page copies of a swap or a revert
  MaxChunks,    \* bound: chunks of an image
  MaxLate,      \* bound: how far behind the ticker is counted
  RingLines     \* bound: complete lines in the receive ring

Durations == {PERIOD, WATCHDOG, RX_TIMEOUT, SETTLE, I2C_TIMEOUT, SEND, FLASH}
ASSUME DurationsAssumption ==
  Durations \cup {COPIES, MaxChunks, MaxLate, RingLines} \subseteq Nat \ {0}

\* The waits of a tick fit into a period, and two budgets fit into the watchdog: a
\* session that stalls twice just before a tick, and one refused before the first.
ASSUME BudgetAssumption ==
  /\ FLASH + 2 * I2C_TIMEOUT + SEND <= PERIOD
  /\ PERIOD + 2 * RX_TIMEOUT + SEND < WATCHDOG
  /\ SETTLE + PERIOD + RX_TIMEOUT + SEND < WATCHDOG

VARIABLES
  task,       \* what the processor does or waits for
  timer,      \* time left of that wait
  dog,        \* time left of the watchdog
  next,       \* time to the ticker's expires_at, negative when a tick is overdue
  ring,       \* command lines received and not yet read
  confirmed,  \* boot_confirmed
  update,     \* the swap on record in the state partition
  copies,     \* copies left of it
  chunks,     \* chunks left of the session
  starved,    \* history: a command was read ahead of a due tick since the last tick
  behind,     \* history: such a command, or a session, has made ticks overdue, and
              \* the loop has not caught up with them yet
  excused     \* history: there was a reason, not in the time the firmware takes, to
              \* end the last trial: a hang, a panic, a power cut or a starved tick

vars ==
  <<task, timer, dog, next, ring, confirmed, update, copies, chunks,
    starved, behind, excused>>
history == <<starved, behind, excused>>
record == <<update, copies, chunks>>

Command == {"setting", "VERSION", "FW_UPDATE", "unknown"}
Reads == {"length", "chunk", "crc"}          \* read_exact, each with RX_TIMEOUT
Windows == {"write", "stage", "mark", "confirm"}  \* flash operations
Loop == {"select", "bus", "shunt", "status", "send"} \cup Reads \cup Windows
App == Loop \cup {"settle", "hung"}
Unarmed == WATCHDOG + 1

Longest == [t \in App \cup {"reset", "copy", "panic"} |->
  CASE t = "settle" -> SETTLE
    [] t \in {"bus", "shunt"} -> I2C_TIMEOUT
    [] t \in {"send", "status"} -> SEND
    [] t \in Reads -> RX_TIMEOUT
    [] t \in Windows \cup {"copy"} -> FLASH
    [] OTHER -> 0]

\* Entering a wait starts its timeout.
Goto(t) == task' = t /\ timer' = Longest[t]
Feed == dog' = WATCHDOG

\* The wait is over, and the watchdog has not fired.
Done(t) == task = t /\ timer = 0 /\ dog > 0

\* Entering a flash operation: the driver feeds the watchdog before each one.
Flash(t) == Goto(t) /\ Feed

Init ==
  /\ task = "reset" /\ timer = 0 /\ dog = Unarmed /\ next = 0 /\ ring = <<>>
  /\ confirmed = FALSE /\ update = "none" /\ copies = 0 /\ chunks = 0
  /\ starved = FALSE /\ behind = FALSE /\ excused = FALSE

-----------------------------------------------------------------------------
(* Time                                                                    *)

\* The processor waits: the next step is due at a later time.
Waiting ==
  \/ task \in {"hung", "panic"}
  \/ task = "select" /\ ring = <<>> /\ next > 0
  \/ task \notin {"reset", "select"} /\ timer > 0

\* One unit of time passes; a command line may arrive, unless a read takes all
\* bytes that come or nobody listens.
Elapse ==
  /\ Waiting /\ dog > 0
  /\ dog' = IF dog = Unarmed THEN dog ELSE dog - 1
  /\ timer' = IF timer > 0 THEN timer - 1 ELSE 0
  /\ next' = IF task \in Loop /\ next > -MaxLate THEN next - 1 ELSE next
  /\ \/ task \in Reads /\ ring' = <<>>
     \/ task \notin Reads /\ UNCHANGED ring
     \/ task \in (Loop \ Reads) \cup {"settle"} /\ Len(ring) < RingLines
        /\ \E c \in Command : ring' = Append(ring, c)
  /\ behind' = (behind /\ task # "select")
  /\ UNCHANGED <<task, confirmed, record, starved, excused>>

-----------------------------------------------------------------------------
(* Reset and boot                                                          *)

\* RAM, timers and watchdog start over; the state partition stays.
ToReset ==
  /\ task' = "reset" /\ timer' = 0 /\ dog' = Unarmed /\ next' = 0 /\ ring' = <<>>
  /\ confirmed' = FALSE /\ chunks' = 0 /\ starved' = FALSE /\ behind' = FALSE

Bite ==
  /\ dog = 0 /\ ToReset
  /\ excused' = (excused \/ starved)
  /\ UNCHANGED <<update, copies>>

\* A power cut, or a fault in the bootloader, which resets.
PowerLoss ==
  /\ task # "reset" /\ dog > 0 /\ ToReset
  /\ excused' = TRUE
  /\ UNCHANGED <<update, copies>>

\* Mutant of Boot: the watchdog is left to the application.
BootUnarmed ==
  /\ task = "reset"
  /\ update' = IF update = "trial" THEN "revert" ELSE update
  /\ copies' = IF update = "trial" THEN COPIES ELSE copies
  /\ Goto("copy")
  /\ UNCHANGED <<dog, next, ring, confirmed, chunks, history>>

\* The bootloader, its crystal running, starts the clocks, arms the watchdog and reads the state: an
\* image that is still on trial will be taken back.
Boot ==
  /\ task = "reset"
  /\ update' = IF update = "trial" THEN "revert" ELSE update
  /\ copies' = IF update = "trial" THEN COPIES ELSE copies
  /\ Flash("copy")
  /\ UNCHANGED <<next, ring, confirmed, chunks, history>>

\* One page copied; the next operation begins.
BootCopy ==
  /\ Done("copy") /\ copies > 0
  /\ copies' = copies - 1
  /\ Flash("copy")
  /\ UNCHANGED <<next, ring, confirmed, update, chunks, history>>

\* The jump into the application, which starts the UART and the watchdog and lets
\* the rails settle.  Only an image on trial may hang.
JumpToApp ==
  /\ Done("copy") /\ copies = 0
  /\ update' = IF update = "swap" THEN "trial" ELSE "none"
  /\ \/ Goto("settle") /\ Feed /\ excused' = FALSE
     \/ update' = "trial" /\ Goto("hung") /\ excused' = TRUE /\ UNCHANGED dog
  /\ UNCHANGED <<next, ring, confirmed, copies, chunks, starved, behind>>

\* Settings, output and I2C are set up, and the ticker started.
StartLoop ==
  /\ Done("settle")
  /\ Goto("select")
  /\ next' = PERIOD
  /\ UNCHANGED <<dog, ring, confirmed, chunks, update, copies, history>>

\* A panic masks interrupts, reports over the UART with bounded waits, and resets.
Panic ==
  /\ task \in App \ {"hung"}
  /\ task' = "panic" /\ timer' = 0 /\ next' = 0 /\ ring' = <<>>
  /\ confirmed' = FALSE /\ chunks' = 0 /\ starved' = FALSE /\ behind' = FALSE
  /\ excused' = TRUE
  /\ UNCHANGED <<dog, update, copies>>

PanicReset == task = "panic" /\ ToReset /\ UNCHANGED <<update, copies, excused>>

-----------------------------------------------------------------------------
(* The select and the commands                                             *)

Due == next <= 0

\* select polls read_command first: a line in the ring wins over a due tick.
TakeCommand(c) ==
  /\ task = "select" /\ dog > 0
  /\ ring # <<>> /\ Head(ring) = c
  /\ ring' = Tail(ring)
  /\ starved' = (starved \/ Due)
  /\ behind' = (Due \/ c = "FW_UPDATE")
  /\ UNCHANGED excused

\* The power and mode commands: written to flash unless nothing changes.
Setting ==
  /\ TakeCommand("setting")
  /\ Flash("write") \/ UNCHANGED <<task, timer, dog>>
  /\ UNCHANGED <<next, confirmed, record>>

Version ==
  /\ TakeCommand("VERSION")
  /\ Goto("send")
  /\ UNCHANGED <<dog, next, confirmed, record>>

Unknown ==
  /\ TakeCommand("unknown")
  /\ UNCHANGED <<task, timer, dog, next, confirmed, record>>

FwUpdate ==
  /\ TakeCommand("FW_UPDATE")
  /\ Goto("length")
  /\ UNCHANGED <<dog, next, confirmed, record>>

\* The write of a setting, the answer or the status line is done.
BackToSelect ==
  /\ \E t \in {"write", "send", "status"} : Done(t)
  /\ Goto("select")
  /\ UNCHANGED <<dog, next, ring, confirmed, record, history>>

-----------------------------------------------------------------------------
(* The tick                                                                *)

\* Mutant of Tick: the watchdog is fed where the boot is confirmed.
TickFeedsOnce ==
  /\ task = "select" /\ ring = <<>> /\ Due /\ dog > 0
  /\ next' = next + PERIOD
  /\ confirmed' = TRUE /\ starved' = FALSE
  /\ IF ~confirmed /\ update = "trial" THEN Flash("confirm") ELSE Goto("bus")
  /\ IF confirmed THEN UNCHANGED dog ELSE Feed
  /\ UNCHANGED <<ring, record, behind, excused>>

\* Mutant of Tick: the period is given in the wrong unit.
TickTooOften ==
  /\ task = "select" /\ ring = <<>> /\ Due /\ dog > 0
  /\ next' = next + 1
  /\ confirmed' = TRUE /\ starved' = FALSE
  /\ IF ~confirmed /\ update = "trial" THEN Flash("confirm") ELSE Goto("bus") /\ Feed
  /\ UNCHANGED <<ring, record, behind, excused>>

\* The ticker fires once for each period that has passed.  The first tick after a
\* swap confirms the image.
Tick ==
  /\ task = "select" /\ ring = <<>> /\ Due /\ dog > 0
  /\ next' = next + PERIOD
  /\ confirmed' = TRUE /\ starved' = FALSE
  /\ IF ~confirmed /\ update = "trial" THEN Flash("confirm") ELSE Goto("bus") /\ Feed
  /\ UNCHANGED <<ring, record, behind, excused>>

ConfirmBoot ==
  /\ Done("confirm")
  /\ update' = "none"
  /\ Goto("bus")
  /\ UNCHANGED <<dog, next, ring, confirmed, copies, chunks, history>>

\* The sensor answers, with a bus voltage, a shunt voltage or an error, ...
SensorAnswers ==
  /\ task \in {"bus", "shunt"} /\ dog > 0
  /\ \/ task = "bus" /\ Goto("shunt")
     \/ Goto("status")
  /\ UNCHANGED <<dog, next, ring, confirmed, record, history>>

\* Mutant of SensorFails: the read is tried again until the sensor answers.
SensorRetried ==
  /\ Done("bus") \/ Done("shunt")
  /\ Goto("bus")
  /\ UNCHANGED <<dog, next, ring, confirmed, record, history>>

\* ... or the read is given up; the status line has zeros then.
SensorFails ==
  /\ Done("bus") \/ Done("shunt")
  /\ Goto("status")
  /\ UNCHANGED <<dog, next, ring, confirmed, record, history>>

-----------------------------------------------------------------------------
(* An update session                                                       *)

\* A read gets its bytes, some of them perhaps from lines already in the ring.
Read(t) ==
  /\ task = t /\ dog > 0
  /\ \E k \in 1 .. Len(ring) + 1 : ring' = SubSeq(ring, k, Len(ring))
  /\ UNCHANGED <<next, confirmed, history>>

\* Mutant of ReadLength: a length that is refused is asked for again.
AskLengthAgain ==
  /\ Read("length")
  /\ \/ Goto("length") /\ UNCHANGED chunks
     \/ update = "none" /\ Goto("chunk") /\ chunks' \in 1 .. MaxChunks
  /\ UNCHANGED <<dog, update, copies>>

\* The length is refused by size, or because the image is still on trial.
ReadLength ==
  /\ Read("length")
  /\ \/ Goto("send") /\ UNCHANGED chunks
     \/ update = "none" /\ Goto("chunk") /\ chunks' \in 1 .. MaxChunks
  /\ UNCHANGED <<dog, update, copies>>

ReadChunk == Read("chunk") /\ Flash("stage") /\ UNCHANGED record

\* Mutant of StageChunk: one chunk too many is awaited.
StageOneMore ==
  /\ Done("stage")
  /\ \/ Goto("send") /\ chunks' = 0
     \/ chunks' = chunks - 1 /\ Goto(IF chunks = 0 THEN "crc" ELSE "chunk")
  /\ UNCHANGED <<dog, next, ring, confirmed, update, copies, history>>

\* The flash operations of a chunk are done, or one of them has failed.
StageChunk ==
  /\ Done("stage")
  /\ \/ Goto("send") /\ chunks' = 0
     \/ chunks' = chunks - 1 /\ Goto(IF chunks' = 0 THEN "crc" ELSE "chunk")
  /\ UNCHANGED <<dog, next, ring, confirmed, update, copies, history>>

\* The image is marked when both checks pass.
ReadCrc ==
  /\ Read("crc")
  /\ \/ Flash("mark")
     \/ Goto("send") /\ dog' \in {dog, WATCHDOG}
  /\ UNCHANGED record

MarkUpdate ==
  /\ Done("mark")
  /\ \/ update' = "swap" /\ copies' = COPIES /\ ToReset /\ UNCHANGED excused
     \/ Goto("send") /\ UNCHANGED <<dog, next, ring, confirmed, record, history>>

\* RX_TIMEOUT: the session is given up.
ReadTimeout ==
  /\ \E t \in Reads : Done(t)
  /\ Goto("send") /\ chunks' = 0
  /\ UNCHANGED <<dog, next, ring, confirmed, update, copies, history>>
-----------------------------------------------------------------------------

\* The steps the processor, or the watchdog, takes without the world's help.
Run ==
  \/ Bite \/ Boot \/ BootCopy \/ JumpToApp \/ StartLoop
  \/ Setting \/ Version \/ Unknown \/ FwUpdate \/ BackToSelect
  \/ Tick \/ ConfirmBoot \/ SensorFails
  \/ StageChunk \/ MarkUpdate \/ ReadTimeout

Next ==
  \/ Elapse
  \/ Run
  \/ SensorAnswers
  \/ ReadLength \/ ReadChunk \/ ReadCrc
  \/ Panic \/ PanicReset \/ PowerLoss

Spec == Init /\ [][Next]_vars

\* Time goes on, and so does the processor.
FairSpec == Spec /\ WF_vars(Elapse) /\ WF_vars(Run)

-----------------------------------------------------------------------------
(* Properties                                                              *)

\* Types of the tasks, the clocks and the records.
TypeOK ==
  /\ task \in App \cup {"reset", "copy", "panic"}
  /\ timer \in 0 .. Longest[task]
  /\ dog \in 0 .. Unarmed
  /\ next \in -MaxLate .. PERIOD
  /\ ring \in Seq(Command) /\ Len(ring) <= RingLines
  /\ confirmed \in BOOLEAN /\ starved \in BOOLEAN /\ behind \in BOOLEAN
  /\ excused \in BOOLEAN
  /\ update \in {"none", "swap", "trial", "revert"}
  /\ copies \in 0 .. COPIES
  /\ chunks \in 0 .. MaxChunks

\* The watchdog never fires on firmware that works, with two exceptions: commands
\* that come so densely that select keeps preferring them to a due tick, and a
\* session that begins before the first tick of a boot and stalls twice.  Slow
\* copies, stalled sensors, stalled sessions and bursts of overdue ticks stay
\* within it (main.rs:145-149, 281; fw_update.rs:127; direct_flash.rs:27-34).
WatchdogStaysFed ==
  dog = 0 => \/ task \in {"hung", "panic"}
             \/ starved
             \/ ~confirmed /\ update = "none" /\ task \in {"chunk", "send", "select"}

\* A healthy update survives its trial.  The bootloader takes an update back only if
\* its image hung or panicked, the power failed, or commands were preferred to its
\* first tick until the watchdog bit: that tick and its confirmation win the race
\* against the watchdog, and no session that is refused or given up
\* meanwhile, however often it stalls, makes them lose it or resets the chip itself
\* (main.rs:145-149, 281-298; fw_update.rs:98-106).
OnlyExcusedReverts == update = "revert" => excused

\* Telemetry keeps its pace of one line a second (main.rs:227-228): no tick comes
\* later than one answer or the flash operations of one call make it, although every
\* sensor read may run into its timeout and the first tick confirms the boot.  Only an
\* update session, or a command preferred to a due tick, puts the ticker behind, and
\* only until the ticks missed are worked off.
TicksOnTime == task \in Loop /\ ~behind => next > -SEND \/ next > -FLASH

Failed == PowerLoss \/ Panic

\* However often an image on trial hangs, and whatever a panic leaves undone, the
\* device is back in its main loop once power stays and nothing panics: the
\* watchdog is armed before anything can hang (bootloader main.rs:64-69).
Recovers == <>[][~Failed]_vars => []<>(task = "select")

\* Status lines never stop for good, whatever the sensor does and whatever reset
\* came before, once no stream of commands is preferred to a due tick and no more
\* update sessions begin (main.rs:231-236, 301-307).
StatusContinues ==
  <>[][~Failed /\ ~FwUpdate]_vars /\ <>[]~starved => []<>(task = "status")

\* When the sender is done, the ticks a long session has missed are worked off and
\* the ticker is on time again, even if the sensor answers no more: the waits of a
\* tick are shorter than its period (main.rs:228, 307-315).
CatchesUp ==
  <>[][~Failed]_vars /\ <>[](ring = <<>>) => []<>(next > 0)
=============================================================================
