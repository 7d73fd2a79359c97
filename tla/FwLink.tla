------------------------------- MODULE FwLink -------------------------------
(***************************************************************************)
(* The update protocol on the wire: the device's session (run in           *)
(* src/fw_update.rs, entered through the command parser) against the       *)
(* sender script (tools/uart-fw-update.sh).  Bytes are lost or garbled,    *)
(* answers are lost, the sender stalls, is killed and is started again,    *)
(* the device loses power and its flash fails, MaxFaults times in all.     *)
(*                                                                         *)
(* The stream is cut into units: half a command line, a length, half a     *)
(* chunk, a CRC.  A lost unit leaves the receiver out of step, as lost     *)
(* bytes do.                                                               *)
(***************************************************************************)
EXTENDS Integers, SequencesExt

CONSTANTS
  Images,      \* the images somebody tries to send
  Size,        \* the units of each
  MaxSize,     \* MAX_IMAGE_SIZE, in units
  None,        \* no image
  ChunkUnits,  \* the units of a full chunk
  WireUnits,   \* what fits between the two programs: buffers of both sides
  KeepsAnswers, \* the terminal stays open between two runs of the script, as
                \* it does for a stopped application that has opened it too
  MaxFaults    \* bound: faults in a behaviour

ASSUME SizeAssumption == MaxSize \in Nat /\ Size \in [Images -> 1 .. MaxSize]
ASSUME NoneAssumption == None \notin Images
ASSUME UnitsAssumption == ChunkUnits \in Nat \ {0} /\ MaxFaults \in Nat
ASSUME LinkAssumption == WireUnits \in Nat \ {0} /\ KeepsAnswers \in BOOLEAN

VARIABLES
  \* the sender
  expect,   \* the answer it waits for, or how its run ended
  img,      \* the image it sends
  off,      \* the units of it sent in chunks
  out,      \* units of the present message still to be written
  stalled,  \* it is not running for the moment
  overlap,  \* history: how many runs before this one may still have something
            \* under way: none, one or more
  \* the link
  wire,     \* units on their way to the device
  answers,  \* lines on their way to the sender, read or not
  \* the device
  dev,      \* what it awaits or does
  line,     \* the command line under way: "empty", "half" or "dirty"
  len,      \* the length it was told
  content,  \* the units it has received
  marked,   \* the image of the last update marked
  trial,    \* running an update that is not confirmed yet
  faults    \* how many faults there have been

sender == <<expect, img, off, out, stalled, overlap>>
device == <<dev, line, len, content, marked, trial>>
vars == <<expect, img, off, out, stalled, overlap, wire, answers,
          dev, line, len, content, marked, trial, faults>>

Ended == {"idle", "done", "failed"}
Waiting == {"OK", "RECV", "ACK", "CRCOK", "FLASH"}
Lines == Waiting \cup {"ERR"}

Command == << <<"cmd", 1>>, <<"cmd", 2>> >>
Noise == <<"noise">>
Part(i, k) == <<"part", i, k>>
Content(i) == [k \in 1 .. Size[i] |-> Part(i, k)]

Init ==
  /\ expect = "idle" /\ img = None /\ off = 0 /\ out = <<>> /\ stalled = FALSE
  /\ overlap = 0 /\ wire = <<>> /\ answers = <<>>
  /\ dev = "line" /\ line = "empty" /\ len = 0 /\ content = <<>>
  /\ marked = None /\ trial = FALSE
  /\ faults = 0

Fault == faults < MaxFaults /\ faults' = faults + 1

-----------------------------------------------------------------------------
\* The sender.

\* The device is at its prompt with nothing on the way to it.
Quiet == dev = "line" /\ wire = <<>>

\* It is, on confirmed firmware.
Ready == Quiet /\ ~trial

\* A run of the script.  Starting it while the device is busy counts as a fault.
Start ==
  /\ expect \in Ended
  /\ IF Ready THEN UNCHANGED faults ELSE Fault
  /\ img' \in Images
  /\ expect' = "OK" /\ off' = 0 /\ out' = Command
  /\ overlap' = IF Quiet THEN 0 ELSE IF overlap = 0 THEN 1 ELSE 2
  /\ answers' = IF KeepsAnswers THEN answers ELSE <<>>
  /\ UNCHANGED <<stalled, wire, device>>

\* A write blocks while the buffers are full.
SendUnit ==
  /\ out # <<>> /\ ~stalled /\ Len(wire) < WireUnits
  /\ wire' = Append(wire, Head(out)) /\ out' = Tail(out)
  /\ UNCHANGED <<expect, img, off, stalled, overlap, answers, device, faults>>

\* Mutant of IsLast: one chunk too many when the image fills its last one.
IsLastLate(o) == o > Size[img]

\* No chunk is left to be sent.
IsLast(o) == o >= Size[img]

\* Where the chunk after the first o units ends: the last one may be short.
ChunkEnd(o) == IF o + ChunkUnits < Size[img] THEN o + ChunkUnits ELSE Size[img]

\* wait_for got its answer: the next message.
Proceed ==
  \/ expect = "OK" /\ expect' = "RECV"
     /\ out' = << <<"len", img>> >> /\ UNCHANGED off
  \/ expect \in {"RECV", "ACK"} /\ ~IsLast(off) /\ expect' = "ACK"
     /\ out' = SubSeq(Content(img), off + 1, ChunkEnd(off))
     /\ off' = off + ChunkUnits
  \/ expect \in {"RECV", "ACK"} /\ IsLast(off) /\ expect' = "CRCOK"
     /\ out' = << <<"crc", img>> >> /\ UNCHANGED off
  \/ expect = "CRCOK" /\ expect' = "FLASH" /\ UNCHANGED <<off, out>>
  \/ expect = "FLASH" /\ expect' = "done" /\ UNCHANGED <<off, out>>

\* case "$line" in *"$1"*: CRCOK passes for OK.
Matches(answer) == answer = expect \/ (expect = "OK" /\ answer = "CRCOK")

\* wait_for skips a line that is neither the answer nor an error.
ReadLine ==
  /\ expect \in Waiting /\ out = <<>> /\ ~stalled /\ answers # <<>>
  /\ answers' = Tail(answers)
  /\ IF Matches(Head(answers)) THEN Proceed
     ELSE /\ expect' = IF Head(answers) = "ERR" THEN "failed" ELSE expect
          /\ UNCHANGED <<off, out>>
  /\ UNCHANGED <<img, stalled, overlap, wire, device, faults>>

\* wait_for gives up after 5 s of silence or 15 status lines.  A device that
\* awaits update bytes has given up before, after 3 s.
SenderTimeout ==
  /\ expect \in Waiting /\ out = <<>> /\ ~stalled /\ answers = <<>>
  /\ dev = "line" /\ wire = <<>>
  /\ expect' = "failed"
  /\ UNCHANGED <<img, off, out, stalled, overlap, wire, answers, device, faults>>

-----------------------------------------------------------------------------
\* The device.

Answer(lines) == answers' = answers \o lines
Windows == {"program", "mark"}    \* flash work, with interrupts masked
Reading == {"length", "chunk", "crc"}

\* Mutant of AfterLine: a line that has gone wrong is never ended.
StaysDirty(u) ==
  CASE line = "dirty" -> {"dirty"}
    [] u = Command[1] -> {"half"}
    [] u = Command[2] -> {"empty"}
    [] OTHER          -> {"empty", "dirty"}

\* What a unit leaves of the line: the first half of FW_UPDATE begins one, the
\* second ends any.  Image bytes and garbage may hold a newline anywhere.
AfterLine(u) ==
  CASE u = Command[1] -> {IF line = "empty" THEN "half" ELSE "dirty"}
    [] u = Command[2] -> {"empty"}
    [] OTHER          -> {"empty", "dirty"}

\* read_command; only a line that is FW_UPDATE and nothing else starts a session.
ParseUnit ==
  /\ dev = "line" /\ wire # <<>>
  /\ wire' = Tail(wire)
  /\ IF Head(wire) = Command[2] /\ line = "half"
       THEN dev' = "length" /\ line' = "empty" /\ Answer(<<"OK">>)
       ELSE line' \in AfterLine(Head(wire)) /\ UNCHANGED <<dev, answers>>
  /\ UNCHANGED <<sender, len, content, marked, trial, faults>>

\* The lengths four bytes may stand for; 0 stands for one that is refused.  The
\* bytes of FW_UPDATE make a number that is far too large.
LengthOf(u) ==
  CASE u \in {Command[1], Command[2]} -> {0}
    [] u[1] = "len"                   -> {Size[u[2]]}
    [] OTHER                          -> 0 .. MaxSize

ReadLength ==
  /\ dev = "length" /\ wire # <<>>
  /\ wire' = Tail(wire)
  /\ \E n \in LengthOf(Head(wire)) :
       IF n = 0 \/ trial
         THEN dev' = "line" /\ UNCHANGED len /\ Answer(<<"ERR">>)
         ELSE dev' = "chunk" /\ len' = n /\ Answer(<<"RECV">>)
  /\ content' = <<>>
  /\ UNCHANGED <<sender, line, marked, trial, faults>>

\* Mutant of ChunkDone: the last chunk is read as if it were a full one.
FullChunk(c) == Len(c) % ChunkUnits = 0

\* The chunk under way is complete, the last one perhaps a short one.
ChunkDone(c) == Len(c) = len \/ Len(c) % ChunkUnits = 0

\* Mutant of ReadChunk: the chunk is acknowledged before it is written.
AckFirst ==
  /\ dev = "chunk" /\ wire # <<>>
  /\ wire' = Tail(wire)
  /\ content' = Append(content, Head(wire))
  /\ IF ChunkDone(content') THEN dev' = "program" /\ Answer(<<"ACK">>)
                            ELSE UNCHANGED <<dev, answers>>
  /\ UNCHANGED <<sender, line, len, marked, trial, faults>>

ReadChunk ==
  /\ dev = "chunk" /\ wire # <<>>
  /\ wire' = Tail(wire)
  /\ content' = Append(content, Head(wire))
  /\ dev' = IF ChunkDone(content') THEN "program" ELSE "chunk"
  /\ UNCHANGED <<sender, answers, line, len, marked, trial, faults>>

\* While interrupts are masked, what arrives overruns the FIFO.  It has room
\* for a command, a length or a CRC, but not for half a chunk.
FlashWindow ==
  \/ UNCHANGED wire
  \/ \E n \in DOMAIN wire :
       /\ wire[n][1] \in {"part", "noise"}
       /\ wire' = RemoveAt(wire, n)

ProgramChunk ==
  /\ dev = "program" /\ FlashWindow
  /\ dev' = IF Len(content) = len THEN "crc" ELSE "chunk"
  /\ Answer(<<"ACK">>)
  /\ UNCHANGED <<sender, line, len, content, marked, trial, faults>>

\* A CRC is that of one image: it fits no other contents.
Fits(u) == u[1] = "crc" /\ content = Content(u[2])

\* Mutant of ReadCrc: the answers the protocol ends with go out at once.
AnswerFirst ==
  /\ dev = "crc" /\ wire # <<>>
  /\ wire' = Tail(wire)
  /\ IF Fits(Head(wire))
       THEN dev' = "mark" /\ Answer(<<"CRCOK", "FLASH">>)
       ELSE dev' = "line" /\ Answer(<<"ERR">>)
  /\ UNCHANGED <<sender, line, len, content, marked, trial, faults>>

ReadCrc ==
  /\ dev = "crc" /\ wire # <<>>
  /\ wire' = Tail(wire)
  /\ IF Fits(Head(wire)) THEN dev' = "mark" /\ UNCHANGED answers
                         ELSE dev' = "line" /\ Answer(<<"ERR">>)
  /\ UNCHANGED <<sender, line, len, content, marked, trial, faults>>

MarkUpdate ==
  /\ dev = "mark"
  /\ marked' = CHOOSE i \in Images : content = Content(i)
  /\ dev' = "reply"
  /\ FlashWindow
  /\ UNCHANGED <<sender, answers, line, len, content, trial, faults>>

\* RAM and what is on the wire are lost; a cut trial ends in the old firmware.
Restart ==
  /\ dev' = "line" /\ line' = "empty" /\ len' = 0 /\ content' = <<>>
  /\ wire' = <<>>
  /\ trial' = (dev = "reply")

\* The last answers are shifted out before the reset into the new firmware.
Reply ==
  /\ dev = "reply"
  /\ Answer(<<"CRCOK", "FLASH">>)
  /\ Restart
  /\ UNCHANGED <<sender, marked, faults>>

\* main.rs:287-299: the new firmware confirms itself.
FirstTick ==
  /\ dev = "line" /\ trial
  /\ trial' = FALSE
  /\ FlashWindow
  /\ UNCHANGED <<sender, answers, dev, line, len, content, marked, faults>>

\* The sender has nothing to send, or does not send it.
Silent ==
  /\ wire = <<>>
  /\ stalled \/ expect \in Ended \/ (out = <<>> /\ answers = <<>>)

\* Mutant of DeviceTimeout: the read starts again instead of ending the session.
ReadAgain == dev \in Reading /\ Silent /\ UNCHANGED vars

\* RX_TIMEOUT, 3 s for each read.
DeviceTimeout ==
  /\ dev \in Reading /\ Silent
  /\ dev' = "line"
  /\ Answer(<<"ERR">>)
  /\ UNCHANGED <<sender, wire, line, len, content, marked, trial, faults>>

-----------------------------------------------------------------------------
\* What goes wrong.

LoseUnit ==
  /\ wire # <<>> /\ Fault
  /\ \/ wire' = Tail(wire)
     \/ wire' = <<Noise>> \o Tail(wire)
  /\ UNCHANGED <<sender, answers, device>>

LoseAnswer ==
  /\ answers # <<>> /\ Fault
  /\ answers' = Tail(answers)
  /\ UNCHANGED <<sender, wire, device>>

Kill ==
  /\ expect \in Waiting /\ Fault
  /\ expect' = "idle" /\ out' = <<>> /\ stalled' = FALSE
  /\ UNCHANGED <<img, off, overlap, wire, answers, device>>

Stall ==
  /\ expect \in Waiting /\ ~stalled /\ Fault
  /\ stalled' = TRUE
  /\ UNCHANGED <<expect, img, off, out, overlap, wire, answers, device>>

Resume ==
  /\ stalled /\ stalled' = FALSE
  /\ UNCHANGED <<expect, img, off, out, overlap, wire, answers, device, faults>>

\* A failing erase, write or mark ends the session; the mark may have got through.
FlashFails ==
  /\ dev \in Windows /\ Fault
  /\ FlashWindow
  /\ \/ UNCHANGED marked
     \/ dev = "mark" /\ \E i \in Images : content = Content(i) /\ marked' = i
  /\ dev' = "line" /\ Answer(<<"ERR">>)
  /\ UNCHANGED <<sender, line, len, content, trial>>

PowerCut == Fault /\ Restart /\ UNCHANGED <<sender, answers, marked>>

Link == SendUnit \/ ReadLine \/ SenderTimeout
Run == \/ ParseUnit \/ ReadLength \/ ReadChunk \/ ProgramChunk \/ ReadCrc
       \/ MarkUpdate \/ Reply
Next ==
  \/ Start \/ Link \/ Run \/ DeviceTimeout \/ FirstTick
  \/ LoseUnit \/ LoseAnswer \/ Kill \/ Stall \/ Resume \/ FlashFails \/ PowerCut

Spec == Init /\ [][Next]_vars

\* Both programs go on with what they have begun, the device's timeout and its
\* ticker fire.  Nobody need start, resume or stop the sender.
FairSpec ==
  /\ Spec
  /\ WF_vars(Link) /\ WF_vars(Run) /\ WF_vars(DeviceTimeout) /\ WF_vars(FirstTick)

-----------------------------------------------------------------------------
\* What the protocol promises.

TypeOK ==
  /\ expect \in Ended \cup Waiting /\ img \in Images \cup {None}
  /\ off \in 0 .. MaxSize + ChunkUnits - 1 /\ stalled \in BOOLEAN
  /\ overlap \in 0 .. 2
  /\ Len(out) <= 2 \/ Len(out) <= ChunkUnits
  /\ \A n \in DOMAIN answers : answers[n] \in Lines
  /\ dev \in {"line", "reply"} \cup Reading \cup Windows
  /\ line \in {"empty", "half", "dirty"}
  /\ len \in 0 .. MaxSize /\ Len(content) <= len
  /\ marked \in Images \cup {None} /\ trial \in BOOLEAN
  /\ faults \in 0 .. MaxFaults

\* A script that ends in "update verified and applied" is right: the device has
\* marked the very image that run was to send, whatever was lost and whatever
\* answers of the run before it, CRCOK taken for OK among them, it came across
\* (uart-fw-update.sh:37-48, fw_update.rs:148-180).  The second run in a row that
\* is begun too early, or a later one, is left out: with enough of them requests pile
\* up until one run is given all the answers to another's image.
SuccessMeansMarked == expect = "done" /\ overlap < 2 => marked = img

\* "The sender waits for each ACK, so no bytes arrive while interrupts are masked
\* for flash ops" (fw_update.rs:108-110), as long as nothing goes wrong.
FlowControl == faults = 0 /\ dev \in Windows => wire = <<>> /\ out = <<>>

\* With nothing lost and nobody interfering, both sides count the same chunks
\* and wait for each other's messages: the script never fails.
FirstTrySucceeds == expect = "failed" => faults > 0

\* A sender that stalls or disappears leaves the device in its command loop
\* (fw_update.rs:51-54).
SessionsEnd == (dev # "line") ~> (dev = "line")

\* However the two were left out of step - half a chunk in the command parser, a
\* length taken from the wrong bytes, answers of an earlier run in the terminal -
\* somebody who keeps starting the script has success again and again.
RetriesSucceed == WF_vars(Start) /\ WF_vars(Resume) => []<>(expect = "done")
=============================================================================
