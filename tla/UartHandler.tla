----------------------------- MODULE UartHandler -----------------------------
(***************************************************************************)
(* The receive path of the command interface (src/uart_handler.rs) and     *)
(* what the main loop does to it: bytes pass from the UART's FIFO through  *)
(* the interrupt into a ring, and from the ring either into command lines  *)
(* (read_command) or into an update session (read_exact).  A flash window  *)
(* masks the interrupt, and the FIFO overruns.                             *)
(*                                                                         *)
(* The FIFO, the ring and the line hold positions in the stream `sent`, so *)
(* that every byte keeps its identity wherever it is.                      *)
(***************************************************************************)
EXTENDS Naturals, SequencesExt

CONSTANTS
  NL,            \* the byte that ends a line
  Space,         \* a byte that trim removes
  Letters,       \* the other bytes
  Updates,       \* the command words that start an update session
  Others,        \* the other ones: power, restore mode and VERSION
  RX_LINE_SIZE,  \* a line is cut when RX_LINE_SIZE - 1 bytes are collected
  CHUNK,         \* the bytes read_command takes from the ring at a time
  RingSize, FifoSize,
  MaxRead,       \* bound: the bytes one read_exact asks for
  MaxBytes       \* bound: the bytes sent

Bytes == Letters \cup {Space, NL}
Words == Updates \cup Others
Unknown == <<>>

ASSUME SizesAssumption ==
  /\ {RX_LINE_SIZE, CHUNK, RingSize, FifoSize, MaxRead, MaxBytes} \subseteq Nat
  /\ RX_LINE_SIZE > 1
ASSUME WordsFitALine ==
  \A w \in Words : w \in Seq(Letters) /\ Len(w) \in 1 .. RX_LINE_SIZE - 2
ASSUME LettersAreOthers == {NL, Space} \cap Letters = {}

VARIABLES
  sent,       \* history: the bytes sent to the device
  fifo, ring, \* the bytes received and not yet read
  line,       \* the bytes of the line under way
  task,       \* where the main loop is: see Tasks
  want,       \* the bytes read_exact still waits for
  confirmed,  \* whether the boot confirmation is behind
  heard,      \* history: the commands returned, with the bytes of their lines
  raw,        \* history: the bytes that went to update sessions
  lost        \* history: the bytes that overran the FIFO

vars == <<sent, fifo, ring, line, task, want, confirmed, heard, raw, lost>>

Buffered == Range(fifo) \cup Range(ring)

\* "select" awaits a command or a tick, "read" awaits update bytes, "session"
\* is the rest of an update, "busy" a transfer over I2C or to the sender;
\* "flash", "confirm" and "program" are the windows that a command, the first
\* tick and a session spend with interrupts masked.
Masked == task \in {"flash", "confirm", "program"}
Tasks == {"select", "flash", "confirm", "busy", "session", "read", "program"}

TypeOK ==
  /\ Range(sent) \subseteq Bytes /\ Len(sent) <= MaxBytes
  /\ Len(fifo) <= FifoSize /\ Len(ring) <= RingSize
  /\ Len(line) < RX_LINE_SIZE - 1
  /\ task \in Tasks
  /\ want \in 0 .. MaxRead /\ (want > 0 <=> task = "read")
  /\ confirmed \in BOOLEAN
  /\ \A h \in Range(heard) : h.cmd \in Words \cup {Unknown}
  /\ Buffered \cup Range(line) \cup raw \cup lost \subseteq DOMAIN sent

Init ==
  /\ sent = <<>> /\ fifo = <<>> /\ ring = <<>> /\ line = <<>>
  /\ task = "select" /\ want = 0 /\ confirmed = FALSE
  /\ heard = <<>> /\ raw = {} /\ lost = {}

-----------------------------------------------------------------------------
\* The wire and the UART.

\* Interrupt and loop are fast: a loop that awaits bytes keeps up with the
\* wire, so the FIFO overruns only while the loop does something else.
Receive(b) ==
  /\ Len(sent) < MaxBytes
  /\ Len(fifo) = FifoSize => Masked \/ task = "busy"
  /\ sent' = Append(sent, b)
  /\ IF Len(fifo) < FifoSize
       THEN fifo' = Append(fifo, Len(sent')) /\ UNCHANGED lost
       ELSE lost' = lost \cup {Len(sent')} /\ UNCHANGED fifo
  /\ UNCHANGED <<ring, line, task, want, confirmed, heard, raw>>

\* The interrupt stops at a full ring; the FIFO then fills up behind it.
Interrupt ==
  /\ ~Masked
  /\ fifo # <<>> /\ Len(ring) < RingSize
  /\ ring' = Append(ring, Head(fifo))
  /\ fifo' = Tail(fifo)
  /\ UNCHANGED <<sent, line, task, want, confirmed, heard, raw, lost>>

-----------------------------------------------------------------------------
\* read_command.

Trim(s) ==
  LET kept == {i \in DOMAIN s : s[i] \notin {Space, NL}}
  IN IF kept = {} THEN <<>> ELSE SubSeq(s, Min(kept), Max(kept))

\* parse_command, for the bytes at the positions of l.
Parse(l) ==
  LET word == Trim([i \in DOMAIN l |-> sent[l[i]]])
  IN IF word \in Words THEN word ELSE Unknown

\* Mutant: a line is cut one byte late.
EndsOneLate(chunk, k) == sent[chunk[k]] = NL \/ Len(line) + k >= RX_LINE_SIZE

\* Whether the line ends with the k-th byte of the chunk.
Ends(chunk, k) == sent[chunk[k]] = NL \/ Len(line) + k >= RX_LINE_SIZE - 1

\* The slices fill_buf may return: the ring's bytes up to where it wraps.
Chunks(limit) == {SubSeq(ring, 1, n) : n \in (1 .. Len(ring)) \cap (1 .. limit)}

\* Mutant: the last byte used stays in the ring.
ConsumeOneLess(n) == ring' = SubSeq(ring, n, Len(ring))

Consume(n) == ring' = SubSeq(ring, n + 1, Len(ring))

\* No line ends in the chunk: read_command keeps it and awaits more.
KeepPartialLine ==
  /\ task = "select"
  /\ \E chunk \in Chunks(CHUNK) :
       /\ \A k \in DOMAIN chunk : ~Ends(chunk, k)
       /\ line' = line \o chunk
       /\ Consume(Len(chunk))
  /\ UNCHANGED <<sent, fifo, task, want, confirmed, heard, raw, lost>>

\* A line ends in the chunk: the loop gets a command and acts on it.  A
\* setting is written to flash unless it is already the stored one, VERSION is
\* answered, an unknown command is not.
ReturnCommand ==
  /\ task = "select"
  /\ \E chunk \in Chunks(CHUNK) : \E used \in DOMAIN chunk :
       LET whole == line \o SubSeq(chunk, 1, used)
           cmd == Parse(whole)
       IN /\ Ends(chunk, used) /\ \A k \in 1 .. used - 1 : ~Ends(chunk, k)
          /\ heard' = Append(heard, [cmd |-> cmd, bytes |-> whole])
          /\ Consume(used)
          /\ task' \in CASE cmd \in Updates -> {"session"}
                         [] cmd \in Others  -> {"flash", "select", "busy"}
                         [] OTHER           -> {"select"}
  /\ line' = <<>>
  /\ UNCHANGED <<sent, fifo, want, confirmed, raw, lost>>

\* Mutant: the line under way is dropped with the read_command a tick cancels.
TickDropsLine ==
  /\ task = "select"
  /\ confirmed' = TRUE
  /\ task' \in IF confirmed THEN {"busy"} ELSE {"busy", "confirm"}
  /\ line' = <<>>
  /\ UNCHANGED <<sent, fifo, ring, want, heard, raw, lost>>

\* The tick reads the sensor and sends the status; the first one may write
\* the boot confirmation before that.
Tick ==
  /\ task = "select"
  /\ confirmed' = TRUE
  /\ task' \in IF confirmed THEN {"busy"} ELSE {"busy", "confirm"}
  /\ UNCHANGED <<sent, fifo, ring, line, want, heard, raw, lost>>

BusyDone ==
  /\ task = "busy"
  /\ task' = "select"
  /\ UNCHANGED <<sent, fifo, ring, line, want, confirmed, heard, raw, lost>>

FlashDone ==
  /\ Masked
  /\ task' = CASE task = "flash"   -> "select"
              [] task = "confirm" -> "busy"
              [] task = "program" -> "session"
  /\ UNCHANGED <<sent, fifo, ring, line, want, confirmed, heard, raw, lost>>

-----------------------------------------------------------------------------
\* read_exact, on behalf of an update session.

StartRead ==
  /\ task = "session"
  /\ want' \in 1 .. MaxRead
  /\ line' = <<>>
  /\ task' = "read"
  /\ UNCHANGED <<sent, fifo, ring, confirmed, heard, raw, lost>>

\* A complete chunk is programmed, a complete length or CRC is not.
FillBuffer ==
  /\ task = "read"
  /\ \E chunk \in Chunks(want) :
       /\ raw' = raw \cup Range(chunk)
       /\ Consume(Len(chunk))
       /\ want' = want - Len(chunk)
       /\ task' \in IF want' = 0 THEN {"session", "program"} ELSE {"read"}
  /\ UNCHANGED <<sent, fifo, line, confirmed, heard, lost>>

\* Mutant: the deadline is looked at only when a byte comes.
TimeoutOnByte ==
  /\ task = "read" /\ ring # <<>>
  /\ want' = 0 /\ task' = "select"
  /\ UNCHANGED <<sent, fifo, ring, line, confirmed, heard, raw, lost>>

\* RX_TIMEOUT: read_exact is dropped with what it has read, the session ends.
ReadTimeout ==
  /\ task = "read"
  /\ want' = 0 /\ task' = "select"
  /\ UNCHANGED <<sent, fifo, ring, line, confirmed, heard, raw, lost>>

\* The session answers an error it finds between two reads (a size, a state, a CRC)
\* and returns to the loop.  One that succeeds resets the chip, with which this
\* history of bytes ends; AbUpdate and FwLink go on from there.
EndSession ==
  /\ task = "session"
  /\ task' = "select"
  /\ UNCHANGED <<sent, fifo, ring, line, want, confirmed, heard, raw, lost>>

Next ==
  \/ \E b \in Bytes : Receive(b)
  \/ Interrupt
  \/ KeepPartialLine \/ ReturnCommand
  \/ Tick \/ BusyDone \/ FlashDone
  \/ StartRead \/ FillBuffer \/ ReadTimeout \/ EndSession

Spec == Init /\ [][Next]_vars

-----------------------------------------------------------------------------
\* What the receive path owes its users.

Ascending(s) == \A i, j \in DOMAIN s : i < j => s[i] < s[j]
Precede(S, T) == \A x \in S, y \in T : x < y

\* The bytes of the lines returned.
Returned == UNION {Range(h.bytes) : h \in Range(heard)}

\* Every byte is used at most once and in the order of the wire: commands,
\* the line under way, the ring and the FIFO hold ever later bytes, whatever
\* the boundaries of the chunks and the ticks that cancel read_command
\* (uart_handler.rs:53-55), and none of them went to a session as well.
UsedOnceInOrder ==
  /\ \A s \in {h.bytes : h \in Range(heard)} \cup {line, ring, fifo} : Ascending(s)
  /\ \A m, n \in DOMAIN heard : m < n => Precede(Range(heard[m].bytes), Range(heard[n].bytes))
  /\ Precede(Returned, Range(line) \cup Buffered)
  /\ Precede(Range(line), Buffered)
  /\ Precede(Range(ring), Range(fifo))
  /\ (Returned \cup Range(line) \cup Buffered) \cap (raw \cup lost) = {}

\* The bytes from..to make up one line with the word cmd, sent after the end
\* of the line before it.
SentAsLine(from, to, cmd) ==
  /\ from = 1 \/ sent[from - 1] = NL
  /\ sent[to] = NL
  /\ SubSeq(sent, from, to - 1) = cmd

\* Whatever came before - lines too long for the buffer, bytes lost to a flash
\* window, an update that stopped half way - a command word sent on a line of
\* its own, none of it lost or taken by a session, is returned as that command
\* once its newline is read (read_command; TESTING.md:285-299).
LinesAreHeard ==
  \A from \in DOMAIN sent : \A to \in from .. Len(sent) : \A cmd \in Words :
    /\ SentAsLine(from, to, cmd)
    /\ (from - 1 .. to) \cap lost = {}
    /\ (from .. to) \cap raw = {}
    /\ to \notin Buffered
    => \E h \in Range(heard) : h.cmd = cmd /\ Last(h.bytes) = to

\* A stalled or killed sender does not keep the command interface: the loop
\* is back at its select again and again (fw_update.rs:51-54).
LoopReturns == (task # "select") ~> (task = "select")

\* The interrupt and the loop keep running, an answer is sent because nothing
\* holds up the transmitter and I2C reads time out, a session ends with its
\* image, and RX_TIMEOUT is armed for as long as bytes stay away.
FairSpec ==
  /\ Spec
  /\ WF_vars(Interrupt) /\ WF_vars(KeepPartialLine \/ ReturnCommand)
  /\ WF_vars(FlashDone) /\ WF_vars(BusyDone) /\ WF_vars(StartRead \/ EndSession)
  /\ WF_vars(FillBuffer) /\ WF_vars(ReadTimeout)

\* As uart_handler.rs:3-4 has it, the ring buffer never drops a byte, even
\* while the main loop is busy.  It does: a flash window masks the interrupt
\* that fills the ring.
NoByteDropped == lost = {}
=============================================================================
