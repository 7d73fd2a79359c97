--------------------------- MODULE MainLoopProofs ---------------------------
(***************************************************************************)
(* Proofs about MainLoop, for all durations within the watchdog's budget.  *)
(* The invariant bounds, for every wait of the firmware, the time since    *)
(* the last feed plus what is left of the wait.                            *)
(***************************************************************************)
EXTENDS MainLoop, SequenceTheorems, TLAPS

\* The time since the last feed, once this wait has taken its longest.
Age == WATCHDOG - dog + timer

\* A feed is never older than the last due time of the ticker: a tick is a feed.
Base == IF confirmed THEN PERIOD ELSE SETTLE + PERIOD
TickInv == task \in Loop /\ next > -MaxLate => WATCHDOG - dog + next <= Base

\* Sessions and answers begin before a tick is due, unless it was starved.
Punctual == ~starved /\ (confirmed \/ update = "trial")

BudgetInv ==
  /\ task \in Windows \cup {"copy"} => Age <= FLASH
  /\ task = "settle" => Age <= SETTLE
  /\ task = "bus" => Age <= FLASH + I2C_TIMEOUT
  /\ task = "shunt" => Age <= FLASH + 2 * I2C_TIMEOUT
  /\ task = "status" => Age <= FLASH + 2 * I2C_TIMEOUT + SEND
  /\ task = "length" /\ ~starved => Age <= Base + RX_TIMEOUT
  /\ task = "chunk" /\ Punctual => Age <= PERIOD + 2 * RX_TIMEOUT
  /\ task = "crc" => Age <= FLASH + RX_TIMEOUT
  /\ task \in {"send", "select"} /\ ~starved =>
       /\ confirmed => Age <= PERIOD + 2 * RX_TIMEOUT + SEND
       /\ update = "trial" /\ ~confirmed => Age <= SETTLE + PERIOD + RX_TIMEOUT + SEND

ControlInv ==
  /\ task = "reset" <=> dog = Unarmed
  /\ task \in App => update \in {"none", "trial"}
  /\ task \in {"chunk", "stage", "crc", "mark"} => update = "none"
  /\ task \in {"chunk", "stage"} => chunks > 0
  /\ task \in {"bus", "shunt", "status", "confirm"} => confirmed
  /\ task \in {"reset", "copy", "settle"} => next = 0 /\ ~confirmed /\ ~starved


USE DEF record, history

-----------------------------------------------------------------------------
(* Durations and tasks                                                     *)

LEMMA DurationsAreNat ==
  /\ PERIOD \in Nat /\ PERIOD > 0
  /\ WATCHDOG \in Nat /\ WATCHDOG > 0
  /\ RX_TIMEOUT \in Nat /\ RX_TIMEOUT > 0
  /\ SETTLE \in Nat /\ SETTLE > 0
  /\ I2C_TIMEOUT \in Nat /\ I2C_TIMEOUT > 0
  /\ SEND \in Nat /\ SEND > 0
  /\ FLASH \in Nat /\ FLASH > 0
  /\ COPIES \in Nat /\ MaxChunks \in Nat /\ MaxChunks > 0
  /\ MaxLate \in Nat /\ MaxLate > 0 /\ RingLines \in Nat
BY DurationsAssumption DEF Durations

LEMMA Waits ==
  /\ Longest["settle"] = SETTLE
  /\ Longest["bus"] = I2C_TIMEOUT /\ Longest["shunt"] = I2C_TIMEOUT
  /\ Longest["send"] = SEND /\ Longest["status"] = SEND
  /\ Longest["length"] = RX_TIMEOUT /\ Longest["chunk"] = RX_TIMEOUT
  /\ Longest["crc"] = RX_TIMEOUT
  /\ Longest["write"] = FLASH /\ Longest["stage"] = FLASH /\ Longest["mark"] = FLASH
  /\ Longest["confirm"] = FLASH /\ Longest["copy"] = FLASH
  /\ Longest["select"] = 0 /\ Longest["hung"] = 0
  /\ Longest["reset"] = 0 /\ Longest["panic"] = 0
BY DEF Longest, App, Loop, Reads, Windows

LEMMA WaitsAreNat ==
  ASSUME NEW t \in App \cup {"reset", "copy", "panic"} PROVE Longest[t] \in Nat
BY DurationsAreNat, Waits DEF App, Loop, Reads, Windows

\* Lines join the ring at its end and leave it from its front.
LEMMA LineAdded ==
  ASSUME NEW r \in Seq(Command), NEW c \in Command
  PROVE  Append(r, c) \in Seq(Command) /\ Len(Append(r, c)) = Len(r) + 1
BY AppendProperties

LEMMA LineTaken ==
  ASSUME NEW r \in Seq(Command), r # <<>>
  PROVE  Tail(r) \in Seq(Command) /\ Len(Tail(r)) <= Len(r)
BY HeadTailProperties, LenProperties

LEMMA RestOfRing ==
  ASSUME NEW r \in Seq(Command), NEW k \in 1 .. Len(r) + 1
  PROVE  SubSeq(r, k, Len(r)) \in Seq(Command) /\ Len(SubSeq(r, k, Len(r))) <= Len(r)
<1>1. Len(r) \in Nat /\ k \in Nat /\ k >= 1
  OBVIOUS
<1>2. \A i \in k .. Len(r) : r[i] \in Command
  BY <1>1
<1> QED BY <1>1, <1>2, SubSeqProperties

-----------------------------------------------------------------------------
(* Types and control                                                       *)

\* The flags apart from the rest, which the provers treat differently.
Flags ==
  /\ confirmed \in BOOLEAN /\ starved \in BOOLEAN /\ behind \in BOOLEAN
  /\ excused \in BOOLEAN
Numbers ==
  /\ task \in App \cup {"reset", "copy", "panic"}
  /\ timer \in 0 .. Longest[task]
  /\ dog \in 0 .. Unarmed
  /\ next \in -MaxLate .. PERIOD
  /\ ring \in Seq(Command) /\ Len(ring) <= RingLines
  /\ update \in {"none", "swap", "trial", "revert"}
  /\ copies \in 0 .. COPIES
  /\ chunks \in 0 .. MaxChunks

LEMMA TypesSplit == TypeOK <=> Flags /\ Numbers
BY DEF TypeOK, Flags, Numbers

LEMMA FlagsNext == Flags /\ [Next]_vars => Flags'
BY Zenon DEF Flags, Next, Run, vars, Elapse, Bite, PowerLoss, PanicReset, ToReset, Boot,
   BootCopy, JumpToApp, StartLoop, Panic, Setting, Version, Unknown, FwUpdate, TakeCommand,
   BackToSelect, Tick, ConfirmBoot, SensorAnswers, SensorFails, Read, ReadLength,
   ReadChunk, StageChunk, ReadCrc, MarkUpdate, ReadTimeout

TypeInv == Numbers /\ ControlInv

LEMMA TypeInit == Init => Flags /\ TypeInv
<1> SUFFICES ASSUME Init PROVE Flags /\ TypeInv
  OBVIOUS
<1>1. Flags
  BY DEF Init, Flags
<1>2. Numbers
  BY Waits, DurationsAreNat DEF Init, Numbers, Unarmed
<1>3. ControlInv
  BY DEF Init, ControlInv, Loop, Reads, Windows
<1> QED BY <1>1, <1>2, <1>3 DEF TypeInv

\* A reset, from wherever.
LEMMA TypeReset ==
  ASSUME TypeInv, ToReset,
         update' \in {"none", "swap", "trial", "revert"}, copies' \in 0 .. COPIES
  PROVE  TypeInv'
<1>1. Numbers'
  BY Waits, DurationsAreNat DEF ToReset, Numbers, Unarmed, TypeInv
<1>2. ControlInv'
  BY DEF ToReset, ControlInv, App, Loop, Reads, Windows
<1> QED BY <1>1, <1>2 DEF TypeInv

LEMMA NumbersNext == TypeInv /\ [Next]_vars => Numbers'
<1> SUFFICES ASSUME TypeInv, [Next]_vars PROVE Numbers'
  OBVIOUS
<1> USE Waits, DurationsAreNat
<1> USE DEF TypeInv, Numbers, ControlInv, App, Loop, Reads, Windows, Unarmed
<1>1. CASE Elapse
  <2>1. /\ timer' \in 0 .. Longest[task]
        /\ dog' \in 0 .. Unarmed
        /\ next' \in -MaxLate .. PERIOD
    BY <1>1 DEF Elapse
  <2>3. ring' \in Seq(Command) /\ Len(ring') <= RingLines
    <3>1. CASE ring' = <<>>
      BY <3>1
    <3>2. CASE ring' = ring
      BY <3>2
    <3>3. ASSUME Len(ring) < RingLines, NEW c \in Command, ring' = Append(ring, c)
          PROVE  ring' \in Seq(Command) /\ Len(ring') <= RingLines
      BY <3>3, LineAdded
    <3> QED BY <1>1, <3>1, <3>2, <3>3 DEF Elapse
  <2> QED BY <1>1, <2>1, <2>3 DEF Elapse
<1>2. CASE Bite \/ PowerLoss \/ PanicReset
  BY <1>2, TypeReset DEF Bite, PowerLoss, PanicReset
<1>3. CASE Boot
  BY <1>3 DEF Boot, Flash, Goto, Feed
<1>4. CASE BootCopy
  BY <1>4 DEF BootCopy, Done, Flash, Goto, Feed
<1>5. CASE JumpToApp
  BY <1>5 DEF JumpToApp, Done, Goto, Feed
<1>6. CASE StartLoop
  BY <1>6 DEF StartLoop, Done, Goto
<1>7. CASE Panic
  BY <1>7 DEF Panic
<1>8. CASE Setting
  BY <1>8 DEF Setting, TakeCommand, Flash, Goto, Feed
<1>9. CASE Version \/ Unknown \/ FwUpdate
  <2>1. ring' \in Seq(Command) /\ Len(ring') <= RingLines
    <3>1. ring # <<>> /\ ring' = Tail(ring)
      BY <1>9 DEF Version, Unknown, FwUpdate, TakeCommand
    <3> QED BY <3>1, LineTaken
  <2>2. CASE Version
    BY <2>1, <2>2 DEF Version, TakeCommand, Goto
  <2>3. CASE Unknown
    BY <2>1, <2>3 DEF Unknown, TakeCommand
  <2>4. CASE FwUpdate
    BY <2>1, <2>4 DEF FwUpdate, TakeCommand, Goto
  <2> QED BY <1>9, <2>2, <2>3, <2>4
<1>10. CASE BackToSelect
  BY <1>10 DEF BackToSelect, Done, Goto
<1>11. CASE Tick
  BY <1>11 DEF Tick, Due, Flash, Goto, Feed
<1>12. CASE ConfirmBoot
  BY <1>12 DEF ConfirmBoot, Done, Goto
<1>13. CASE SensorAnswers \/ SensorFails
  <2>1. CASE SensorAnswers
    BY <2>1 DEF SensorAnswers, Goto
  <2>2. CASE SensorFails
    BY <2>2 DEF SensorFails, Done, Goto
  <2> QED BY <1>13, <2>1, <2>2
<1>14. CASE ReadLength \/ ReadChunk \/ ReadCrc
  <2>1. ring' \in Seq(Command) /\ Len(ring') <= RingLines
    <3>1. PICK k \in 1 .. Len(ring) + 1 : ring' = SubSeq(ring, k, Len(ring))
      BY <1>14 DEF ReadLength, ReadChunk, ReadCrc, Read
    <3> QED BY <3>1, RestOfRing
  <2>2. /\ task' \in {"send", "chunk", "stage", "mark"} /\ timer' = Longest[task']
        /\ UNCHANGED <<next, update, copies>>
    BY <1>14 DEF ReadLength, ReadChunk, ReadCrc, Read, Flash, Goto
  <2>3. dog' \in 0 .. Unarmed
    <3>1. dog' = dog \/ dog' = WATCHDOG
      BY <1>14 DEF ReadLength, ReadChunk, ReadCrc, Flash, Feed
    <3> QED BY <3>1
  <2>4. chunks' \in 0 .. MaxChunks
    BY <1>14 DEF ReadLength, ReadChunk, ReadCrc
  <2>5. task' \in App /\ timer' \in 0 .. Longest[task']
    BY <2>2, WaitsAreNat
  <2> QED BY <2>1, <2>2, <2>3, <2>4, <2>5
<1>16. CASE StageChunk
  BY <1>16 DEF StageChunk, Done, Goto
<1>18. CASE MarkUpdate
  BY <1>18, TypeReset DEF MarkUpdate, Done, Goto
<1>19. CASE ReadTimeout
  BY <1>19 DEF ReadTimeout, Done, Goto
<1>20. CASE UNCHANGED vars
  BY <1>20 DEF vars
<1> QED
  BY <1>1, <1>2, <1>3, <1>4, <1>5, <1>6, <1>7, <1>8, <1>9, <1>10, <1>11, <1>12,
     <1>13, <1>14, <1>16, <1>18, <1>19, <1>20 DEF Next, Run

LEMMA ControlNext == TypeInv /\ Flags /\ [Next]_vars => ControlInv'
<1> SUFFICES ASSUME TypeInv, Flags, [Next]_vars PROVE ControlInv'
  OBVIOUS
<1> USE DurationsAreNat
<1> USE DEF TypeInv, Flags, Numbers, ControlInv, App, Loop, Reads, Windows, Unarmed
<1>1. CASE Elapse
  <2>1. /\ task # "reset"
        /\ dog # Unarmed /\ dog' = dog - 1
        /\ task \notin Loop => next' = next
        /\ UNCHANGED <<task, confirmed, update, copies, chunks, starved>>
    BY <1>1 DEF Elapse, Waiting
  <2> QED BY <2>1
<1>2. CASE Bite \/ PowerLoss \/ PanicReset
  BY <1>2, TypeReset DEF Bite, PowerLoss, PanicReset
<1>3. CASE Boot \/ BootCopy
  BY <1>3 DEF Boot, BootCopy, Done, Flash, Goto, Feed
<1>5. CASE JumpToApp
  BY <1>5 DEF JumpToApp, Done, Goto, Feed
<1>6. CASE StartLoop
  BY <1>6 DEF StartLoop, Done, Goto
<1>7. CASE Panic
  BY <1>7 DEF Panic
<1>8. CASE Setting
  BY <1>8 DEF Setting, TakeCommand, Flash, Goto, Feed
<1>9. CASE Version \/ Unknown \/ FwUpdate
  BY <1>9 DEF Version, Unknown, FwUpdate, TakeCommand, Goto
<1>10. CASE BackToSelect
  BY <1>10 DEF BackToSelect, Done, Goto
<1>11. CASE Tick
  BY <1>11 DEF Tick, Due, Flash, Goto, Feed
<1>12. CASE ConfirmBoot
  BY <1>12 DEF ConfirmBoot, Done, Goto
<1>13. CASE SensorAnswers \/ SensorFails
  BY <1>13 DEF SensorAnswers, SensorFails, Done, Goto
<1>14. CASE ReadLength
  BY <1>14 DEF ReadLength, Read, Goto
<1>15. CASE ReadChunk
  BY <1>15 DEF ReadChunk, Read, Flash, Goto, Feed
<1>16. CASE StageChunk
  BY <1>16 DEF StageChunk, Done, Goto
<1>17. CASE ReadCrc
  BY <1>17 DEF ReadCrc, Read, Flash, Goto, Feed
<1>18. CASE MarkUpdate
  BY <1>18, TypeReset DEF MarkUpdate, Done, Goto
<1>19. CASE ReadTimeout
  BY <1>19 DEF ReadTimeout, Done, Goto
<1>20. CASE UNCHANGED vars
  BY <1>20 DEF vars
<1> QED
  BY <1>1, <1>2, <1>3, <1>5, <1>6, <1>7, <1>8, <1>9, <1>10, <1>11, <1>12,
     <1>13, <1>14, <1>15, <1>16, <1>17, <1>18, <1>19, <1>20 DEF Next, Run

LEMMA TypeInvariance == Spec => [](Flags /\ TypeInv)
<1>1. Init => Flags /\ TypeInv
  BY TypeInit
<1>2. Flags /\ TypeInv /\ [Next]_vars => (Flags /\ TypeInv)'
  BY FlagsNext, NumbersNext, ControlNext DEF TypeInv
<1> QED BY <1>1, <1>2, PTL DEF Spec

\* Every reachable state is well typed: no wait outlasts its timeout, no session
\* awaits more chunks than its image has, and the watchdog is armed from the
\* bootloader's first steps on.
THEOREM TypeCorrect == Spec => []TypeOK
<1>1. Flags /\ TypeInv => TypeOK
  BY TypesSplit DEF TypeInv
<1> QED BY <1>1, TypeInvariance, PTL

-----------------------------------------------------------------------------
(* The watchdog                                                            *)

\* What the clocks show, apart from the rest of the types.
Clocks == next \in Int /\ next <= PERIOD /\ timer \in Nat /\ dog \in Nat /\ dog <= Unarmed

LEMMA ClocksRun == TypeInv => Clocks /\ (task = "select" => timer = 0)
<1> SUFFICES ASSUME TypeInv PROVE Clocks /\ (task = "select" => timer = 0)
  OBVIOUS
<1>1. Longest[task] \in Nat
  BY WaitsAreNat DEF TypeInv, Numbers
<1> QED BY <1>1, DurationsAreNat, Waits DEF TypeInv, Numbers, Clocks, Unarmed

LEMMA TickNext == Flags /\ TypeInv /\ TickInv /\ BudgetInv /\ [Next]_vars => TickInv'
<1> SUFFICES ASSUME Flags, TypeInv, TickInv, BudgetInv, [Next]_vars,
                     task' \in Loop, next' > -MaxLate
             PROVE  WATCHDOG - dog' + next' <= Base'
  BY DEF TickInv
<1>0. Clocks /\ ControlInv
  BY ClocksRun DEF TypeInv
<1> USE <1>0, DurationsAreNat, Waits
<1> USE DEF Clocks, ControlInv, TickInv, App, Loop, Reads, Windows, Unarmed, Base
<1>1. CASE Elapse
  <2>1. /\ task \in Loop /\ task # "reset"
        /\ dog' = dog - 1
        /\ next' = IF next > -MaxLate THEN next - 1 ELSE next
        /\ confirmed' = confirmed
    BY <1>1 DEF Elapse, Waiting
  <2> QED BY <2>1
<1>2. CASE Bite \/ PowerLoss \/ PanicReset \/ Boot \/ BootCopy \/ JumpToApp \/ Panic
  BY <1>2 DEF Bite, PowerLoss, PanicReset, ToReset, Boot, BootCopy, JumpToApp, Panic, Flash, Goto
<1>6. CASE StartLoop
  BY <1>6 DEF StartLoop, Done, Goto, BudgetInv, Age
<1>8. CASE Setting
  BY <1>8 DEF Setting, TakeCommand, Flash, Goto, Feed
<1>9. CASE Version \/ Unknown \/ FwUpdate
  <2>1. task \in Loop /\ UNCHANGED <<dog, next, confirmed>>
    BY <1>9 DEF Version, Unknown, FwUpdate, TakeCommand
  <2> QED BY <2>1
<1>10. CASE BackToSelect
  BY <1>10 DEF BackToSelect, Done, Goto
<1>11. CASE Tick
  BY <1>11 DEF Tick, Due, Flash, Goto, Feed
<1>12. CASE ConfirmBoot
  BY <1>12 DEF ConfirmBoot, Done, Goto
<1>13. CASE SensorAnswers \/ SensorFails
  BY <1>13 DEF SensorAnswers, SensorFails, Done, Goto
<1>14. CASE ReadLength
  BY <1>14 DEF ReadLength, Read, Goto
<1>15. CASE ReadChunk
  BY <1>15 DEF ReadChunk, Read, Flash, Goto, Feed
<1>16. CASE StageChunk
  BY <1>16 DEF StageChunk, Done, Goto
<1>17. CASE ReadCrc
  BY <1>17 DEF ReadCrc, Read, Flash, Goto, Feed
<1>18. CASE MarkUpdate
  BY <1>18 DEF MarkUpdate, ToReset, Done, Goto
<1>19. CASE ReadTimeout
  BY <1>19 DEF ReadTimeout, Done, Goto
<1>20. CASE UNCHANGED vars
  BY <1>20 DEF vars
<1> QED
  BY <1>1, <1>2, <1>6, <1>8, <1>9, <1>10, <1>11, <1>12,
     <1>13, <1>14, <1>15, <1>16, <1>17, <1>18, <1>19, <1>20 DEF Next, Run

LEMMA BudgetNext == Flags /\ TypeInv /\ TickInv /\ BudgetInv /\ [Next]_vars => BudgetInv'
<1> SUFFICES ASSUME Flags, TypeInv, TickInv, BudgetInv, [Next]_vars
             PROVE  BudgetInv'
  OBVIOUS
<1>0. Clocks /\ ControlInv /\ (task = "select" => timer = 0)
  BY ClocksRun DEF TypeInv
<1> USE <1>0, DurationsAreNat, BudgetAssumption, Waits
<1> USE DEF Clocks, ControlInv, TickInv, BudgetInv, Age, Base, Punctual,
            App, Loop, Reads, Windows, Unarmed
<1>1. CASE Elapse
  <2>1. /\ task # "reset" /\ dog' = dog - 1
        /\ task \in {"hung", "panic"} \/ (task = "select" /\ next > 0) \/ (task # "select" /\ timer > 0)
        /\ timer' = IF timer > 0 THEN timer - 1 ELSE 0
        /\ UNCHANGED <<task, confirmed, update, starved>>
    BY <1>1 DEF Elapse, Waiting
  <2>2. CASE task = "select"
    BY <2>1, <2>2
  <2>3. CASE task \in {"hung", "panic"}
    BY <2>1, <2>3
  <2>4. CASE task \notin {"hung", "panic", "select"}
    <3>1. Age' = Age
      BY <2>1, <2>4
    <3> QED BY <2>1, <3>1
  <2> QED BY <2>2, <2>3, <2>4
<1>2. CASE Bite \/ PowerLoss \/ PanicReset
  BY <1>2 DEF Bite, PowerLoss, PanicReset, ToReset
<1>3. CASE Boot \/ BootCopy
  BY <1>3 DEF Boot, BootCopy, Flash, Goto, Feed
<1>4. CASE JumpToApp
  BY <1>4 DEF JumpToApp, Goto, Feed
<1>5. CASE StartLoop
  BY <1>5 DEF StartLoop, Done, Goto
<1>6. CASE Panic
  BY <1>6 DEF Panic
<1>7. CASE Setting
  <2>1. ~starved' => ~starved
    BY <1>7, Zenon DEF Setting, TakeCommand
  <2>2. /\ task = "select" /\ UNCHANGED <<confirmed, update>>
        /\ \/ task' = "write" /\ timer' = FLASH /\ dog' = WATCHDOG
           \/ UNCHANGED <<task, timer, dog>>
    BY <1>7 DEF Setting, TakeCommand, Flash, Goto, Feed
  <2> QED BY <2>1, <2>2
<1>8. CASE Version
  <2>1. ~starved' => ~starved /\ next > 0
    <3>1. ~starved' => ~starved /\ ~Due
      BY <1>8, Zenon DEF Version, TakeCommand
    <3> QED BY <3>1 DEF Due
  <2>2. /\ task = "select" /\ task' = "send" /\ timer' = SEND
        /\ UNCHANGED <<dog, confirmed, update>>
    BY <1>8 DEF Version, TakeCommand, Goto
  <2> QED BY <2>1, <2>2
<1>9. CASE Unknown
  BY <1>9 DEF Unknown, TakeCommand, Due
<1>10. CASE FwUpdate
  <2>1. ~starved' => ~starved /\ next > 0
    <3>1. ~starved' => ~starved /\ ~Due
      BY <1>10, Zenon DEF FwUpdate, TakeCommand
    <3> QED BY <3>1 DEF Due
  <2>2. /\ task = "select" /\ task' = "length" /\ timer' = RX_TIMEOUT
        /\ UNCHANGED <<dog, confirmed, update>>
    BY <1>10 DEF FwUpdate, TakeCommand, Goto
  <2> QED BY <2>1, <2>2
<1>11. CASE BackToSelect
  BY <1>11 DEF BackToSelect, Done, Goto
<1>12. CASE Tick
  BY <1>12 DEF Tick, Flash, Goto, Feed
<1>13. CASE ConfirmBoot
  BY <1>13 DEF ConfirmBoot, Done, Goto
<1>14. CASE SensorAnswers \/ SensorFails
  <2>1. \/ task = "bus" /\ task' = "shunt" /\ timer' = I2C_TIMEOUT
        \/ task \in {"bus", "shunt"} /\ task' = "status" /\ timer' = SEND
    BY <1>14 DEF SensorAnswers, SensorFails, Done, Goto
  <2>2. dog' = dog
    BY <1>14 DEF SensorAnswers, SensorFails
  <2> QED BY <2>1, <2>2
<1>15. CASE ReadLength
  <2>1. \/ task' = "send" /\ timer' = SEND
        \/ update = "none" /\ task' = "chunk" /\ timer' = RX_TIMEOUT
    BY <1>15 DEF ReadLength, Goto
  <2>2. task = "length" /\ UNCHANGED <<dog, confirmed, starved, update>>
    BY <1>15 DEF ReadLength, Read
  <2> QED BY <2>1, <2>2
<1>16. CASE ReadChunk
  BY <1>16 DEF ReadChunk, Read, Flash, Goto, Feed
<1>17. CASE StageChunk
  BY <1>17 DEF StageChunk, Done, Goto
<1>18. CASE ReadCrc
  <2>1. CASE task' = "mark" /\ timer' = FLASH /\ dog' = WATCHDOG
    BY <2>1
  <2>2. CASE task' = "send" /\ timer' = SEND /\ dog' \in {dog, WATCHDOG}
    <3>1. task = "crc" /\ update' = "none"
      BY <1>18 DEF ReadCrc, Read
    <3>2. CASE dog' = dog
      BY <2>2, <3>1, <3>2
    <3>3. CASE dog' = WATCHDOG
      BY <2>2, <3>1, <3>3
    <3> QED BY <2>2, <3>2, <3>3
  <2> QED BY <1>18, <2>1, <2>2 DEF ReadCrc, Flash, Goto, Feed
<1>19. CASE MarkUpdate
  <2>1. CASE task' = "reset"
    BY <2>1
  <2>2. CASE /\ task = "mark" /\ timer = 0 /\ task' = "send" /\ timer' = SEND
             /\ UNCHANGED <<dog, confirmed, update, starved>>
    BY <2>2
  <2> QED BY <1>19, <2>1, <2>2 DEF MarkUpdate, ToReset, Done, Goto
<1>20. CASE ReadTimeout
  BY <1>20 DEF ReadTimeout, Done, Goto
<1>21. CASE UNCHANGED vars
  BY <1>21 DEF vars
<1> QED
  BY <1>1, <1>2, <1>3, <1>4, <1>5, <1>6, <1>7, <1>8, <1>9, <1>10, <1>11, <1>12,
     <1>13, <1>14, <1>15, <1>16, <1>17, <1>18, <1>19, <1>20, <1>21 DEF Next, Run

IInv == Flags /\ TypeInv /\ TickInv /\ BudgetInv

THEOREM Invariance == Spec => []IInv
<1>1. Init => IInv
  BY TypeInit DEF IInv, Init, TickInv, BudgetInv, Loop, Reads, Windows
<1>2. IInv /\ [Next]_vars => IInv'
  BY FlagsNext, NumbersNext, ControlNext, TickNext, BudgetNext DEF IInv, TypeInv
<1> QED BY <1>1, <1>2, PTL DEF Spec

LEMMA FedInTime == IInv => WatchdogStaysFed
<1> SUFFICES ASSUME IInv, dog = 0
             PROVE  \/ task \in {"hung", "panic"}
                    \/ starved
                    \/ ~confirmed /\ update = "none" /\ task \in {"chunk", "send", "select"}
  BY DEF WatchdogStaysFed
<1>1. timer \in Nat /\ Age = WATCHDOG + timer /\ task # "reset"
  BY DurationsAreNat, Waits DEF IInv, TypeInv, Numbers, ControlInv, Age, Unarmed,
     App, Loop, Reads, Windows
<1>2. Base \in Nat /\ Base <= SETTLE + PERIOD
  BY DurationsAreNat DEF Base
<1>3. task \notin Windows \cup {"copy", "settle", "bus", "shunt", "status", "crc"}
  BY <1>1, DurationsAreNat, BudgetAssumption DEF IInv, BudgetInv
<1>4. task = "length" => starved
  BY <1>1, <1>2, DurationsAreNat, BudgetAssumption DEF IInv, BudgetInv
<1>5. task = "chunk" => starved \/ ~confirmed
  BY <1>1, DurationsAreNat, BudgetAssumption DEF IInv, BudgetInv, Punctual
<1>6. task \in {"send", "select"} => starved \/ (~confirmed /\ update # "trial")
  BY <1>1, DurationsAreNat, BudgetAssumption DEF IInv, BudgetInv
<1> QED BY <1>1, <1>3, <1>4, <1>5, <1>6
        DEF IInv, TypeInv, Numbers, ControlInv, App, Loop, Reads

\* Whatever the durations within the budget, the watchdog fires only on firmware
\* that hangs or panics, on a tick starved by commands, or on a session of the
\* first second that stalls twice; never on a healthy image on trial otherwise.
THEOREM WatchdogFed == Spec => []WatchdogStaysFed
BY FedInTime, Invariance, PTL

-----------------------------------------------------------------------------
(* The trial of an update                                                  *)

\* Whatever ends a trial without a confirmation is an excuse for the revert.
TrialInv ==
  /\ update = "revert" => excused
  /\ update = "trial" /\ task \in {"reset", "hung", "panic"} => excused

LEMMA TrialNext == IInv /\ TrialInv /\ [Next]_vars => TrialInv'
<1> SUFFICES ASSUME IInv, TrialInv, [Next]_vars PROVE TrialInv'
  OBVIOUS
<1>1. CASE Bite
  <2>1. dog = 0 /\ update' = update /\ (excused \/ starved => excused')
    BY <1>1, Zenon DEF Bite
  <2>2. update = "trial" => starved \/ task \in {"hung", "panic"}
    BY <2>1, FedInTime DEF WatchdogStaysFed
  <2>3. update = "trial" => excused'
    BY <2>1, <2>2 DEF TrialInv
  <2> QED BY <2>1, <2>3 DEF TrialInv
<1>2. CASE PowerLoss \/ Panic
  BY <1>2 DEF PowerLoss, Panic, TrialInv
<1>3. CASE PanicReset
  BY <1>3 DEF PanicReset, TrialInv
<1>4. CASE Boot
  <2>1. /\ task = "reset" /\ task' = "copy" /\ UNCHANGED excused
        /\ update' = IF update = "trial" THEN "revert" ELSE update
    BY <1>4 DEF Boot, Flash, Goto
  <2> QED BY <2>1 DEF TrialInv
<1>5. CASE JumpToApp
  <2>1. /\ update' \in {"trial", "none"}
        /\ task' = "settle" \/ excused' = TRUE
    BY <1>5 DEF JumpToApp, Goto
  <2> QED BY <2>1 DEF TrialInv
<1>6. CASE MarkUpdate
  <2>1. \/ update' = "swap"
        \/ task' = "send" /\ UNCHANGED <<update, excused>>
    BY <1>6 DEF MarkUpdate, Goto
  <2> QED BY <2>1 DEF TrialInv
<1>7. CASE Elapse
  <2>1. UNCHANGED <<task, update, excused>>
    BY <1>7 DEF Elapse
  <2> QED BY <2>1 DEF TrialInv
<1>8. CASE ConfirmBoot
  BY <1>8 DEF ConfirmBoot, TrialInv
<1>9. CASE \/ BootCopy \/ StartLoop \/ Setting \/ Version \/ Unknown \/ FwUpdate
           \/ BackToSelect \/ Tick \/ SensorAnswers \/ SensorFails
           \/ ReadLength \/ ReadChunk \/ StageChunk \/ ReadCrc \/ ReadTimeout
  <2>1. UNCHANGED <<update, excused>> /\ task' \notin {"reset", "hung", "panic"}
    BY <1>9 DEF BootCopy, StartLoop, Setting, Version, Unknown, FwUpdate, TakeCommand,
       BackToSelect, Tick, SensorAnswers, SensorFails, Read, ReadLength, ReadChunk,
       StageChunk, ReadCrc, ReadTimeout, Flash, Goto
  <2> QED BY <2>1 DEF TrialInv
<1>10. CASE UNCHANGED vars
  BY <1>10 DEF TrialInv, vars
<1> QED BY <1>1, <1>2, <1>3, <1>4, <1>5, <1>6, <1>7, <1>8, <1>9, <1>10 DEF Next, Run

\* For all durations within the budgets, a healthy update is never taken back because
\* its first tick and its confirmation took too long, or because a session met it on
\* trial: only a hang, a panic, a power cut or a starved tick undoes it.
THEOREM HealthyTrialsStay == Spec => []OnlyExcusedReverts
<1>1. Init => TrialInv
  BY DEF Init, TrialInv
<1>2. IInv /\ TrialInv /\ [Next]_vars => TrialInv'
  BY TrialNext
<1>3. TrialInv => OnlyExcusedReverts
  BY DEF TrialInv, OnlyExcusedReverts
<1> QED BY <1>1, <1>2, <1>3, Invariance, PTL DEF Spec

-----------------------------------------------------------------------------
(* The pace of the ticker                                                  *)

\* The waits of a tick still to come after the present one.
Rest == [t \in {"confirm", "bus", "shunt", "status", "write", "send", "select"} |->
  CASE t = "confirm" -> 2 * I2C_TIMEOUT + SEND
    [] t = "bus" -> I2C_TIMEOUT + SEND
    [] t = "shunt" -> SEND
    [] OTHER -> 0]

\* Where the ticker will stand when the loop is back at its select: overdue by less
\* than one answer or the flash operations of one call.
Early(n) == n > -SEND \/ n > -FLASH
PaceInv ==
  task \in Loop /\ ~behind => task \in DOMAIN Rest /\ Early(next - timer - Rest[task])

LEMMA Rests ==
  /\ DOMAIN Rest = {"confirm", "bus", "shunt", "status", "write", "send", "select"}
  /\ Rest["confirm"] = 2 * I2C_TIMEOUT + SEND
  /\ Rest["bus"] = I2C_TIMEOUT + SEND /\ Rest["shunt"] = SEND
  /\ Rest["status"] = 0 /\ Rest["write"] = 0 /\ Rest["send"] = 0 /\ Rest["select"] = 0
BY DEF Rest

\* A command taken before the tick was due costs one wait, of at least a unit less
\* than its bound; taken later, it is what puts the ticker behind.
LEMMA PaceOfCommand ==
  ASSUME NEW c \in Command, Flags, TypeInv, PaceInv, TakeCommand(c), next' = next,
         \/ task' = "write" /\ timer' = FLASH
         \/ task' = "send" /\ timer' = SEND
         \/ task' = "select" /\ timer' = 0
         \/ c = "FW_UPDATE"
  PROVE  PaceInv'
<1> SUFFICES ASSUME task' \in Loop, ~behind'
             PROVE  task' \in DOMAIN Rest /\ Early(next' - timer' - Rest[task'])
  BY DEF PaceInv
<1>1. c # "FW_UPDATE" /\ ~Due
  BY Zenon DEF TakeCommand
<1>2. next \in Int /\ next > 0
  BY <1>1, DurationsAreNat DEF Due, TypeInv, Numbers
<1> QED BY <1>1, <1>2, Rests, DurationsAreNat DEF Early

LEMMA PaceNext == Flags /\ TypeInv /\ PaceInv /\ [Next]_vars => PaceInv'
<1> SUFFICES ASSUME Flags, TypeInv, PaceInv, [Next]_vars PROVE PaceInv'
  OBVIOUS
<1> USE DurationsAreNat, Waits, Rests, BudgetAssumption
<1> USE DEF Loop, Reads, Windows
<1>0. next \in Int /\ timer \in Nat /\ (task = "select" => timer = 0)
  BY ClocksRun DEF Clocks
<1>1. CASE Elapse
  <2> SUFFICES ASSUME task' \in Loop, ~behind'
               PROVE  task' \in DOMAIN Rest /\ Early(next' - timer' - Rest[task'])
    BY DEF PaceInv
  <2>1. /\ task' = task
        /\ (task = "select" /\ next > 0) \/ (task # "select" /\ timer > 0)
        /\ next' = next \/ next' = next - 1
        /\ timer' = IF timer > 0 THEN timer - 1 ELSE 0
    BY <1>1 DEF Elapse, Waiting
  <2>2. CASE task = "select"
    BY <1>0, <2>1, <2>2 DEF Early
  <2>3. CASE task # "select"
    <3>1. ~behind
      BY <1>1, <2>3, Zenon DEF Elapse
    <3>2. task \in DOMAIN Rest /\ Early(next - timer - Rest[task])
      BY <2>1, <3>1 DEF PaceInv
    <3>3. next' - timer' = next - timer \/ next' - timer' = next - timer + 1
      BY <1>0, <2>1, <2>3
    <3> QED BY <1>0, <2>1, <3>2, <3>3 DEF Early
  <2> QED BY <2>2, <2>3
<1>2. CASE \/ Bite \/ PowerLoss \/ PanicReset \/ Boot \/ BootCopy \/ JumpToApp \/ Panic
  BY <1>2 DEF PaceInv, Bite, PowerLoss, PanicReset, ToReset, Boot, BootCopy, JumpToApp,
     Panic, Flash, Goto
<1>3. CASE StartLoop
  BY <1>3 DEF PaceInv, Early, StartLoop, Goto
<1>4. CASE Setting \/ Version \/ Unknown \/ FwUpdate
  <2>1. PICK c \in Command : TakeCommand(c)
    BY <1>4 DEF Setting, Version, Unknown, FwUpdate, Command
  <2>2. /\ next' = next
        /\ \/ task' = "write" /\ timer' = FLASH
           \/ task' = "send" /\ timer' = SEND
           \/ UNCHANGED <<task, timer>>
           \/ FwUpdate
    BY <1>4 DEF Setting, Version, Unknown, FwUpdate, Flash, Goto
  <2>3. task = "select" /\ timer = 0
    BY <1>0, <2>1 DEF TakeCommand
  <2>4. CASE FwUpdate
    BY <2>2, <2>4, PaceOfCommand DEF FwUpdate, Command
  <2> QED BY <2>1, <2>2, <2>3, <2>4, PaceOfCommand
<1>5. CASE BackToSelect
  <2>1. task \in {"write", "send", "status"} /\ timer = 0 /\ task' = "select" /\ timer' = 0
        /\ UNCHANGED <<next, behind>>
    BY <1>5 DEF BackToSelect, Done, Goto
  <2> QED BY <1>0, <2>1 DEF PaceInv, Early
<1>6. CASE Tick
  <2>1. task = "select" /\ UNCHANGED behind /\ next' = next + PERIOD
        /\ \/ task' = "confirm" /\ timer' = FLASH
           \/ task' = "bus" /\ timer' = I2C_TIMEOUT
    BY <1>6 DEF Tick, Flash, Goto
  <2> QED BY <1>0, <2>1 DEF PaceInv, Early
<1>7. CASE ConfirmBoot
  <2>1. task = "confirm" /\ timer = 0 /\ task' = "bus" /\ timer' = I2C_TIMEOUT
        /\ UNCHANGED <<next, behind>>
    BY <1>7 DEF ConfirmBoot, Done, Goto
  <2> QED BY <1>0, <2>1 DEF PaceInv, Early
<1>8. CASE SensorAnswers \/ SensorFails
  <2>1. /\ \/ task = "bus" /\ task' = "shunt" /\ timer' = I2C_TIMEOUT
           \/ task \in {"bus", "shunt"} /\ task' = "status" /\ timer' = SEND
        /\ UNCHANGED <<next, behind>>
    BY <1>8 DEF SensorAnswers, SensorFails, Done, Goto
  <2> QED BY <1>0, <2>1 DEF PaceInv, Early
<1>9. CASE ReadLength \/ ReadChunk \/ ReadCrc \/ ReadTimeout \/ StageChunk \/ MarkUpdate
  <2>1. \/ task \in Reads \cup {"stage", "mark"} /\ UNCHANGED behind
        \/ task' = "reset"
    BY <1>9 DEF ReadLength, ReadChunk, ReadCrc, Read, ReadTimeout, StageChunk, MarkUpdate,
       Done, ToReset
  <2> QED BY <2>1 DEF PaceInv
<1>10. CASE UNCHANGED vars
  BY <1>10 DEF PaceInv, vars
<1> QED BY <1>1, <1>2, <1>3, <1>4, <1>5, <1>6, <1>7, <1>8, <1>9, <1>10 DEF Next, Run

\* Whatever the durations, as long as the waits of a tick fit into a period: without
\* sessions and starved ticks, no tick comes later than one answer or the flash
\* operations of one call make it, a silent sensor and the confirmation of a boot included.
THEOREM Punctuality == Spec => []TicksOnTime
<1>1. Init => PaceInv
  BY DEF Init, PaceInv, Loop, Reads, Windows
<1>2. Flags /\ TypeInv /\ PaceInv /\ [Next]_vars => PaceInv'
  BY PaceNext
<1>3. TypeInv /\ PaceInv => TicksOnTime
  <2> SUFFICES ASSUME TypeInv, PaceInv, task \in Loop, ~behind
               PROVE  next > -SEND \/ next > -FLASH
    BY DEF TicksOnTime
  <2>1. next \in Int /\ timer \in Nat
    BY ClocksRun DEF Clocks
  <2>2. task \in DOMAIN Rest /\ Rest[task] \in Nat
    BY Rests, DurationsAreNat DEF PaceInv
  <2> QED BY <2>1, <2>2, DurationsAreNat DEF PaceInv, Early
<1> QED BY <1>1, <1>2, <1>3, TypeInvariance, PTL DEF Spec
=============================================================================
