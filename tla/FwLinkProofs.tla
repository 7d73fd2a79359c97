----------------------------- MODULE FwLinkProofs -----------------------------
(***************************************************************************)
(* Proofs about FwLink, for images, chunks and buffers of any size.  While *)
(* nothing goes wrong, script and device are in lockstep: what is under    *)
(* way between them is determined by where each of them is.  Whatever goes *)
(* wrong, while an image other than the one being sent may still be marked *)
(* the run that sends hears nothing it takes for an answer.                *)
(***************************************************************************)
EXTENDS FwLink, TLAPS

-----------------------------------------------------------------------------
(* What is under way to the device                                         *)

\* The units written and those still to be written are one sequence: writing does
\* not change it, and the device reads its head.
LEMMA FlowSteps ==
  ASSUME NEW S, NEW w \in Seq(S), NEW o \in Seq(S)
  PROVE  /\ w \o o = <<>> <=> w = <<>> /\ o = <<>>
         /\ w # <<>> => /\ Head(w) \in S /\ Tail(w) \in Seq(S)
                        /\ Head(w \o o) = Head(w) /\ Tail(w \o o) = Tail(w) \o o
         /\ o # <<>> => /\ Append(w, Head(o)) \in Seq(S) /\ Tail(o) \in Seq(S)
                        /\ Len(Tail(o)) <= Len(o)
                        /\ Append(w, Head(o)) \o Tail(o) = w \o o
         /\ <<>> \o o = o
<1>1. w \o o = <<>> <=> w = <<>> /\ o = <<>>
  OBVIOUS
<1>2. ASSUME w # <<>>
      PROVE  /\ Head(w) \in S /\ Tail(w) \in Seq(S)
             /\ Head(w \o o) = Head(w) /\ Tail(w \o o) = Tail(w) \o o
  BY <1>2
<1>3. ASSUME o # <<>>
      PROVE  /\ Append(w, Head(o)) \in Seq(S) /\ Tail(o) \in Seq(S)
             /\ Len(Tail(o)) <= Len(o)
             /\ Append(w, Head(o)) \o Tail(o) = w \o o
  BY <1>3
<1>4. <<>> \o o = o
  OBVIOUS
<1> QED BY <1>1, <1>2, <1>3, <1>4

\* A stretch of an image that moves from the wire to the device unit by unit.
LEMMA NextUnit ==
  ASSUME NEW S, NEW c \in Seq(S), NEW k \in Nat, NEW m \in Nat, k < m, m <= Len(c)
  PROVE  /\ SubSeq(c, k + 1, m) # <<>>
         /\ Head(SubSeq(c, k + 1, m)) = c[k + 1]
         /\ Tail(SubSeq(c, k + 1, m)) = SubSeq(c, k + 2, m)
         /\ Append(SubSeq(c, 1, k), c[k + 1]) = SubSeq(c, 1, k + 1)
<1>1. SubSeq(c, k + 1, m) # <<>> /\ Head(SubSeq(c, k + 1, m)) = c[k + 1]
  OBVIOUS
<1>2. Tail(SubSeq(c, k + 1, m)) = SubSeq(c, k + 2, m)
  OBVIOUS
<1>3. Append(SubSeq(c, 1, k), c[k + 1]) = SubSeq(c, 1, k + 1)
  OBVIOUS
<1> QED BY <1>1, <1>2, <1>3

\* Stretches that are empty or whole, and the length of one.
LEMMA Stretch ==
  ASSUME NEW S, NEW c \in Seq(S), NEW k \in 0 .. Len(c)
  PROVE  /\ SubSeq(c, k + 1, k) = <<>> /\ SubSeq(c, 1, 0) = <<>>
         /\ SubSeq(c, 1, Len(c)) = c /\ Len(SubSeq(c, 1, k)) = k
         /\ SubSeq(c, 1, k) \in Seq(S)
OBVIOUS

LEMMA OneOut ==
  ASSUME NEW S, NEW s \in Seq(S), NEW n \in DOMAIN s
  PROVE  RemoveAt(s, n) \in Seq(S)
BY DEF RemoveAt

\* Between two multiples of a chunk there is none.
LEMMA Multiples ==
  ASSUME NEW s \in Nat \ {0}, NEW a \in Nat, NEW b \in Nat, a % s = 0, b % s = 0, a < b
  PROVE  a + s <= b
<1> DEFINE i == a \div s
           j == b \div s
<1>1. i \in Nat /\ j \in Nat /\ a = s * i /\ b = s * j
  OBVIOUS
<1> HIDE DEF i, j
<1>2. i < j
  <2>1. ASSUME j <= i PROVE FALSE
    <3>1. s * j <= s * i
      BY <1>1, <2>1
    <3> QED BY <1>1, <3>1
  <2> QED BY <1>1, <2>1
<1>3. s * (i + 1) <= s * j
  BY <1>1, <1>2
<1>4. a + s = s * (i + 1)
  BY <1>1
<1> QED BY <1>1, <1>3, <1>4

LEMMA NextMultiple ==
  ASSUME NEW s \in Nat \ {0}, NEW a \in Nat, a % s = 0
  PROVE  (a + s) % s = 0 /\ 0 % s = 0
<1> DEFINE i == a \div s
<1>1. i \in Nat /\ a = s * i
  OBVIOUS
<1> HIDE DEF i
<1>2. a + s = s * (i + 1) /\ (s * (i + 1)) % s = 0
  BY <1>1
<1> QED BY <1>2

-----------------------------------------------------------------------------
(* Types                                                                   *)

Unit == {Command[1], Command[2], Noise}
          \cup {<<"len", i>> : i \in Images} \cup {<<"crc", i>> : i \in Images}
          \cup {Part(i, k) : i \in Images, k \in Nat}

LEMMA UnitKinds ==
  ASSUME NEW u \in Unit
  PROVE  /\ u[1] \in {"cmd", "noise", "len", "crc", "part"}
         /\ u[1] \in {"len", "crc"} => u[2] \in Images
         /\ u[1] # "cmd" => u \notin {Command[1], Command[2]}
BY DEF Unit, Command, Noise, Part

LEMMA CommandUnits == Command \in Seq(Unit) /\ Len(Command) <= 2
<1>1. Command[1] \in Unit /\ Command[2] \in Unit
  BY DEF Unit
<1>2. Command = <<Command[1], Command[2]>>
  BY DEF Command
<1> DEFINE c1 == Command[1]
           c2 == Command[2]
<1>3. c1 \in Unit /\ c2 \in Unit
  BY <1>1
<1> HIDE DEF c1, c2
<1>4. <<c1, c2>> \in Seq(Unit) /\ Len(<<c1, c2>>) <= 2
  BY <1>3
<1> QED BY <1>2, <1>4 DEF c1, c2

LEMMA Sizes ==
  /\ MaxSize \in Nat /\ MaxFaults \in Nat /\ ChunkUnits \in Nat /\ ChunkUnits > 0
  /\ \A i \in Images : Size[i] \in Nat /\ Size[i] > 0 /\ Size[i] <= MaxSize
BY SizeAssumption, UnitsAssumption

LEMMA ImageUnits ==
  ASSUME NEW i \in Images
  PROVE  Content(i) \in Seq(Unit) /\ Len(Content(i)) = Size[i]
<1>1. \A k \in 1 .. Size[i] : Part(i, k) \in Unit
  BY Sizes DEF Unit
<1> QED BY <1>1, Sizes DEF Content

SenderTypes ==
  /\ expect \in Ended \cup Waiting /\ img \in Images \cup {None}
  /\ expect \in Waiting => img \in Images
  /\ off \in 0 .. MaxSize + ChunkUnits - 1 /\ stalled \in BOOLEAN
  /\ overlap \in 0 .. 2
  /\ out \in Seq(Unit) /\ (Len(out) <= 2 \/ Len(out) <= ChunkUnits)

LinkTypes == wire \in Seq(Unit) /\ answers \in Seq(Lines) /\ faults \in 0 .. MaxFaults

DeviceTypes ==
  /\ dev \in {"line", "reply"} \cup Reading \cup Windows
  /\ line \in {"empty", "half", "dirty"}
  /\ len \in 0 .. MaxSize /\ content \in Seq(Unit) /\ Len(content) <= len
  /\ dev = "chunk" => Len(content) < len
  /\ dev = "mark" => \E i \in Images : content = Content(i)
  /\ marked \in Images \cup {None} /\ trial \in BOOLEAN

Types == SenderTypes /\ LinkTypes /\ DeviceTypes

LEMMA TypesInit == Init => Types
<1> SUFFICES ASSUME Init PROVE Types
  OBVIOUS
<1>1. /\ <<>> \in Seq(Unit) /\ <<>> \in Seq(Lines) /\ Len(<<>>) <= 0 /\ Len(<<>>) <= 2
      /\ 0 \in 0 .. 2
      /\ 0 \in 0 .. MaxSize /\ 0 \in 0 .. MaxSize + ChunkUnits - 1 /\ 0 \in 0 .. MaxFaults
  BY Sizes
<1>2. SenderTypes
  BY <1>1 DEF Init, SenderTypes, Ended, Waiting
<1>3. LinkTypes
  BY <1>1 DEF Init, LinkTypes
<1>4. DeviceTypes
  BY <1>1 DEF Init, DeviceTypes, Reading, Windows
<1> QED BY <1>2, <1>3, <1>4 DEF Types

\* What is written fits a chunk, and no offset passes the image by a chunk.
LEMMA ProceedTypes ==
  ASSUME SenderTypes, expect \in Waiting, Proceed
  PROVE  /\ expect' \in Waiting \cup {"done"}
         /\ off' \in 0 .. MaxSize + ChunkUnits - 1
         /\ \/ out' \in Seq(Unit) /\ (Len(out') <= 2 \/ Len(out') <= ChunkUnits)
            \/ out' = out
<1>1. img \in Images /\ off \in 0 .. MaxSize + ChunkUnits - 1 /\ off \in Nat
  BY Sizes DEF SenderTypes
<1>2. <<"len", img>> \in Unit /\ <<"crc", img>> \in Unit
  BY <1>1 DEF Unit
<1>3. << <<"len", img>> >> \in Seq(Unit) /\ << <<"crc", img>> >> \in Seq(Unit)
  BY <1>2
<1>4. Len(<< <<"len", img>> >>) <= 2 /\ Len(<< <<"crc", img>> >>) <= 2
  OBVIOUS
<1>5. CASE expect \in {"OK", "CRCOK", "FLASH"}
  BY <1>1, <1>3, <1>4, <1>5 DEF Proceed, Waiting
<1>7. CASE expect \in {"RECV", "ACK"} /\ IsLast(off)
  BY <1>1, <1>3, <1>4, <1>7 DEF Proceed, Waiting
<1>8. CASE expect \in {"RECV", "ACK"} /\ ~IsLast(off)
  <2>1. /\ out' = SubSeq(Content(img), off + 1, ChunkEnd(off))
        /\ off' = off + ChunkUnits /\ expect' = "ACK"
    BY <1>8 DEF Proceed
  <2>2. off < Size[img] /\ Size[img] \in Nat /\ Size[img] <= MaxSize
    BY <1>1, <1>8, Sizes DEF IsLast
  <2>3. ChunkEnd(off) \in off .. Size[img] /\ ChunkEnd(off) <= off + ChunkUnits
    BY <1>1, <2>2, Sizes DEF ChunkEnd
  <2>4. Content(img) \in Seq(Unit) /\ Len(Content(img)) = Size[img]
    BY <1>1, ImageUnits
  <2> DEFINE c == Content(img)
             e == ChunkEnd(off)
  <2>5. c \in Seq(Unit) /\ e \in off .. Len(c) /\ e <= off + ChunkUnits
    BY <2>3, <2>4
  <2> HIDE DEF c, e
  <2>6. SubSeq(c, off + 1, e) \in Seq(Unit) /\ Len(SubSeq(c, off + 1, e)) <= ChunkUnits
    BY <1>1, <2>5, Sizes
  <2> QED BY <1>1, <2>1, <2>2, <2>6, Sizes DEF Waiting, c, e
<1> QED BY <1>5, <1>7, <1>8 DEF Waiting

LEMMA FaultCounts == faults \in 0 .. MaxFaults /\ Fault => faults' \in 0 .. MaxFaults /\ faults' > 0
BY Sizes DEF Fault

LEMMA ReadTypes ==
  ASSUME Types, wire # <<>>
  PROVE  Head(wire) \in Unit /\ Tail(wire) \in Seq(Unit)
BY DEF Types, LinkTypes

LEMMA AnswerTypes ==
  ASSUME Types, NEW a \in Seq(Lines), Answer(a)
  PROVE  answers' \in Seq(Lines)
BY DEF Types, LinkTypes, Answer

LEMMA AnswerLines ==
  /\ <<"ERR">> \in Seq(Lines) /\ <<"OK">> \in Seq(Lines) /\ <<"RECV">> \in Seq(Lines)
  /\ <<"ACK">> \in Seq(Lines) /\ <<"CRCOK", "FLASH">> \in Seq(Lines)
BY DEF Lines, Waiting

LEMMA WindowTypes == Types /\ FlashWindow => wire' \in Seq(Unit)
BY OneOut DEF Types, LinkTypes, FlashWindow

\* What the sender and its user do.
LEMMA SenderSteps ==
  ASSUME Types, Start \/ Link \/ LoseUnit \/ LoseAnswer \/ Kill \/ Stall \/ Resume
  PROVE  Types'
<1> USE DEF Types
<1>1. UNCHANGED device => DeviceTypes'
  BY DEF DeviceTypes, device
<1>2. UNCHANGED sender => SenderTypes'
  BY DEF SenderTypes, sender
<1>3. CASE Start
  <2>1. Command \in Seq(Unit) /\ Len(Command) <= 2 /\ <<>> \in Seq(Lines) /\ 0 \in 0 .. MaxSize + ChunkUnits - 1
    BY Sizes, CommandUnits
  <2>2. SenderTypes'
    BY <1>3, <2>1 DEF Start, SenderTypes, Waiting
  <2>3. LinkTypes'
    BY <1>3, <2>1, FaultCounts DEF Start, LinkTypes
  <2> QED BY <1>1, <1>3, <2>2, <2>3 DEF Start
<1>4. CASE SendUnit
  <2>1. wire' \in Seq(Unit) /\ out' \in Seq(Unit) /\ Len(out') <= Len(out) /\ Len(out) \in Nat /\ Len(out') \in Nat
    BY <1>4, FlowSteps DEF SendUnit, SenderTypes, LinkTypes
  <2>2. Len(out') <= 2 \/ Len(out') <= ChunkUnits
    BY <2>1, Sizes DEF SenderTypes
  <2> QED BY <1>1, <1>4, <2>1, <2>2 DEF SendUnit, SenderTypes, LinkTypes
<1>5. CASE ReadLine
  <2>1. answers' \in Seq(Lines)
    BY <1>5 DEF ReadLine, LinkTypes
  <2>2. CASE Proceed
    <3>1. expect \in Waiting /\ img \in Images
      BY <1>5 DEF ReadLine, SenderTypes
    <3>2. /\ expect' \in Waiting \cup {"done"}
          /\ off' \in 0 .. MaxSize + ChunkUnits - 1
          /\ \/ out' \in Seq(Unit) /\ (Len(out') <= 2 \/ Len(out') <= ChunkUnits)
             \/ out' = out
      BY <2>2, <3>1, ProceedTypes
    <3>3. out' \in Seq(Unit) /\ (Len(out') <= 2 \/ Len(out') <= ChunkUnits)
      BY <3>2 DEF SenderTypes
    <3>4. UNCHANGED <<img, stalled, overlap, wire, faults>> /\ UNCHANGED device
      BY <1>5 DEF ReadLine
    <3>5. SenderTypes'
      BY <3>1, <3>2, <3>3, <3>4 DEF SenderTypes, Ended
    <3> QED BY <1>1, <2>1, <3>4, <3>5 DEF LinkTypes
  <2>3. CASE expect' \in {"failed", expect} /\ UNCHANGED <<off, out>>
    BY <1>1, <1>5, <2>1, <2>3 DEF ReadLine, SenderTypes, LinkTypes, Ended, Waiting
  <2> QED BY <1>5, <2>2, <2>3 DEF ReadLine
<1>6. CASE SenderTimeout
  BY <1>1, <1>6 DEF SenderTimeout, SenderTypes, LinkTypes, Ended, Waiting
<1>7. CASE LoseUnit
  <2>1. Head(wire) \in Unit /\ Tail(wire) \in Seq(Unit) /\ <<Noise>> \in Seq(Unit)
    BY <1>7, ReadTypes DEF LoseUnit, Unit
  <2>2. wire' \in Seq(Unit)
    BY <1>7, <2>1 DEF LoseUnit
  <2> QED BY <1>1, <1>2, <1>7, <2>2, FaultCounts DEF LoseUnit, LinkTypes
<1>8. CASE LoseAnswer
  BY <1>1, <1>2, <1>8, FaultCounts DEF LoseAnswer, LinkTypes
<1>9. CASE Kill
  <2>1. <<>> \in Seq(Unit) /\ Len(<<>>) <= 2
    OBVIOUS
  <2> QED BY <1>1, <1>9, <2>1, FaultCounts DEF Kill, SenderTypes, LinkTypes, Ended, Waiting
<1>10. CASE Stall \/ Resume
  BY <1>1, <1>10, FaultCounts DEF Stall, Resume, SenderTypes, LinkTypes
<1> QED BY <1>3, <1>4, <1>5, <1>6, <1>7, <1>8, <1>9, <1>10 DEF Link

\* The device reads a unit.
LEMMA ReadSteps ==
  ASSUME Types, ParseUnit \/ ReadLength \/ ReadChunk \/ ReadCrc
  PROVE  Types'
<1>1. Head(wire) \in Unit /\ wire' \in Seq(Unit) /\ UNCHANGED faults /\ UNCHANGED sender
  BY ReadTypes DEF ParseUnit, ReadLength, ReadChunk, ReadCrc
<1>2. SenderTypes'
  BY <1>1 DEF Types, SenderTypes, sender
<1> USE DEF Types
<1>3. CASE ParseUnit
  <2>1. answers' \in Seq(Lines)
    BY <1>3, AnswerTypes, AnswerLines DEF ParseUnit, LinkTypes
  <2>2. line' \in {"empty", "half", "dirty"} /\ dev' \in {dev, "length"}
    BY <1>3 DEF ParseUnit, AfterLine
  <2> QED BY <1>1, <1>2, <1>3, <2>1, <2>2 DEF ParseUnit, LinkTypes, DeviceTypes, Reading
<1>4. CASE ReadLength
  <2>1. PICK n \in LengthOf(Head(wire)) :
          IF n = 0 \/ trial
            THEN dev' = "line" /\ UNCHANGED len /\ Answer(<<"ERR">>)
            ELSE dev' = "chunk" /\ len' = n /\ Answer(<<"RECV">>)
    BY <1>4 DEF ReadLength
  <2>2. n \in 0 .. MaxSize
    <3>1. 0 \in 0 .. MaxSize /\ \A i \in Images : Size[i] \in 0 .. MaxSize
      BY Sizes
    <3>2. Head(wire)[1] = "len" =>
            Head(wire)[2] \in Images /\ Head(wire) \notin {Command[1], Command[2]}
      BY <1>1, UnitKinds
    <3>3. CASE Head(wire) \in {Command[1], Command[2]} /\ Head(wire)[1] # "len"
      BY <3>1, <3>3 DEF LengthOf
    <3>4. CASE Head(wire) \notin {Command[1], Command[2]} /\ Head(wire)[1] = "len"
      BY <3>1, <3>2, <3>4 DEF LengthOf
    <3>5. CASE Head(wire) \notin {Command[1], Command[2]} /\ Head(wire)[1] # "len"
      BY <3>5 DEF LengthOf
    <3> QED BY <3>2, <3>3, <3>4, <3>5
  <2>3. answers' \in Seq(Lines)
    BY <2>1, AnswerTypes, AnswerLines
  <2>4. content' = <<>> /\ <<>> \in Seq(Unit) /\ Len(<<>>) = 0
    BY <1>4 DEF ReadLength
  <2>5. len' \in 0 .. MaxSize /\ Len(<<>>) <= len' /\ dev' \in {"line", "chunk"}
        /\ (dev' = "chunk" => Len(<<>>) < len')
    BY <2>1, <2>2, <2>4, Sizes DEF DeviceTypes
  <2> QED BY <1>1, <1>2, <1>4, <2>3, <2>4, <2>5 DEF ReadLength, LinkTypes, DeviceTypes, Reading
<1>5. CASE ReadChunk
  <2>1. content' \in Seq(Unit) /\ Len(content') = Len(content) + 1 /\ Len(content) \in Nat
    BY <1>1, <1>5 DEF ReadChunk, DeviceTypes
  <2>2. Len(content') <= len /\ (dev' = "chunk" => Len(content') < len) /\ dev' \in {"chunk", "program"}
    BY <1>5, <2>1, Sizes DEF ReadChunk, DeviceTypes, ChunkDone
  <2> QED BY <1>1, <1>2, <1>5, <2>1, <2>2 DEF ReadChunk, LinkTypes, DeviceTypes, Reading, Windows
<1>6. CASE ReadCrc
  <2>1. answers' \in Seq(Lines)
    BY <1>6, AnswerTypes, AnswerLines DEF ReadCrc, LinkTypes
  <2>2. dev' \in {"mark", "line"} /\ (dev' = "mark" => \E i \in Images : content' = Content(i))
    BY <1>1, <1>6, UnitKinds DEF ReadCrc, Fits
  <2> QED BY <1>1, <1>2, <1>6, <2>1, <2>2 DEF ReadCrc, LinkTypes, DeviceTypes, Windows
<1> QED BY <1>3, <1>4, <1>5, <1>6

\* The device works on flash, answers or starts over.
LEMMA OtherSteps ==
  ASSUME Types, \/ ProgramChunk \/ MarkUpdate \/ Reply \/ DeviceTimeout \/ FirstTick
                \/ FlashFails \/ PowerCut
  PROVE  Types'
<1>1. SenderTypes'
  BY DEF Types, SenderTypes, sender, ProgramChunk, MarkUpdate, Reply, DeviceTimeout, FirstTick, FlashFails, PowerCut
<1> USE DEF Types
<1>2. ASSUME Restart PROVE DeviceTypes' <=> marked' \in Images \cup {None}
  <2>1. <<>> \in Seq(Unit) /\ Len(<<>>) <= 0 /\ 0 \in 0 .. MaxSize
    BY Sizes
  <2>2. trial' \in BOOLEAN
    BY <1>2 DEF Restart
  <2> QED BY <1>2, <2>1, <2>2 DEF Restart, DeviceTypes
<1>3. CASE ProgramChunk
  <2>1. answers' \in Seq(Lines) /\ wire' \in Seq(Unit)
    BY <1>3, AnswerTypes, AnswerLines, WindowTypes DEF ProgramChunk
  <2>2. dev' \in {"crc", "chunk"} /\ (dev' = "chunk" => Len(content) < len)
    BY <1>3 DEF ProgramChunk, DeviceTypes
  <2> QED BY <1>1, <1>3, <2>1, <2>2 DEF ProgramChunk, LinkTypes, DeviceTypes, Reading
<1>4. CASE MarkUpdate
  <2>1. wire' \in Seq(Unit)
    BY <1>4, WindowTypes DEF MarkUpdate
  <2>2. marked' \in Images
    BY <1>4 DEF MarkUpdate, DeviceTypes
  <2> QED BY <1>1, <1>4, <2>1, <2>2 DEF MarkUpdate, LinkTypes, DeviceTypes
<1>5. CASE Reply
  <2>1. answers' \in Seq(Lines) /\ wire' \in Seq(Unit)
    <3>1. Answer(<<"CRCOK", "FLASH">>) /\ wire' = <<>>
      BY <1>5 DEF Reply, Restart
    <3>2. <<"CRCOK", "FLASH">> \in Seq(Lines)
      BY AnswerLines
    <3>3. answers' \in Seq(Lines)
      BY <3>1, <3>2, AnswerTypes, Zenon
    <3> QED BY <3>1, <3>3
  <2> QED BY <1>1, <1>2, <1>5, <2>1 DEF Reply, LinkTypes, DeviceTypes
<1>6. CASE DeviceTimeout
  BY <1>1, <1>6, AnswerTypes, AnswerLines DEF DeviceTimeout, LinkTypes, DeviceTypes
<1>7. CASE FirstTick
  BY <1>1, <1>7, WindowTypes DEF FirstTick, LinkTypes, DeviceTypes
<1>8. CASE FlashFails
  <2>1. answers' \in Seq(Lines) /\ wire' \in Seq(Unit) /\ faults' \in 0 .. MaxFaults
    BY <1>8, AnswerTypes, AnswerLines, WindowTypes, FaultCounts DEF FlashFails, LinkTypes
  <2> QED BY <1>1, <1>8, <2>1 DEF FlashFails, LinkTypes, DeviceTypes
<1>9. CASE PowerCut
  <2>1. wire' \in Seq(Unit) /\ faults' \in 0 .. MaxFaults
    BY <1>9, FaultCounts DEF PowerCut, Restart, LinkTypes
  <2> QED BY <1>1, <1>2, <1>9, <2>1 DEF PowerCut, LinkTypes, DeviceTypes
<1> QED BY <1>3, <1>4, <1>5, <1>6, <1>7, <1>8, <1>9

LEMMA TypesNext == Types /\ [Next]_vars => Types'
<1> SUFFICES ASSUME Types, [Next]_vars PROVE Types'
  OBVIOUS
<1>1. CASE UNCHANGED vars
  BY <1>1 DEF vars, Types, SenderTypes, LinkTypes, DeviceTypes
<1> QED BY <1>1, SenderSteps, ReadSteps, OtherSteps DEF Next, Run

\* Whatever is lost, garbled or begun again, each side stays within its buffers, the
\* length the device was told and the image the script has opened.
THEOREM TypeCorrect == Spec => []TypeOK
<1>1. Types => TypeOK
  <2> SUFFICES ASSUME Types PROVE TypeOK
    OBVIOUS
  <2>1. \A n \in DOMAIN answers : answers[n] \in Lines
    BY DEF Types, LinkTypes
  <2> QED BY <2>1 DEF Types, SenderTypes, LinkTypes, DeviceTypes, TypeOK
<1> QED BY <1>1, TypesInit, TypesNext, PTL DEF Spec

-----------------------------------------------------------------------------
(* Lockstep                                                                *)

\* The units on their way or still to be written.
Flow == wire \o out

\* Where the chunks sent so far end.
Reach == IF off < Size[img] THEN off ELSE Size[img]

Idle ==
  /\ expect \in {"idle", "done"}
  /\ dev = "line" /\ line = "empty" /\ Flow = <<>> /\ answers = <<>>

Requesting ==
  /\ expect = "OK" /\ ~trial /\ off = 0
  /\ \/ dev = "line" /\ line = "empty" /\ Flow = Command /\ answers = <<>>
     \/ dev = "line" /\ line = "half" /\ Flow = <<Command[2]>> /\ answers = <<>>
     \/ dev = "length" /\ line = "empty" /\ Flow = <<>> /\ answers = <<"OK">>

Announcing ==
  /\ expect = "RECV" /\ ~trial /\ line = "empty" /\ off = 0
  /\ \/ dev = "length" /\ Flow = << <<"len", img>> >> /\ answers = <<>>
     \/ dev = "chunk" /\ Flow = <<>> /\ answers = <<"RECV">> /\ content = <<>> /\ len = Size[img]

\* The device has the first k units of the image, the next ones are under way.
Halves(k) ==
  /\ content = SubSeq(Content(img), 1, k)
  /\ Flow = SubSeq(Content(img), k + 1, Reach)

Sending ==
  /\ expect = "ACK" /\ ~trial /\ line = "empty" /\ len = Size[img]
  /\ off % ChunkUnits = 0 /\ off >= ChunkUnits
  /\ \E k \in 0 .. Reach :
       /\ Halves(k)
       /\ \/ dev = "chunk" /\ answers = <<>> /\ off - ChunkUnits <= k /\ k < Reach
          \/ dev = "program" /\ answers = <<>> /\ k = Reach
          \/ dev = (IF Reach = len THEN "crc" ELSE "chunk") /\ answers = <<"ACK">> /\ k = Reach

Checking ==
  /\ expect = "CRCOK" /\ line = "empty"
  /\ \/ /\ dev = "crc" /\ ~trial /\ Flow = << <<"crc", img>> >> /\ answers = <<>>
        /\ content = Content(img)
     \/ dev \in {"mark", "reply"} /\ Flow = <<>> /\ answers = <<>>
     \/ dev = "line" /\ Flow = <<>> /\ answers = <<"CRCOK", "FLASH">>

Finishing ==
  /\ expect = "FLASH"
  /\ dev = "line" /\ line = "empty" /\ Flow = <<>> /\ answers = <<"FLASH">>

Phases == Idle \/ Requesting \/ Announcing \/ Sending \/ Checking \/ Finishing
InStep == faults = 0 => ~stalled /\ Phases

IInv == Types /\ InStep

\* What Flow is when nothing is on the wire, or nothing is left to be written.
LEMMA FlowKinds ==
  ASSUME Types
  PROVE  /\ Flow = <<>> <=> wire = <<>> /\ out = <<>>
         /\ wire # <<>> => Head(Flow) = Head(wire) /\ Tail(Flow) = Tail(wire) \o out
         /\ wire = <<>> => Flow = out
<1>1. wire \in Seq(Unit) /\ out \in Seq(Unit)
  BY DEF Types, SenderTypes, LinkTypes
<1> QED BY <1>1, FlowSteps DEF Flow

\* What the phases depend on.
LEMMA SamePhase ==
  ASSUME Phases, Flow' = Flow, UNCHANGED <<expect, img, off, answers, dev, line, len, content, trial>>
  PROVE  Phases'
<1>1. Reach' = Reach
  BY DEF Reach
<1> HIDE DEF Flow, Reach
<1> QED BY <1>1 DEF Phases, Idle, Requesting, Announcing, Sending, Halves, Checking, Finishing

LEMMA SendUnitInStep ==
  ASSUME Types, Phases, SendUnit
  PROVE  Phases'
<1>1. Flow' = Flow
  BY FlowSteps DEF Types, SenderTypes, LinkTypes, SendUnit, Flow
<1> QED BY <1>1, SamePhase DEF SendUnit, device

LEMMA StartInStep ==
  ASSUME Types, Phases, Start, Ready
  PROVE  Phases'
<1>1. Idle
  BY DEF Start, Ended, Phases, Idle, Requesting, Announcing, Sending, Checking, Finishing
<1>2. wire' = <<>> /\ out' = Command /\ answers' = <<>> /\ expect' = "OK"
  BY <1>1, FlowKinds DEF Start, Idle
<1>3. Flow' = Command
  BY <1>2, CommandUnits, FlowSteps DEF Flow
<1>4. dev' = "line" /\ line' = "empty" /\ ~trial'
  BY <1>1 DEF Start, Ready, Quiet, Idle, device
<1>5. off' = 0
  BY DEF Start
<1> QED BY <1>2, <1>3, <1>4, <1>5 DEF Phases, Requesting

\* A side that waits has something to wait for: neither times out.
LEMMA NoTimeout ==
  ASSUME Types, Phases, ~stalled
  PROVE  ~SenderTimeout /\ ~DeviceTimeout
<1>1. expect \in Waiting => Flow # <<>> \/ answers # <<>> \/ dev \in {"program", "mark", "reply"}
  <2>1. CASE Requesting \/ Announcing
    BY <2>1 DEF Requesting, Announcing, Command
  <2>2. CASE Sending
    <3>1. PICK k \in 0 .. Reach :
            /\ Halves(k)
            /\ \/ dev = "chunk" /\ answers = <<>> /\ off - ChunkUnits <= k /\ k < Reach
               \/ dev = "program" /\ answers = <<>> /\ k = Reach
               \/ dev = (IF Reach = len THEN "crc" ELSE "chunk") /\ answers = <<"ACK">> /\ k = Reach
      BY <2>2 DEF Sending
    <3>2. CASE k < Reach
      <4>1. img \in Images /\ off \in Nat
        BY <2>2, Sizes DEF Types, SenderTypes, Sending, Waiting
      <4>2. Content(img) \in Seq(Unit) /\ Reach <= Len(Content(img)) /\ Reach \in Nat
        BY <4>1, ImageUnits, Sizes DEF Reach
      <4>3. SubSeq(Content(img), k + 1, Reach) # <<>>
        BY <3>2, <4>2, NextUnit
      <4> QED BY <3>1, <4>3 DEF Halves
    <3> QED BY <3>1, <3>2
  <2>3. CASE Checking \/ Finishing
    BY <2>3 DEF Checking, Finishing
  <2>4. CASE Idle
    BY <2>4 DEF Idle, Waiting
  <2> QED BY <2>1, <2>2, <2>3, <2>4 DEF Phases
<1>2. expect \in Waiting \/ dev = "line"
  BY DEF Phases, Idle, Requesting, Announcing, Sending, Checking, Finishing, Waiting
<1>3. expect \in Ended => dev = "line"
  BY DEF Ended, Phases, Idle, Requesting, Announcing, Sending, Checking, Finishing
<1> QED BY <1>1, <1>2, <1>3, FlowKinds DEF SenderTimeout, DeviceTimeout, Silent, Reading, Waiting, Ended

\* The command line arrives.
LEMMA ParseInStep ==
  ASSUME Types, Phases, ParseUnit
  PROVE  Phases'
<1>1. Flow # <<>> /\ dev = "line" /\ wire # <<>> /\ Head(Flow) = Head(wire)
  BY FlowKinds DEF ParseUnit
<1>2. Requesting /\ Flow \in {Command, <<Command[2]>>} /\ answers = <<>>
  BY <1>1 DEF Phases, Idle, Requesting, Announcing, Sending, Checking, Finishing
<1>3. Flow' = Tail(Flow) /\ UNCHANGED <<expect, img, off, trial>>
  BY <1>1, FlowKinds DEF ParseUnit, Flow, sender
<1>4. Head(Command) = Command[1] /\ Tail(Command) = <<Command[2]>> /\ Command[1] # Command[2]
  BY DEF Command
<1>5. Head(<<Command[2]>>) = Command[2] /\ Tail(<<Command[2]>>) = <<>>
  OBVIOUS
<1>6. CASE Flow = Command /\ line = "empty"
  BY <1>1, <1>2, <1>3, <1>4, <1>6 DEF ParseUnit, AfterLine, Requesting, Phases
<1>7. CASE Flow = <<Command[2]>> /\ line = "half"
  <2>1. dev' = "length" /\ line' = "empty" /\ answers' = <<>> \o <<"OK">>
    BY <1>1, <1>2, <1>5, <1>7 DEF ParseUnit, Answer
  <2>2. answers' = <<"OK">>
    BY <2>1
  <2> QED BY <1>2, <1>3, <1>5, <1>7, <2>1, <2>2 DEF Requesting, Phases
<1> QED BY <1>1, <1>2, <1>6, <1>7 DEF Requesting

\* The length arrives.
LEMMA LengthInStep ==
  ASSUME Types, Phases, ReadLength
  PROVE  Phases'
<1>1. Flow # <<>> /\ dev = "length" /\ wire # <<>> /\ Head(Flow) = Head(wire)
  BY FlowKinds DEF ReadLength
<1>2. Announcing /\ Flow = << <<"len", img>> >> /\ answers = <<>>
  BY <1>1 DEF Phases, Idle, Requesting, Announcing, Sending, Checking, Finishing
<1>3. Flow' = Tail(Flow) /\ UNCHANGED <<expect, img, off, trial, line>>
  BY <1>1, FlowKinds DEF ReadLength, Flow, sender
<1> DEFINE u == <<"len", img>>
<1>4. Head(<<u>>) = u /\ Tail(<<u>>) = <<>>
  OBVIOUS
<1>5. Head(wire) = u
  BY <1>1, <1>2, <1>4
<1>6. LengthOf(u) = {Size[img]} /\ Size[img] > 0 /\ Size[img] \in Nat
  <2>1. img \in Images
    BY <1>2 DEF Types, SenderTypes, Announcing, Waiting
  <2>2. u \in Unit /\ u[1] = "len" /\ u[2] = img
    BY <2>1 DEF Unit
  <2>3. u \notin {Command[1], Command[2]}
    BY <2>2, UnitKinds
  <2> HIDE DEF u
  <2>4. LengthOf(u) = {Size[u[2]]}
    BY <2>2, <2>3 DEF LengthOf
  <2> QED BY <2>1, <2>2, <2>4, Sizes
<1>7. dev' = "chunk" /\ len' = Size[img] /\ answers' = <<>> \o <<"RECV">> /\ content' = <<>>
  <2>1. content' = <<>> /\ ~trial
    BY <1>2 DEF ReadLength, Announcing
  <2> HIDE DEF u
  <2>2. PICK n \in LengthOf(u) :
          IF n = 0 \/ trial
            THEN dev' = "line" /\ UNCHANGED len /\ Answer(<<"ERR">>)
            ELSE dev' = "chunk" /\ len' = n /\ Answer(<<"RECV">>)
    BY <1>5 DEF ReadLength
  <2>3. n = Size[img] /\ n # 0
    BY <1>6, <2>2
  <2> QED BY <1>2, <2>1, <2>2, <2>3 DEF Answer
<1>8. answers' = <<"RECV">> /\ Flow' = <<>>
  BY <1>2, <1>3, <1>4, <1>7
<1> QED BY <1>2, <1>3, <1>7, <1>8 DEF Phases, Announcing

\* A half of a chunk arrives: the device counts as the script does.
LEMMA ChunkInStep ==
  ASSUME Types, Phases, ReadChunk
  PROVE  Phases'
<1>1. Flow # <<>> /\ dev = "chunk" /\ wire # <<>> /\ Head(Flow) = Head(wire)
  BY FlowKinds DEF ReadChunk
<1>2. Sending
  BY <1>1 DEF Phases, Idle, Requesting, Announcing, Sending, Checking, Finishing
<1>3. /\ Flow' = Tail(Flow) /\ UNCHANGED <<expect, img, off, trial, line, len, answers>>
      /\ content' = Append(content, Head(Flow))
      /\ dev' = IF ChunkDone(content') THEN "program" ELSE "chunk"
  BY <1>1, FlowKinds DEF ReadChunk, Flow, sender
<1>4. /\ img \in Images /\ off \in Nat /\ Size[img] \in Nat /\ ChunkUnits \in Nat \ {0}
      /\ len = Size[img] /\ off % ChunkUnits = 0 /\ off >= ChunkUnits
  BY <1>2, Sizes DEF Types, SenderTypes, Sending, Waiting
<1> DEFINE c == Content(img)
<1>5. c \in Seq(Unit) /\ Len(c) = Size[img] /\ Reach \in Nat /\ Reach <= Len(c) /\ Reach \in {off, len}
      /\ Reach <= off /\ Reach <= len
  BY <1>4, ImageUnits DEF Reach
<1>6. PICK k \in 0 .. Reach :
        /\ content = SubSeq(c, 1, k) /\ Flow = SubSeq(c, k + 1, Reach)
        /\ \/ answers = <<>> /\ off - ChunkUnits <= k /\ k < Reach
           \/ k = Reach
  BY <1>1, <1>2 DEF Sending, Halves
<1>7. k < Reach /\ off - ChunkUnits <= k /\ answers = <<>>
  <2>1. CASE k = Reach
    <3> HIDE DEF c
    <3>1. Reach \in 0 .. Len(c)
      BY <1>5
    <3>2. SubSeq(c, Reach + 1, Reach) = <<>>
      BY <1>5, <3>1, Stretch
    <3> QED BY <1>1, <1>6, <2>1, <3>2
  <2> QED BY <1>6, <2>1
<1> HIDE DEF c
<1>15. off \in Nat /\ ChunkUnits \in Nat /\ Reach \in Nat /\ Reach <= off /\ k \in Nat
  <2>1. off \in Nat /\ ChunkUnits \in Nat
    BY <1>4
  <2>2. Reach \in Nat /\ Reach <= off /\ k \in Nat
    BY <1>5
  <2> QED BY <2>1, <2>2
<1>8. content' = SubSeq(c, 1, k + 1) /\ Flow' = SubSeq(c, k + 2, Reach)
  <2>1. k \in Nat /\ k < Reach /\ Reach <= Len(c)
    BY <1>5, <1>7
  <2>2. /\ Head(SubSeq(c, k + 1, Reach)) = c[k + 1]
        /\ Tail(SubSeq(c, k + 1, Reach)) = SubSeq(c, k + 2, Reach)
        /\ Append(SubSeq(c, 1, k), c[k + 1]) = SubSeq(c, 1, k + 1)
    BY <1>5, <2>1, NextUnit
  <2> QED BY <1>3, <1>6, <2>2
<1>9. Len(content') = k + 1 /\ k + 1 \in 0 .. Reach
  BY <1>5, <1>7, <1>8, Stretch
<1>10. ChunkDone(content') <=> k + 1 = Reach
  <2>1. CASE k + 1 = Reach
    BY <1>3, <1>4, <1>5, <1>9, <2>1 DEF ChunkDone
  <2>2. CASE k + 1 < Reach
    <3>1. (k + 1) % ChunkUnits # 0
      <4>1. k + 1 \in Nat /\ k + 1 < off /\ ~(k + 1 + ChunkUnits <= off)
        BY <1>7, <1>15, <2>2
      <4> QED BY <1>4, <4>1, Multiples
    <3> QED BY <1>3, <1>5, <1>9, <2>2, <3>1 DEF ChunkDone
  <2>3. k + 1 = Reach \/ k + 1 < Reach
    BY <1>7, <1>15
  <2> QED BY <2>1, <2>2, <2>3
<1>11. Reach' = Reach /\ Content(img)' = c
  BY <1>3 DEF Reach, c, Content
<1>12. dev' = IF k + 1 = Reach THEN "program" ELSE "chunk"
  BY <1>3, <1>10
<1>13. /\ content' = SubSeq(Content(img)', 1, k + 1) /\ Flow' = SubSeq(Content(img)', (k + 1) + 1, Reach')
       /\ \/ dev' = "chunk" /\ answers' = <<>> /\ off' - ChunkUnits <= k + 1 /\ k + 1 < Reach'
          \/ dev' = "program" /\ answers' = <<>> /\ k + 1 = Reach'
  <2>1. k + 2 = (k + 1) + 1 /\ off - ChunkUnits <= k + 1
    BY <1>7, <1>15
  <2> HIDE DEF Flow
  <2>2. k + 1 = Reach \/ k + 1 < Reach
    BY <1>7, <1>15
  <2>3. content' = SubSeq(Content(img)', 1, k + 1) /\ Flow' = SubSeq(Content(img)', (k + 1) + 1, Reach')
    BY <1>8, <1>11, <2>1
  <2>4. off' = off /\ answers' = <<>>
    BY <1>3, <1>7
  <2> QED BY <1>11, <1>12, <2>1, <2>2, <2>3, <2>4
<1>14. Sending'
  <2> HIDE DEF Flow, Reach
  <2>1. expect' = "ACK" /\ ~trial' /\ line' = "empty" /\ len' = Size[img'] /\ off' % ChunkUnits = 0 /\ off' >= ChunkUnits
    BY <1>2, <1>3, <1>4 DEF Sending
  <2>2. k + 1 \in 0 .. Reach'
    BY <1>9, <1>11
  <2> QED BY <1>13, <2>1, <2>2 DEF Sending, Halves
<1> QED BY <1>14 DEF Phases

\* The chunk is written and acknowledged; nothing was under way meanwhile.
LEMMA ProgramInStep ==
  ASSUME Types, Phases, ProgramChunk
  PROVE  Phases'
<1>1. Sending /\ dev = "program"
  BY DEF ProgramChunk, Phases, Idle, Requesting, Announcing, Sending, Checking, Finishing
<1>2. img \in Images /\ off \in Nat /\ Size[img] \in Nat /\ len = Size[img]
  BY <1>1, Sizes DEF Types, SenderTypes, Sending, Waiting
<1> DEFINE c == Content(img)
<1>3. c \in Seq(Unit) /\ Len(c) = Size[img] /\ Reach \in 0 .. Len(c)
  BY <1>2, ImageUnits DEF Reach
<1>4. /\ content = SubSeq(c, 1, Reach) /\ Flow = SubSeq(c, Reach + 1, Reach) /\ answers = <<>>
  BY <1>1 DEF Sending, Halves
<1>5. Flow = <<>> /\ Len(content) = Reach
  <2> HIDE DEF c
  <2> QED BY <1>3, <1>4, Stretch
<1>6. wire = <<>> /\ out = <<>>
  BY <1>5, FlowKinds
<1>7. wire' = wire
  BY <1>6 DEF ProgramChunk, FlashWindow
<1>8. UNCHANGED <<expect, img, off, out, line, len, content, trial>>
  BY DEF ProgramChunk, sender
<1>9. Flow' = Flow /\ Reach' = Reach /\ Content(img)' = c
  BY <1>7, <1>8 DEF Flow, Reach, Content
<1>10. answers' = <<"ACK">> /\ dev' = IF Reach = len THEN "crc" ELSE "chunk"
  <2>1. answers' = <<>> \o <<"ACK">>
    BY <1>4 DEF ProgramChunk, Answer
  <2> QED BY <1>5, <2>1 DEF ProgramChunk
<1>11. Sending'
  <2> HIDE DEF Flow, Reach, c
  <2>1. Halves(Reach)'
    BY <1>4, <1>8, <1>9 DEF Halves
  <2>2. Reach' \in 0 .. Reach'
    BY <1>3, <1>9
  <2> QED BY <1>1, <1>8, <1>9, <1>10, <2>1, <2>2 DEF Sending
<1> QED BY <1>11 DEF Phases

\* The CRC arrives, and fits.
LEMMA CrcInStep ==
  ASSUME Types, Phases, ReadCrc
  PROVE  Phases'
<1>1. Flow # <<>> /\ dev = "crc" /\ wire # <<>> /\ Head(Flow) = Head(wire)
  BY FlowKinds DEF ReadCrc
<1>2. Checking /\ Flow = << <<"crc", img>> >> /\ answers = <<>> /\ content = Content(img)
  <2>1. CASE Checking
    BY <1>1, <2>1 DEF Checking
  <2>2. CASE Sending
    <3>1. img \in Images /\ off \in Nat /\ Size[img] \in Nat
      BY <2>2, Sizes DEF Types, SenderTypes, Sending, Waiting
    <3> DEFINE c == Content(img)
    <3>2. c \in Seq(Unit) /\ Reach \in 0 .. Len(c)
      BY <3>1, ImageUnits DEF Reach
    <3>3. Flow = SubSeq(c, Reach + 1, Reach)
      BY <1>1, <2>2 DEF Sending, Halves
    <3> HIDE DEF c
    <3>4. Flow = <<>>
      BY <3>2, <3>3, Stretch
    <3> QED BY <1>1, <3>4
  <2> QED BY <1>1, <2>1, <2>2 DEF Phases, Idle, Requesting, Announcing, Finishing
<1>3. Flow' = Tail(Flow) /\ UNCHANGED <<expect, line>>
  BY <1>1, FlowKinds DEF ReadCrc, Flow, sender
<1> DEFINE u == <<"crc", img>>
<1>4. Head(<<u>>) = u /\ Tail(<<u>>) = <<>>
  OBVIOUS
<1>5. Fits(Head(wire))
  <2>1. Head(wire) = u /\ u[1] = "crc" /\ u[2] = img
    BY <1>1, <1>2, <1>4
  <2> QED BY <1>2, <2>1 DEF Fits
<1>6. dev' = "mark" /\ answers' = <<>> /\ Flow' = <<>>
  BY <1>2, <1>3, <1>4, <1>5 DEF ReadCrc
<1> QED BY <1>2, <1>3, <1>6 DEF Phases, Checking

\* The mark, the last answers, the reset and the confirmation of the new firmware.
LEMMA EndInStep ==
  ASSUME Types, Phases, MarkUpdate \/ Reply \/ FirstTick
  PROVE  Phases'
<1>1. CASE MarkUpdate \/ Reply
  <2>1. Checking /\ Flow = <<>> /\ answers = <<>>
    BY <1>1 DEF MarkUpdate, Reply, Phases, Idle, Requesting, Announcing, Sending, Checking, Finishing
  <2>2. wire = <<>> /\ out = <<>>
    BY <2>1, FlowKinds
  <2>3. wire' = <<>> /\ out' = <<>>
    BY <1>1, <2>2 DEF MarkUpdate, Reply, Restart, FlashWindow, sender
  <2>4. Flow' = <<>>
    BY <2>3 DEF Flow
  <2> HIDE DEF Flow
  <2>5. CASE MarkUpdate
    BY <2>1, <2>4, <2>5 DEF MarkUpdate, Phases, Checking, sender
  <2>6. CASE Reply
    <3>1. answers' = <<>> \o <<"CRCOK", "FLASH">>
      BY <2>1, <2>6 DEF Reply, Answer
    <3>2. answers' = <<"CRCOK", "FLASH">>
      BY <3>1
    <3> QED BY <2>1, <2>4, <2>6, <3>2 DEF Reply, Restart, Phases, Checking, sender
  <2> QED BY <1>1, <2>5, <2>6
<1>2. CASE FirstTick
  <2>1. Idle \/ Checking \/ Finishing
    BY <1>2 DEF FirstTick, Phases, Idle, Requesting, Announcing, Sending, Checking, Finishing
  <2>2. Flow = <<>>
    BY <1>2, <2>1 DEF FirstTick, Idle, Checking, Finishing
  <2>3. wire = <<>> /\ out = <<>>
    BY <2>2, FlowKinds
  <2>4. wire' = wire /\ out' = out
    BY <1>2, <2>3 DEF FirstTick, FlashWindow, sender
  <2>5. Flow' = Flow
    BY <2>4 DEF Flow
  <2> HIDE DEF Flow
  <2> QED BY <1>2, <2>1, <2>2, <2>5 DEF FirstTick, Phases, Idle, Checking, Finishing, sender
<1> QED BY <1>1, <1>2

\* The script sends a chunk: the first, or the next behind the last one's end.
LEMMA SendChunk ==
  ASSUME Types, img \in Images, off \in Nat, off < Size[img], off % ChunkUnits = 0, out = <<>>, wire = <<>>,
         ~trial, line = "empty", dev = "chunk", len = Size[img], content = SubSeq(Content(img), 1, off),
         UNCHANGED <<img, wire, dev, line, len, content, trial>>, answers' = <<>>,
         expect' = "ACK", out' = SubSeq(Content(img), off + 1, ChunkEnd(off)), off' = off + ChunkUnits
  PROVE  Sending'
<1> DEFINE c == Content(img)
<1>1. Size[img] \in Nat /\ ChunkUnits \in Nat \ {0} /\ Len(c) = Size[img] /\ c \in Seq(Unit)
  BY Sizes, ImageUnits
<1>2. Reach' = ChunkEnd(off) /\ c' = c
  BY DEF Reach, ChunkEnd, Content
<1>3. ChunkEnd(off) \in Nat /\ off < ChunkEnd(off) /\ ChunkEnd(off) <= Len(c)
  BY <1>1 DEF ChunkEnd
<1>4. Flow' = SubSeq(c, off + 1, Reach')
  <2>1. out' \in Seq(Unit)
    <3> DEFINE e == ChunkEnd(off)
           m == off + 1
    <3>1. out' = SubSeq(c, m, e)
      OBVIOUS
    <3>2. m \in Nat /\ m > 0 /\ e \in Nat /\ e <= Len(c)
      BY <1>3
    <3>3. c \in Seq(Unit)
      BY <1>1
    <3> HIDE DEF c, e, m
    <3>4. SubSeq(c, m, e) \in Seq(Unit)
      BY <3>2, <3>3
    <3> QED BY <3>1, <3>4
  <2>2. <<>> \o out' = out'
    BY <2>1
  <2> QED BY <1>2, <2>2 DEF Flow
<1>5. content' = SubSeq(Content(img)', 1, off) /\ Flow' = SubSeq(Content(img)', off + 1, Reach')
  BY <1>2, <1>4
<1>6. off \in 0 .. Reach' /\ off < Reach' /\ off' - ChunkUnits <= off /\ off' >= ChunkUnits
  BY <1>1, <1>2, <1>3
<1>7. off' % ChunkUnits = 0
  BY <1>1, NextMultiple
<1> HIDE DEF c, Flow, Reach
<1>8. expect' = "ACK" /\ ~trial' /\ line' = "empty" /\ len' = Size[img'] /\ dev' = "chunk"
  OBVIOUS
<1> QED BY <1>5, <1>6, <1>7, <1>8 DEF Sending, Halves

\* The script reads the answer it waits for and goes on.
LEMMA ReadInStep ==
  ASSUME Types, Phases, ReadLine
  PROVE  Phases'
<1>1. /\ out = <<>> /\ answers # <<>> /\ expect \in Waiting
      /\ answers' = Tail(answers) /\ UNCHANGED <<img, wire, dev, line, len, content, trial>>
      /\ Head(answers) = expect => Proceed
  BY DEF ReadLine, device, Matches
<1>2. img \in Images /\ off \in Nat /\ Size[img] \in Nat /\ Size[img] > 0 /\ ChunkUnits \in Nat \ {0}
  BY <1>1, Sizes DEF Types, SenderTypes
<1>3. Content(img) \in Seq(Unit) /\ Len(Content(img)) = Size[img]
  BY <1>2, ImageUnits
<1>4. CASE Requesting
  <2>1. /\ answers = <<"OK">> /\ dev = "length" /\ line = "empty" /\ Flow = <<>> /\ expect = "OK"
        /\ ~trial /\ off = 0
    BY <1>1, <1>4 DEF Requesting
  <2>2. wire = <<>> /\ Proceed /\ answers' = <<>>
    BY <1>1, <2>1, FlowKinds
  <2>3. out' = << <<"len", img>> >> /\ expect' = "RECV" /\ off' = off
    BY <2>1, <2>2 DEF Proceed
  <2>4. Flow' = << <<"len", img>> >>
    BY <1>1, <2>2, <2>3 DEF Flow
  <2> HIDE DEF Flow
  <2> QED BY <1>1, <2>1, <2>2, <2>3, <2>4 DEF Phases, Announcing
<1>5. CASE Announcing
  <2>1. /\ answers = <<"RECV">> /\ dev = "chunk" /\ line = "empty" /\ Flow = <<>> /\ expect = "RECV"
        /\ ~trial /\ off = 0 /\ content = <<>> /\ len = Size[img]
    BY <1>1, <1>5 DEF Announcing
  <2>2. wire = <<>> /\ Proceed /\ answers' = <<>>
    BY <1>1, <2>1, FlowKinds
  <2>3. /\ out' = SubSeq(Content(img), off + 1, ChunkEnd(off)) /\ expect' = "ACK"
        /\ off' = off + ChunkUnits
    BY <1>2, <2>1, <2>2 DEF Proceed, IsLast
  <2>4. off % ChunkUnits = 0 /\ content = SubSeq(Content(img), 1, off) /\ off < Size[img]
    <3>1. 0 % ChunkUnits = 0
      BY <1>2, NextMultiple
    <3>2. SubSeq(Content(img), 1, 0) = <<>>
      OBVIOUS
    <3> QED BY <1>2, <2>1, <3>1, <3>2
  <2>5. Sending'
    BY <1>1, <1>2, <2>1, <2>2, <2>3, <2>4, SendChunk
  <2> QED BY <2>5 DEF Phases
<1>6. CASE Sending
  <2>1. /\ answers = <<"ACK">> /\ Halves(Reach) /\ dev = IF Reach = len THEN "crc" ELSE "chunk"
        /\ line = "empty" /\ expect = "ACK" /\ ~trial /\ len = Size[img] /\ off % ChunkUnits = 0
    BY <1>1, <1>6 DEF Sending
  <2> DEFINE c == Content(img)
  <2>2. Reach \in 0 .. Len(c) /\ c \in Seq(Unit)
    BY <1>2, <1>3 DEF Reach
  <2>3. Flow = SubSeq(c, Reach + 1, Reach) /\ content = SubSeq(c, 1, Reach)
    BY <2>1 DEF Halves
  <2>4. Flow = <<>>
    <3> HIDE DEF c, Flow
    <3> QED BY <2>2, <2>3, Stretch
  <2>5. wire = <<>> /\ Proceed /\ answers' = <<>>
    BY <1>1, <2>1, <2>4, FlowKinds
  <2>6. CASE IsLast(off)
    <3>1. Reach = Size[img] /\ dev = "crc"
      BY <1>2, <2>1, <2>6 DEF IsLast, Reach
    <3>2. content = c
      <4>1. SubSeq(c, 1, Len(c)) = c
        BY <1>3
      <4> QED BY <1>3, <2>3, <3>1, <4>1
    <3>3. out' = << <<"crc", img>> >> /\ expect' = "CRCOK"
      BY <2>1, <2>5, <2>6 DEF Proceed
    <3>4. Flow' = << <<"crc", img>> >>
      BY <1>1, <2>5, <3>3 DEF Flow
    <3>5. content' = Content(img)'
      BY <1>1, <3>2 DEF Content
    <3> HIDE DEF Flow, c
    <3> QED BY <1>1, <2>1, <2>5, <3>1, <3>3, <3>4, <3>5 DEF Phases, Checking
  <2>7. CASE ~IsLast(off)
    <3>1. off < Size[img] /\ Reach = off
      BY <1>2, <2>7 DEF IsLast, Reach
    <3>2. dev = "chunk" /\ content = SubSeq(Content(img), 1, off)
      BY <1>2, <2>1, <2>3, <3>1
    <3>3. /\ out' = SubSeq(Content(img), off + 1, ChunkEnd(off)) /\ expect' = "ACK"
          /\ off' = off + ChunkUnits
      BY <2>1, <2>5, <2>7 DEF Proceed
    <3>4. Sending'
      BY <1>1, <1>2, <2>1, <2>5, <3>1, <3>2, <3>3, SendChunk
    <3> QED BY <3>4 DEF Phases
  <2> QED BY <2>6, <2>7
<1>7. CASE Checking \/ Finishing
  <2>1. /\ dev = "line" /\ line = "empty" /\ Flow = <<>>
        /\ \/ expect = "CRCOK" /\ answers = <<"CRCOK", "FLASH">>
           \/ expect = "FLASH" /\ answers = <<"FLASH">>
    BY <1>1, <1>7 DEF Checking, Finishing
  <2>2. Proceed
    BY <1>1, <2>1
  <2>3. /\ out' = out
        /\ \/ expect' = "FLASH" /\ answers' = <<"FLASH">>
           \/ expect' = "done" /\ answers' = <<>>
    <3>1. Tail(<<"CRCOK", "FLASH">>) = <<"FLASH">> /\ Tail(<<"FLASH">>) = <<>>
      OBVIOUS
    <3> QED BY <1>1, <2>1, <2>2, <3>1 DEF Proceed
  <2>4. Flow' = Flow
    BY <1>1, <2>3 DEF Flow
  <2> HIDE DEF Flow
  <2> QED BY <1>1, <2>1, <2>3, <2>4 DEF Phases, Idle, Finishing
<1>8. CASE Idle
  BY <1>1, <1>8 DEF Idle, Waiting
<1> QED BY <1>4, <1>5, <1>6, <1>7, <1>8 DEF Phases

LEMMA InStepInit == Init => InStep
<1> SUFFICES ASSUME Init PROVE ~stalled /\ Idle
  BY DEF InStep, Phases
<1>1. <<>> \o <<>> = <<>>
  OBVIOUS
<1> QED BY <1>1 DEF Init, Idle, Flow

LEMMA InStepNext == IInv /\ [Next]_vars => InStep'
<1> SUFFICES ASSUME IInv, [Next]_vars, faults' = 0 PROVE ~stalled' /\ Phases'
  BY DEF InStep
<1>1. faults = 0 /\ ~Fault
  BY DEF Fault, IInv, Types, LinkTypes, Next, vars, Start, Link, SendUnit, ReadLine, SenderTimeout,
         Run, ParseUnit, ReadLength, ReadChunk, ProgramChunk, ReadCrc, MarkUpdate, Reply, DeviceTimeout,
         FirstTick, LoseUnit, LoseAnswer, Kill, Stall, Resume, FlashFails, PowerCut
<1>2. Types /\ ~stalled /\ Phases
  BY <1>1 DEF IInv, InStep
<1>3. CASE UNCHANGED vars
  <2>1. Flow' = Flow
    BY <1>3 DEF vars, Flow
  <2> QED BY <1>2, <1>3, <2>1, SamePhase DEF vars
<1>4. CASE Start
  <2>1. Ready /\ ~stalled'
    BY <1>1, <1>2, <1>4 DEF Start
  <2> QED BY <1>2, <1>4, <2>1, StartInStep
<1>5. CASE Link
  BY <1>2, <1>5, SendUnitInStep, ReadInStep, NoTimeout DEF Link, SendUnit, ReadLine
<1>6. CASE Run \/ FirstTick
  <2>1. ~stalled'
    BY <1>2, <1>6 DEF Run, FirstTick, sender, ParseUnit, ReadLength, ReadChunk, ProgramChunk, ReadCrc, MarkUpdate, Reply
  <2> QED BY <1>2, <1>6, <2>1, ParseInStep, LengthInStep, ChunkInStep, ProgramInStep, CrcInStep, EndInStep DEF Run
<1>7. CASE DeviceTimeout \/ Resume
  BY <1>2, <1>7, NoTimeout DEF Resume
<1>8. CASE LoseUnit \/ LoseAnswer \/ Kill \/ Stall \/ FlashFails \/ PowerCut
  BY <1>1, <1>8 DEF LoseUnit, LoseAnswer, Kill, Stall, FlashFails, PowerCut
<1> QED BY <1>3, <1>4, <1>5, <1>6, <1>7, <1>8 DEF Next

LEMMA Invariance == Spec => []IInv
<1>1. Init => IInv
  BY TypesInit, InStepInit DEF IInv
<1>2. IInv /\ [Next]_vars => IInv'
  BY TypesNext, InStepNext DEF IInv
<1> QED BY <1>1, <1>2, PTL DEF Spec

\* As long as nothing goes wrong, no byte is under way to a device whose interrupts
\* are masked, whatever the sizes of images, chunks and buffers (fw_update.rs:108-110).
THEOREM NothingInTheWindow == Spec => []FlowControl
<1>1. IInv => FlowControl
  <2> SUFFICES ASSUME IInv, faults = 0, dev \in Windows PROVE wire = <<>> /\ out = <<>>
    BY DEF FlowControl
  <2>1. Types /\ Phases
    BY DEF IInv, InStep
  <2>2. CASE Sending
    <3>1. /\ content = SubSeq(Content(img), 1, Reach) /\ Flow = SubSeq(Content(img), Reach + 1, Reach)
      BY <2>2 DEF Sending, Halves, Windows
    <3>2. img \in Images /\ off \in Nat /\ Size[img] \in Nat
      BY <2>1, <2>2, Sizes DEF Types, SenderTypes, Sending, Waiting
    <3>3. Content(img) \in Seq(Unit) /\ Reach \in 0 .. Len(Content(img))
      BY <3>2, ImageUnits DEF Reach
    <3> DEFINE c == Content(img)
    <3> HIDE DEF c
    <3>4. Flow = <<>>
      BY <3>1, <3>3, Stretch
    <3> QED BY <2>1, <3>4, FlowKinds
  <2>3. CASE ~Sending
    <3>1. Flow = <<>>
      BY <2>1, <2>3 DEF Windows, Phases, Idle, Requesting, Announcing, Checking, Finishing
    <3> QED BY <2>1, <3>1, FlowKinds
  <2> QED BY <2>2, <2>3
<1> QED BY <1>1, Invariance, PTL

\* Undisturbed, no run of the script ever fails, the first or a later one: both sides
\* count the same chunks and each answer meets the wait for it (uart-fw-update.sh:58-76).
THEOREM UndisturbedRunsSucceed == Spec => []FirstTrySucceeds
<1>1. IInv => FirstTrySucceeds
  <2> SUFFICES ASSUME IInv, expect = "failed" PROVE faults > 0
    BY DEF FirstTrySucceeds
  <2>1. faults \in Nat
    BY Sizes DEF IInv, Types, LinkTypes
  <2>2. ~Phases
    BY DEF Phases, Idle, Requesting, Announcing, Sending, Checking, Finishing
  <2> QED BY <2>1, <2>2 DEF IInv, InStep
<1> QED BY <1>1, Invariance, PTL

-----------------------------------------------------------------------------
(* Answers and the runs they belong to                                     *)

\* The end of a command is under way in s, and nothing behind it.
Opens(s) == \E n \in DOMAIN s : s[n] = Command[2]
EndsIt(s) == \A n \in DOMAIN s : s[n] = Command[2] => n = Len(s)

\* A CRC of another image than i, and one that no session can still reach.
Foreign(u, i) == u[1] = "crc" /\ u[2] # i
Holds(s, i) == \E n \in DOMAIN s : Foreign(s[n], i)
Sealed(s, i) == \A m, n \in DOMAIN s : m < n /\ Foreign(s[n], i) => s[m] # Command[2]

\* The device may still mark another image than the one being sent.
Stale == Holds(wire, img) \/ (dev \in {"mark", "reply"} /\ content # Content(img))

NoAnswer(S) == \A n \in DOMAIN answers : answers[n] \notin S

\* A run that had the device to itself: only its own command, once and at its
\* beginning, can start a session.
Opening ==
  /\ EndsIt(wire) /\ EndsIt(out)
  /\ Opens(wire) => out = <<>>
  /\ Opens(wire) \/ Opens(out) =>
       dev = "line" /\ expect \in {"OK", "idle", "failed"} /\ NoAnswer({"OK", "CRCOK"})

\* While the image of the run before may still be marked, no session begins and this
\* run hears nothing it takes for an answer.
Deaf ==
  Stale => /\ expect \in {"OK", "idle", "failed"} /\ NoAnswer({"OK", "CRCOK", "FLASH"})
           /\ Sealed(wire, img)

\* The n-th answer is read before the run gets to wait for FLASH: the CRCOK that comes
\* with it is all the run can take for an OK.
TooEarly(n) ==
  \/ expect \in {"idle", "failed"}
  \/ /\ expect = "OK"
     /\ \A m \in DOMAIN answers :
          m < n => answers[m] # "OK" /\ (answers[m] = "CRCOK" => m = n - 1)
  \/ expect = "RECV" /\ n = 1

Concluding ==
  marked # img =>
    expect # "done" /\ \A n \in DOMAIN answers : answers[n] = "FLASH" => TooEarly(n)

AnswersInv ==
  /\ ~Holds(out, img)
  /\ overlap = 0 => ~Stale /\ Opening
  /\ Deaf
  /\ Concluding
  /\ dev = "reply" => marked \in Images /\ content = Content(marked)

RunsInv == Types /\ (overlap < 2 => AnswersInv)

\* What is left of w when units were read, lost or garbled.
Thinned(v, w) ==
  \E f \in [DOMAIN v -> DOMAIN w] :
    /\ \A m, n \in DOMAIN v : m < n => f[m] < f[n]
    /\ \A n \in DOMAIN v : v[n] \in {w[f[n]], Noise}

\* Neither a garbled unit nor the end of a command is a CRC.
LEMMA NoiseIsNothing ==
  /\ Noise # Command[2] /\ Command[2][1] # "crc"
  /\ \A i : ~Foreign(Noise, i) /\ ~Foreign(Command[2], i)
BY DEF Noise, Command, Foreign

\* The places of a joined sequence.
LEMMA Joined ==
  ASSUME NEW S, NEW s \in Seq(S), NEW t \in Seq(S)
  PROVE  /\ s \o t \in Seq(S) /\ DOMAIN (s \o t) = 1 .. Len(s) + Len(t)
         /\ Len(s) \in Nat /\ Len(t) \in Nat
         /\ \A n \in 1 .. Len(s) : (s \o t)[n] = s[n]
         /\ \A n \in 1 .. Len(s) + Len(t) : n > Len(s) => 
              n - Len(s) \in 1 .. Len(t) /\ (s \o t)[n] = t[n - Len(s)]
<1> DEFINE u == s \o t
<1>1. u \in Seq(S) /\ DOMAIN u = 1 .. Len(s) + Len(t) /\ Len(s) \in Nat /\ Len(t) \in Nat
  OBVIOUS
<1>2. \A n \in 1 .. Len(s) : u[n] = s[n]
  OBVIOUS
<1>3. ASSUME NEW n \in 1 .. Len(s) + Len(t), n > Len(s)
      PROVE  n - Len(s) \in 1 .. Len(t) /\ u[n] = t[n - Len(s)]
  <2>1. n - Len(s) \in 1 .. Len(t)
    BY <1>1, <1>3
  <2>2. n \in 1 .. Len(u) /\ ~(n <= Len(s))
    BY <1>1, <1>3
  <2> QED BY <1>3, <2>1, <2>2
<1> QED BY <1>1, <1>2, <1>3

\* The two parts around the k-th place.
LEMMA Around ==
  ASSUME NEW w \in Seq(Unit), NEW k \in 1 .. Len(w), NEW a, NEW b,
         a = SubSeq(w, 1, k - 1), b = SubSeq(w, k + 1, Len(w))
  PROVE  /\ a \in Seq(Unit) /\ Len(a) = k - 1 /\ \A n \in 1 .. k - 1 : a[n] = w[n]
         /\ b \in Seq(Unit) /\ Len(b) = Len(w) - k /\ \A n \in 1 .. Len(w) - k : b[n] = w[n + k]
<1>1. a \in Seq(Unit) /\ Len(a) = k - 1 /\ \A n \in 1 .. k - 1 : a[n] = w[n]
  OBVIOUS
<1>2. b \in Seq(Unit) /\ Len(b) = Len(w) - k
  OBVIOUS
<1>3. \A n \in 1 .. Len(w) - k : b[n] = w[n + k]
  OBVIOUS
<1> QED BY <1>1, <1>2, <1>3

\* What is left when the k-th is removed.
LEMMA RemovedParts ==
  ASSUME NEW w, NEW k
  PROVE  RemoveAt(w, k) = SubSeq(w, 1, k - 1) \o SubSeq(w, k + 1, Len(w))
BY DEF RemoveAt

LEMMA Thinning ==
  ASSUME NEW w \in Seq(Unit)
  PROVE  /\ Thinned(w, w) /\ Thinned(<<>>, w)
         /\ w # <<>> => Thinned(Tail(w), w) /\ Thinned(<<Noise>> \o Tail(w), w)
         /\ \A k \in DOMAIN w : Thinned(RemoveAt(w, k), w)
<1>1. Thinned(w, w)
  <2> DEFINE f == [n \in DOMAIN w |-> n]
  <2>1. f \in [DOMAIN w -> DOMAIN w] /\ \A n \in DOMAIN w : f[n] = n
    OBVIOUS
  <2> HIDE DEF f
  <2> QED BY <2>1 DEF Thinned
<1>2. Thinned(<<>>, w)
  <2> DEFINE f == [n \in DOMAIN <<>> |-> 0]
  <2>1. DOMAIN <<>> = {} /\ f \in [DOMAIN <<>> -> DOMAIN w]
    OBVIOUS
  <2> QED BY <2>1 DEF Thinned
<1>3. ASSUME w # <<>> PROVE Thinned(Tail(w), w)
  <2> DEFINE v == Tail(w)
             f == [n \in DOMAIN v |-> n + 1]
  <2>1. /\ DOMAIN v = 1 .. Len(w) - 1 /\ Len(w) \in Nat /\ DOMAIN w = 1 .. Len(w)
        /\ \A n \in DOMAIN v : v[n] = w[n + 1]
    BY <1>3
  <2>2. f \in [DOMAIN v -> DOMAIN w] /\ \A n \in DOMAIN v : f[n] = n + 1
    BY <2>1
  <2> HIDE DEF v, f
  <2>3. \A m, n \in DOMAIN v : m < n => m + 1 < n + 1
    BY <2>1
  <2>4. Thinned(v, w)
    BY <2>1, <2>2, <2>3 DEF Thinned
  <2> QED BY <2>4 DEF v
<1>4. ASSUME w # <<>> PROVE Thinned(<<Noise>> \o Tail(w), w)
  <2> DEFINE v == <<Noise>> \o Tail(w)
             f == [n \in DOMAIN v |-> n]
  <2>1. Noise \in Unit
    BY DEF Unit
  <2>2. /\ DOMAIN v = DOMAIN w
        /\ \A n \in DOMAIN v : v[n] \in {w[n], Noise}
    BY <1>4, <2>1
  <2>3. f \in [DOMAIN v -> DOMAIN w] /\ \A n \in DOMAIN v : f[n] = n
    BY <2>2
  <2> HIDE DEF v, f
  <2>4. Thinned(v, w)
    BY <2>2, <2>3 DEF Thinned
  <2> QED BY <2>4 DEF v
<1>5. ASSUME NEW k \in DOMAIN w PROVE Thinned(RemoveAt(w, k), w)
  <2> DEFINE v == RemoveAt(w, k)
             f == [n \in DOMAIN v |-> IF n < k THEN n ELSE n + 1]
  <2>1. /\ k \in 1 .. Len(w) /\ Len(w) \in Nat /\ DOMAIN w = 1 .. Len(w)
        /\ DOMAIN v = 1 .. Len(w) - 1
        /\ \A n \in DOMAIN v : v[n] = w[IF n < k THEN n ELSE n + 1]
    <3> DEFINE a == SubSeq(w, 1, k - 1)
               b == SubSeq(w, k + 1, Len(w))
    <3>1. k \in 1 .. Len(w) /\ Len(w) \in Nat /\ DOMAIN w = 1 .. Len(w)
      OBVIOUS
    <3>0. a = SubSeq(w, 1, k - 1) /\ b = SubSeq(w, k + 1, Len(w))
      OBVIOUS
    <3>2. v = a \o b
      BY Zenon, RemovedParts
    <3> HIDE DEF v, f, a, b
    <3>3. /\ a \in Seq(Unit) /\ Len(a) = k - 1 /\ \A n \in 1 .. k - 1 : a[n] = w[n]
          /\ b \in Seq(Unit) /\ Len(b) = Len(w) - k /\ \A n \in 1 .. Len(w) - k : b[n] = w[n + k]
      BY SMTT(30), <3>0, <3>1, Around
    <3>4. /\ DOMAIN v = 1 .. Len(w) - 1
          /\ \A n \in 1 .. Len(w) - 1 :
               /\ n < k => v[n] = a[n]
               /\ ~(n < k) => v[n] = b[n - (k - 1)]
      <4>1. /\ DOMAIN v = 1 .. (k - 1) + (Len(w) - k)
            /\ \A n \in 1 .. k - 1 : v[n] = a[n]
            /\ \A n \in 1 .. (k - 1) + (Len(w) - k) : n > k - 1 => v[n] = b[n - (k - 1)]
        BY <3>2, <3>3, Joined
      <4> QED BY <3>1, <4>1
    <3>5. ASSUME NEW n \in 1 .. Len(w) - 1 PROVE v[n] = w[IF n < k THEN n ELSE n + 1]
      <4>1. CASE n < k
        BY <3>1, <3>3, <3>4, <4>1
      <4>2. CASE ~(n < k)
        <5>1. n - (k - 1) \in 1 .. Len(w) - k /\ (n - (k - 1)) + k = n + 1
          BY <3>1, <4>2
        <5> QED BY <3>3, <3>4, <4>2, <5>1
      <4> QED BY <4>1, <4>2
    <3> QED BY <3>1, <3>4, <3>5 DEF v
  <2>2. f \in [DOMAIN v -> DOMAIN w] /\ \A n \in DOMAIN v : f[n] = IF n < k THEN n ELSE n + 1
    BY <2>1
  <2> HIDE DEF v, f
  <2>3. \A m, n \in DOMAIN v : m < n => f[m] < f[n]
    BY <2>1, <2>2
  <2>4. Thinned(v, w)
    BY <2>1, <2>2, <2>3 DEF Thinned
  <2> QED BY <2>4 DEF v
<1> QED BY <1>1, <1>2, <1>3, <1>4, <1>5

\* Thinning keeps what the invariant says of the units on the wire.
LEMMA ThinnedKeeps ==
  ASSUME NEW v \in Seq(Unit), NEW w \in Seq(Unit), Thinned(v, w), NEW i
  PROVE  /\ EndsIt(w) => EndsIt(v)
         /\ Opens(v) => Opens(w)
         /\ Holds(v, i) => Holds(w, i)
         /\ Sealed(w, i) => Sealed(v, i)
<1>1. PICK f \in [DOMAIN v -> DOMAIN w] :
        /\ \A m, n \in DOMAIN v : m < n => f[m] < f[n]
        /\ \A n \in DOMAIN v : v[n] \in {w[f[n]], Noise}
  BY DEF Thinned
<1>2. /\ \A n \in DOMAIN v : f[n] \in DOMAIN w
      /\ \A n \in DOMAIN v : v[n] = Command[2] => w[f[n]] = Command[2]
      /\ \A n \in DOMAIN v : Foreign(v[n], i) => Foreign(w[f[n]], i)
  BY <1>1, NoiseIsNothing
<1>3. ASSUME EndsIt(w), NEW n \in DOMAIN v, v[n] = Command[2] PROVE n = Len(v)
  <2>1. f[n] = Len(w)
    BY <1>2, <1>3 DEF EndsIt
  <2>2. n \in 1 .. Len(v) /\ Len(v) \in Nat
    OBVIOUS
  <2>3. CASE n < Len(v)
    <3>1. Len(v) \in DOMAIN v
      BY <2>2
    <3>2. f[Len(v)] \in 1 .. Len(w) /\ f[n] < f[Len(v)]
      BY <1>1, <1>2, <2>3, <3>1
    <3> QED BY <2>1, <3>2
  <2> QED BY <2>2, <2>3
<1>4. Sealed(w, i) => Sealed(v, i)
  BY <1>1, <1>2 DEF Sealed
<1> QED BY <1>2, <1>3, <1>4 DEF EndsIt, Opens, Holds

\* The images are told apart by their contents.
LEMMA ContentsDiffer ==
  ASSUME NEW i \in Images, NEW j, Content(i) = Content(j)
  PROVE  i = j
<1>1. 1 \in 1 .. Size[i]
  BY Sizes
<1>2. DOMAIN Content(i) = 1 .. Size[i] /\ DOMAIN Content(j) = 1 .. Size[j]
  BY DEF Content
<1>3. Content(i)[1] = Part(i, 1)
  BY <1>1 DEF Content
<1>4. 1 \in 1 .. Size[j]
  BY <1>1, <1>2
<1>5. Content(j)[1] = Part(j, 1)
  BY <1>4 DEF Content
<1> QED BY <1>3, <1>5 DEF Part

LEMMA RunsInit == Init => RunsInv
<1> SUFFICES ASSUME Init PROVE AnswersInv
  BY TypesInit DEF RunsInv
<1>1. DOMAIN wire = {} /\ DOMAIN out = {} /\ DOMAIN answers = {}
  BY DEF Init
<1>2. ~Stale /\ Opening /\ ~Holds(out, img)
  BY <1>1 DEF Init, Stale, Holds, Opening, Opens, EndsIt
<1> QED BY <1>1, <1>2 DEF Init, AnswersInv, Deaf, Concluding

-----------------------------------------------------------------------------
(* Steps of the device and of the line                                     *)

\* Answers added by a step that begins or ends nothing.
Idling == {<<>>, <<"ERR">>, <<"RECV">>, <<"ACK">>}

LEMMA Adding ==
  ASSUME Types, NEW a \in Idling, answers' = answers \o a
  PROVE  /\ \A S \in SUBSET {"OK", "CRCOK", "FLASH"} : NoAnswer(S) => NoAnswer(S)'
         /\ \A n \in DOMAIN answers' : answers'[n] = "FLASH" => n \in DOMAIN answers /\ answers[n] = "FLASH"
         /\ \A n \in DOMAIN answers : TooEarly(n) /\ expect' = expect => TooEarly(n)'
<1>1. answers \in Seq(Lines) /\ a \in Seq(Lines)
  <2>1. <<>> \in Seq(Lines)
    OBVIOUS
  <2> QED BY <2>1, AnswerLines DEF Types, LinkTypes, Idling
<1>2. \A n \in DOMAIN a : a[n] \notin {"OK", "CRCOK", "FLASH"}
  BY DEF Idling
<1>3. /\ Len(answers) \in Nat /\ Len(a) \in Nat
      /\ DOMAIN answers = 1 .. Len(answers) /\ DOMAIN a = 1 .. Len(a)
      /\ DOMAIN answers' = 1 .. Len(answers) + Len(a)
      /\ \A n \in 1 .. Len(answers) : answers'[n] = answers[n]
      /\ \A n \in 1 .. Len(answers) + Len(a) :
           n > Len(answers) => n - Len(answers) \in 1 .. Len(a) /\ answers'[n] = a[n - Len(answers)]
  BY <1>1, Joined
<1>4. \A n \in DOMAIN answers' : \/ n \in DOMAIN answers /\ answers'[n] = answers[n]
                                 \/ answers'[n] \notin {"OK", "CRCOK", "FLASH"}
  BY <1>2, <1>3
<1>5. \A n \in DOMAIN answers : n \in DOMAIN answers' /\ answers'[n] = answers[n]
  BY <1>3
<1>6. \A m \in DOMAIN answers', n \in DOMAIN answers : m < n => m \in DOMAIN answers /\ answers'[m] = answers[m]
  BY <1>3
<1>7. ASSUME NEW n \in DOMAIN answers, TooEarly(n), expect' = expect PROVE TooEarly(n)'
  BY <1>6, <1>7 DEF TooEarly
<1> QED BY <1>4, <1>7 DEF NoAnswer

\* A step of the device, or of what goes wrong, that ends a session or goes on with it.
LEMMA DeviceGoesOn ==
  ASSUME RunsInv, Types', UNCHANGED <<expect, img, out, overlap>>,
         Thinned(wire', wire), NEW a \in Idling, answers' = answers \o a,
         dev' = "line" \/ dev # "line",
         overlap < 2 /\ Stale' => Stale,
         overlap < 2 /\ marked' # img => marked = marked' \/ Stale,
         overlap < 2 /\ dev' = "reply" => marked' \in Images /\ content' = Content(marked')
  PROVE  RunsInv'
<1> SUFFICES ASSUME overlap < 2 PROVE AnswersInv'
  BY DEF RunsInv
<1>1. Types /\ AnswersInv
  BY DEF RunsInv
<1>2. wire \in Seq(Unit) /\ wire' \in Seq(Unit)
  BY <1>1 DEF Types, LinkTypes
<1>3. /\ EndsIt(wire) => EndsIt(wire')
      /\ Opens(wire') => Opens(wire)
      /\ Sealed(wire, img) => Sealed(wire', img)
  BY <1>2, ThinnedKeeps
<1>4. \A S \in SUBSET {"OK", "CRCOK", "FLASH"} : NoAnswer(S) => NoAnswer(S)'
  BY <1>1, Adding
<1>5. overlap' = 0 => ~Stale' /\ Opening'
  <2> SUFFICES ASSUME overlap = 0 PROVE ~Stale' /\ Opening'
    OBVIOUS
  <2>1. ~Stale' /\ Opening
    BY <1>1 DEF AnswersInv
  <2>2. NoAnswer({"OK", "CRCOK"}) => NoAnswer({"OK", "CRCOK"})'
    BY <1>4
  <2> QED BY <1>3, <2>1, <2>2 DEF Opening
<1>6. Deaf'
  <2>1. NoAnswer({"OK", "CRCOK", "FLASH"}) => NoAnswer({"OK", "CRCOK", "FLASH"})'
    BY <1>4
  <2> QED BY <1>1, <1>3, <2>1 DEF AnswersInv, Deaf
<1>7. Concluding'
  <2> SUFFICES ASSUME marked' # img
               PROVE  expect # "done" /\ \A n \in DOMAIN answers' : answers'[n] = "FLASH" => TooEarly(n)'
    BY DEF Concluding
  <2>1. CASE marked' = marked
    <3>1. expect # "done" /\ \A n \in DOMAIN answers : answers[n] = "FLASH" => TooEarly(n)
      BY <1>1, <2>1 DEF AnswersInv, Concluding
    <3> QED BY <1>1, <3>1, Adding
  <2>2. CASE Stale
    <3>1. expect # "done" /\ NoAnswer({"OK", "CRCOK", "FLASH"})'
      BY <1>1, <1>4, <2>2 DEF AnswersInv, Deaf
    <3> QED BY <3>1 DEF NoAnswer
  <2> QED BY <2>1, <2>2
<1> QED BY <1>1, <1>5, <1>6, <1>7 DEF AnswersInv

\* Stale is about what is on the wire, and about a session that has begun to mark.
LEMMA StaysFresh ==
  ASSUME Types, Types', UNCHANGED img, Thinned(wire', wire), Stale',
         dev' \in {"mark", "reply"} => dev = dev' /\ content' = content
  PROVE  Stale
<1>1. Holds(wire', img) => Holds(wire, img)
  BY ThinnedKeeps DEF Types, LinkTypes
<1> QED BY <1>1 DEF Stale

LEMMA WindowThins == Types /\ FlashWindow => Thinned(wire', wire)
BY Thinning DEF FlashWindow, Types, LinkTypes

LEMMA ReadingThins == Types /\ wire # <<>> => Thinned(Tail(wire), wire)
BY Thinning DEF Types, LinkTypes

\* What a session does before its CRC, and what ends one: no image is marked.
LEMMA PlainSteps ==
  ASSUME RunsInv, Types',
         \/ ReadLength \/ ReadChunk \/ ProgramChunk \/ DeviceTimeout \/ FirstTick
         \/ LoseUnit \/ PowerCut \/ Stall \/ Resume \/ UNCHANGED vars
  PROVE  RunsInv'
<1>1. UNCHANGED <<expect, img, out, overlap, marked>>
  BY DEF ReadLength, ReadChunk, ProgramChunk, DeviceTimeout, FirstTick, LoseUnit, PowerCut, Stall, Resume,
         vars, sender, device
<1>2. Types
  BY DEF RunsInv
<1>3. Thinned(wire', wire)
  <2>1. CASE ReadLength \/ ReadChunk
    BY <1>2, <2>1, ReadingThins DEF ReadLength, ReadChunk
  <2>2. CASE ProgramChunk \/ FirstTick
    BY <1>2, <2>2, WindowThins DEF ProgramChunk, FirstTick
  <2>3. CASE LoseUnit \/ PowerCut
    BY <1>2, <2>3, Thinning DEF Types, LinkTypes, LoseUnit, PowerCut, Restart
  <2>4. CASE DeviceTimeout \/ Stall \/ Resume \/ UNCHANGED vars
    BY <1>2, <2>4, Thinning DEF Types, LinkTypes, DeviceTimeout, Stall, Resume, vars
  <2> QED BY <2>1, <2>2, <2>3, <2>4
<1>4. \E a \in Idling : answers' = answers \o a
  <2>1. <<>> \in Idling /\ answers \o <<>> = answers
    BY <1>2 DEF Idling, Types, LinkTypes
  <2>2. CASE ReadLength
    <3>1. \E n \in LengthOf(Head(wire)) : Answer(<<"ERR">>) \/ Answer(<<"RECV">>)
      BY <2>2 DEF ReadLength
    <3> QED BY <3>1 DEF Answer, Idling
  <2>3. CASE ProgramChunk \/ DeviceTimeout
    BY <2>3 DEF ProgramChunk, DeviceTimeout, Answer, Idling
  <2>4. CASE ReadChunk \/ FirstTick \/ LoseUnit \/ PowerCut \/ Stall \/ Resume \/ UNCHANGED vars
    <3>1. answers' = answers
      BY <2>4 DEF ReadChunk, FirstTick, LoseUnit, PowerCut, Stall, Resume, vars
    <3> QED BY <2>1, <3>1
  <2> QED BY <2>2, <2>3, <2>4
<1>5. \/ dev' \in {"line", "chunk", "program", "crc"} /\ dev # "line"
      \/ dev' = "line"
      \/ UNCHANGED <<dev, content>>
  <2>1. CASE ReadLength
    <3>1. \E n \in LengthOf(Head(wire)) : dev' \in {"line", "chunk"}
      BY <2>1 DEF ReadLength
    <3> QED BY <2>1, <3>1 DEF ReadLength
  <2>2. CASE ReadChunk \/ ProgramChunk \/ DeviceTimeout \/ PowerCut
    BY <2>2 DEF ReadChunk, ProgramChunk, DeviceTimeout, PowerCut, Restart
  <2>3. CASE FirstTick \/ LoseUnit \/ Stall \/ Resume \/ UNCHANGED vars
    BY <2>3 DEF FirstTick, LoseUnit, Stall, Resume, vars, device
  <2> QED BY <2>1, <2>2, <2>3
<1>6. dev' = "line" \/ dev # "line"
  BY <1>5
<1>7. dev' \in {"mark", "reply"} => dev = dev' /\ content' = content
  BY <1>5
<1>8. Stale' => Stale
  BY <1>1, <1>2, <1>3, <1>7, StaysFresh
<1>9. overlap < 2 /\ dev' = "reply" => marked' \in Images /\ content' = Content(marked')
  BY <1>1, <1>7 DEF RunsInv, AnswersInv
<1> QED BY <1>1, <1>3, <1>4, <1>6, <1>8, <1>9, DeviceGoesOn

\* The command parser: a session begins only with the end of a command, and then no
\* foreign CRC is left.
LEMMA ParseStep ==
  ASSUME RunsInv, Types', ParseUnit
  PROVE  RunsInv'
<1>1. /\ UNCHANGED <<expect, img, out, overlap, marked, content>> /\ dev = "line"
      /\ wire' = Tail(wire) /\ wire # <<>>
  BY DEF ParseUnit, sender
<1>2. Types
  BY DEF RunsInv
<1>3. Thinned(wire', wire)
  BY <1>1, <1>2, ReadingThins
<1>4. CASE dev' = dev /\ answers' = answers
  <2>1. <<>> \in Idling /\ answers' = answers \o <<>>
    BY <1>2, <1>4 DEF Idling, Types, LinkTypes
  <2>2. Stale' => Stale
    BY <1>1, <1>2, <1>3, <1>4, StaysFresh
  <2> QED BY <1>1, <1>3, <1>4, <2>1, <2>2, DeviceGoesOn
<1>5. CASE Head(wire) = Command[2] /\ dev' = "length" /\ answers' = answers \o <<"OK">>
  <2> SUFFICES ASSUME overlap < 2 PROVE AnswersInv'
    BY <1>1 DEF RunsInv
  <2>1. AnswersInv
    BY DEF RunsInv
  <2>2. /\ wire \in Seq(Unit) /\ wire' \in Seq(Unit) /\ 1 \in DOMAIN wire /\ wire[1] = Command[2]
        /\ DOMAIN wire = 1 .. Len(wire) /\ Len(wire) \in Nat
    BY <1>1, <1>2, <1>5 DEF Types, LinkTypes
  <2>3. ~Holds(wire, img)
    <3> SUFFICES ASSUME Holds(wire, img) PROVE FALSE
      OBVIOUS
    <3>1. PICK n \in DOMAIN wire : Foreign(wire[n], img)
      BY DEF Holds
    <3>2. n # 1
      BY <2>2, <3>1, NoiseIsNothing
    <3>3. 1 < n
      BY <2>2, <3>2
    <3>4. Sealed(wire, img)
      BY <2>1 DEF AnswersInv, Deaf, Stale
    <3> QED BY <2>2, <3>1, <3>3, <3>4 DEF Sealed
  <2>4. ~Stale'
    <3>1. ~Holds(wire', img)
      BY <1>3, <2>2, <2>3, ThinnedKeeps
    <3> QED BY <1>1, <1>5, <3>1 DEF Stale
  <2>5. overlap = 0 => Opening'
    <3> SUFFICES ASSUME overlap = 0 PROVE Opening'
      OBVIOUS
    <3>1. EndsIt(wire) /\ out = <<>>
      BY <2>1, <2>2 DEF AnswersInv, Opening, Opens
    <3>2. Len(wire) = 1
      BY <2>2, <3>1 DEF EndsIt
    <3>3. wire' = <<>>
      BY <1>1, <2>2, <3>2
    <3> QED BY <1>1, <3>1, <3>3 DEF Opening, EndsIt, Opens
  <2>6. Concluding'
    <3>1. answers \in Seq(Lines) /\ <<"OK">> \in Seq(Lines)
      BY <1>2, AnswerLines DEF Types, LinkTypes
    <3>2. /\ Len(answers) \in Nat /\ DOMAIN answers = 1 .. Len(answers)
          /\ DOMAIN answers' = 1 .. Len(answers) + Len(<<"OK">>)
          /\ \A n \in 1 .. Len(answers) : answers'[n] = answers[n]
          /\ \A n \in 1 .. Len(answers) + Len(<<"OK">>) :
               n > Len(answers) =>
                 n - Len(answers) \in 1 .. Len(<<"OK">>) /\ answers'[n] = <<"OK">>[n - Len(answers)]
      BY <1>5, <3>1, Joined
    <3>3. /\ Len(<<"OK">>) = 1 /\ \A k \in 1 .. 1 : <<"OK">>[k] = "OK"
      OBVIOUS
    <3>4. \A n \in DOMAIN answers' : answers'[n] = "FLASH" => n \in DOMAIN answers /\ answers[n] = "FLASH"
      BY <3>2, <3>3
    <3>5. \A n \in DOMAIN answers, m \in DOMAIN answers' : m < n => m \in DOMAIN answers /\ answers'[m] = answers[m]
      BY <3>2
    <3>6. ASSUME NEW n \in DOMAIN answers, TooEarly(n) PROVE TooEarly(n)'
      BY <1>1, <3>5, <3>6 DEF TooEarly
    <3> QED BY <1>1, <2>1, <3>4, <3>6 DEF AnswersInv, Concluding
  <2> QED BY <1>1, <1>5, <2>1, <2>4, <2>5, <2>6 DEF AnswersInv, Deaf
<1> QED BY <1>1, <1>4, <1>5 DEF ParseUnit, Answer

\* The CRC that does not fit ends the session; one that fits another image was foreign.
LEMMA CrcStep ==
  ASSUME RunsInv, Types', ReadCrc
  PROVE  RunsInv'
<1>1. /\ UNCHANGED <<expect, img, out, overlap, marked, content>> /\ dev = "crc"
      /\ wire' = Tail(wire) /\ wire # <<>>
  BY DEF ReadCrc, sender
<1>2. Types
  BY DEF RunsInv
<1>3. Thinned(wire', wire)
  BY <1>1, <1>2, ReadingThins
<1>4. /\ \E a \in Idling : answers' = answers \o a
      /\ dev' \in {"line", "mark"} /\ (dev' = "mark" => Fits(Head(wire)))
  <2>1. <<>> \in Idling /\ <<"ERR">> \in Idling /\ answers \o <<>> = answers
    BY <1>2 DEF Idling, Types, LinkTypes
  <2> QED BY <2>1 DEF ReadCrc, Answer
<1>5. ASSUME Stale' PROVE Stale
  <2>1. CASE Holds(wire', img)
    BY <1>2, <1>3, <2>1, ThinnedKeeps DEF Types, LinkTypes, Stale
  <2>2. CASE dev' = "mark" /\ content # Content(img)
    <3>1. Head(wire)[1] = "crc" /\ Head(wire)[2] # img
      BY <1>4, <2>2 DEF Fits
    <3>2. 1 \in DOMAIN wire /\ wire[1] = Head(wire)
      BY <1>1, <1>2 DEF Types, LinkTypes
    <3> QED BY <3>1, <3>2 DEF Stale, Holds, Foreign
  <2> QED BY <1>1, <1>4, <1>5, <2>1, <2>2 DEF Stale, Content
<1> QED BY <1>1, <1>3, <1>4, <1>5, DeviceGoesOn

\* The image whose contents the device holds is marked, by a failing write perhaps.
LEMMA MarkSteps ==
  ASSUME RunsInv, Types', MarkUpdate \/ FlashFails
  PROVE  RunsInv'
<1>1. UNCHANGED <<expect, img, out, overlap, content>> /\ dev # "line" /\ FlashWindow
  BY DEF MarkUpdate, FlashFails, sender, Windows
<1>2. Types
  BY DEF RunsInv
<1>3. Thinned(wire', wire)
  BY <1>1, <1>2, WindowThins
<1>4. \E a \in Idling : answers' = answers \o a
  <2>1. <<>> \in Idling /\ <<"ERR">> \in Idling /\ answers \o <<>> = answers
    BY <1>2 DEF Idling, Types, LinkTypes
  <2> QED BY <2>1 DEF MarkUpdate, FlashFails, Answer
<1>5. \/ marked' = marked /\ dev' = "line"
      \/ dev = "mark" /\ marked' \in Images /\ content = Content(marked')
  <2>1. CASE MarkUpdate
    <3>1. \E i \in Images : content = Content(i)
      BY <1>2, <2>1 DEF MarkUpdate, Types, DeviceTypes
    <3> QED BY <2>1, <3>1 DEF MarkUpdate
  <2>2. CASE FlashFails
    BY <2>2 DEF FlashFails
  <2> QED BY <2>1, <2>2
<1>6. dev' \in {"line", "reply"}
  BY DEF MarkUpdate, FlashFails
<1>7. ASSUME Stale' PROVE Stale
  <2>1. CASE Holds(wire', img)
    BY <1>2, <1>3, <2>1, ThinnedKeeps DEF Types, LinkTypes, Stale
  <2>2. CASE dev' = "reply" /\ content # Content(img)
    BY <1>5, <2>2 DEF Stale
  <2> QED BY <1>1, <1>6, <1>7, <2>1, <2>2 DEF Stale, Content
<1>8. marked' # img => marked' = marked \/ Stale
  <2>1. CASE dev = "mark" /\ marked' \in Images /\ content = Content(marked')
    <3>1. content = Content(img) => marked' = img
      BY <2>1, ContentsDiffer
    <3> QED BY <2>1, <3>1 DEF Stale
  <2> QED BY <1>5, <2>1
<1>9. dev' = "reply" => marked' \in Images /\ content' = Content(marked')
  BY <1>1, <1>5 DEF Content
<1> QED BY <1>1, <1>3, <1>4, <1>7, <1>8, <1>9, DeviceGoesOn

\* The last answers: a run that finds them behind nothing but its own first wait takes
\* the one for its OK, and gets no further.
LEMMA ReplyStep ==
  ASSUME RunsInv, Types', Reply
  PROVE  RunsInv'
<1>1. /\ UNCHANGED <<expect, img, out, overlap, marked>> /\ dev = "reply" /\ dev' = "line"
      /\ wire' = <<>> /\ answers' = answers \o <<"CRCOK", "FLASH">>
  BY DEF Reply, Restart, Answer, sender
<1> SUFFICES ASSUME overlap < 2 PROVE AnswersInv'
  BY <1>1 DEF RunsInv
<1>2. Types /\ AnswersInv
  BY DEF RunsInv
<1>3. ~Stale'
  BY <1>1 DEF Stale, Holds
<1>4. overlap = 0 => Opening'
  BY <1>1, <1>2 DEF AnswersInv, Opening, Opens, EndsIt
<1>5. Concluding'
  <2> SUFFICES ASSUME marked # img
               PROVE  expect # "done" /\ \A n \in DOMAIN answers' : answers'[n] = "FLASH" => TooEarly(n)'
    BY <1>1 DEF Concluding
  <2>1. expect \in {"OK", "idle", "failed"} /\ NoAnswer({"OK", "CRCOK", "FLASH"})
    <3>1. content # Content(img)
      BY <1>1, <1>2, ContentsDiffer DEF AnswersInv
    <3> QED BY <1>1, <1>2, <3>1 DEF AnswersInv, Deaf, Stale
  <2> DEFINE b == <<"CRCOK", "FLASH">>
             k == Len(answers)
  <2>2. answers \in Seq(Lines) /\ b \in Seq(Lines) /\ answers' = answers \o b
    BY <1>1, <1>2, AnswerLines DEF Types, LinkTypes
  <2>3. Len(b) = 2 /\ b[1] = "CRCOK" /\ b[2] = "FLASH"
    OBVIOUS
  <2> HIDE DEF b
  <2>4. /\ k \in Nat /\ DOMAIN answers = 1 .. k
        /\ DOMAIN answers' = 1 .. k + 2
        /\ \A n \in 1 .. k : answers'[n] = answers[n]
        /\ \A n \in 1 .. k + 2 : n > k => n - k \in 1 .. 2 /\ answers'[n] = b[n - k]
    <3>1. /\ Len(answers) \in Nat /\ DOMAIN (answers \o b) = 1 .. Len(answers) + Len(b)
          /\ \A n \in 1 .. Len(answers) : (answers \o b)[n] = answers[n]
          /\ \A n \in 1 .. Len(answers) + Len(b) :
               n > Len(answers) => n - Len(answers) \in 1 .. Len(b) /\ (answers \o b)[n] = b[n - Len(answers)]
      BY <2>2, Joined
    <3> QED BY <2>2, <2>3, <3>1
  <2>5. /\ \A n \in 1 .. k : answers'[n] \notin {"OK", "CRCOK", "FLASH"}
        /\ answers'[k + 1] = "CRCOK" /\ answers'[k + 2] = "FLASH"
    <3>1. \A n \in 1 .. k : answers'[n] \notin {"OK", "CRCOK", "FLASH"}
      BY <2>1, <2>4 DEF NoAnswer
    <3>2. k + 1 \in 1 .. k + 2 /\ k + 1 > k /\ (k + 1) - k = 1 /\ k + 2 \in 1 .. k + 2 /\ k + 2 > k /\ (k + 2) - k = 2
      BY <2>4
    <3>3. answers'[k + 1] = b[1] /\ answers'[k + 2] = b[2]
      BY <2>4, <3>2
    <3> QED BY <2>3, <3>1, <3>3
  <2>6. ASSUME NEW n \in DOMAIN answers', answers'[n] = "FLASH" PROVE TooEarly(n)'
    <3> HIDE DEF k
    <3>1. n = k + 2
      <4>1. n \in 1 .. k \/ n = k + 1 \/ n = k + 2
        BY <2>4
      <4> QED BY <2>5, <2>6, <4>1
    <3>2. \A m \in DOMAIN answers' : m < n => answers'[m] # "OK" /\ (answers'[m] = "CRCOK" => m = n - 1)
      <4>1. ASSUME NEW m \in 1 .. k + 2, m < n PROVE m \in 1 .. k \/ m = k + 1
        BY <2>4, <3>1, <4>1
      <4>2. n - 1 = k + 1
        BY <2>4, <3>1
      <4> QED BY <2>4, <2>5, <4>1, <4>2
    <3> QED BY <1>1, <2>1, <3>2 DEF TooEarly
  <2> QED BY <2>1, <1>1, <2>6
<1> QED BY <1>1, <1>2, <1>3, <1>4, <1>5 DEF AnswersInv, Deaf

-----------------------------------------------------------------------------
(* Steps of the sender                                                     *)

\* A unit is written: it changes sides, and is the last of the two.
LEMMA SendStep ==
  ASSUME RunsInv, Types', SendUnit
  PROVE  RunsInv'
<1>1. /\ UNCHANGED <<expect, img, overlap, answers, dev, content, marked>>
      /\ wire' = Append(wire, Head(out)) /\ out' = Tail(out) /\ out # <<>>
  BY DEF SendUnit, device
<1> SUFFICES ASSUME overlap < 2 PROVE AnswersInv'
  BY <1>1 DEF RunsInv
<1>2. Types /\ AnswersInv
  BY DEF RunsInv
<1> DEFINE u == Head(out)
           k == Len(wire)
<1>3. /\ out \in Seq(Unit) /\ Len(out) \in Nat /\ DOMAIN out = 1 .. Len(out) /\ 1 \in DOMAIN out /\ out[1] = u
      /\ Len(out') = Len(out) - 1 /\ DOMAIN out' = 1 .. Len(out) - 1
      /\ \A n \in 1 .. Len(out) - 1 : out'[n] = out[n + 1]
  BY <1>1, <1>2 DEF Types, SenderTypes
<1>4. /\ k \in Nat /\ DOMAIN wire = 1 .. k /\ Len(wire') = k + 1 /\ DOMAIN wire' = 1 .. k + 1
      /\ wire'[k + 1] = u /\ \A n \in 1 .. k : wire'[n] = wire[n]
  BY <1>1, <1>2, <1>3 DEF Types, LinkTypes
<1> HIDE DEF u, k
<1>5. ~Foreign(u, img) /\ ~Holds(out', img)
  BY <1>2, <1>3 DEF AnswersInv, Holds
<1>6. \A n \in DOMAIN wire' : \/ n \in DOMAIN wire /\ wire'[n] = wire[n]
                              \/ n = k + 1 /\ wire'[n] = u
  BY <1>4
<1>7. Stale' => Stale
  BY <1>1, <1>5, <1>6 DEF Stale, Holds, Content
<1>8. Sealed(wire, img) => Sealed(wire', img)
  <2> SUFFICES ASSUME Sealed(wire, img), NEW m \in DOMAIN wire', NEW n \in DOMAIN wire', m < n, Foreign(wire'[n], img)
               PROVE  wire'[m] # Command[2]
    BY DEF Sealed
  <2>1. n \in 1 .. k /\ m \in 1 .. k
    BY <1>4, <1>5, <1>6
  <2> QED BY <1>4, <2>1 DEF Sealed
<1>9. overlap = 0 => Opening'
  <2> SUFFICES ASSUME overlap = 0 PROVE Opening'
    OBVIOUS
  <2>1. Opening /\ ~Opens(wire) /\ EndsIt(out)
    BY <1>1, <1>2 DEF AnswersInv, Opening
  <2>2. EndsIt(out')
    BY <1>3, <2>1 DEF EndsIt
  <2>3. EndsIt(wire') /\ (Opens(wire') => u = Command[2])
    BY <1>4, <1>6, <2>1 DEF EndsIt, Opens
  <2>4. u = Command[2] => out' = <<>>
    BY <1>1, <1>2, <1>3, <2>1 DEF EndsIt, Types, SenderTypes
  <2>5. Opens(wire') \/ Opens(out') => Opens(out)
    <3>1. \A n \in DOMAIN out' : n + 1 \in DOMAIN out /\ out'[n] = out[n + 1]
      BY <1>3
    <3> QED BY <1>3, <2>3, <3>1 DEF Opens
  <2> QED BY <1>1, <2>1, <2>2, <2>3, <2>4, <2>5 DEF Opening, NoAnswer
<1>10. Deaf' /\ Concluding'
  BY <1>1, <1>2, <1>7, <1>8 DEF AnswersInv, Deaf, Concluding, NoAnswer, TooEarly
<1> QED BY <1>1, <1>2, <1>5, <1>7, <1>9, <1>10 DEF AnswersInv, Content

\* The places of the answers left when the first is gone.
LEMMA FirstGone ==
  ASSUME Types, answers # <<>>, answers' = Tail(answers)
  PROVE  /\ 1 \in DOMAIN answers /\ answers[1] = Head(answers)
         /\ \A n \in DOMAIN answers' : n \in Nat /\ n >= 1 /\ n + 1 \in DOMAIN answers /\ answers'[n] = answers[n + 1]
         /\ \A S : NoAnswer(S) => NoAnswer(S)'
<1>1. /\ 1 \in DOMAIN answers /\ answers[1] = Head(answers)
      /\ \A n \in DOMAIN answers' : n \in Nat /\ n >= 1 /\ n + 1 \in DOMAIN answers /\ answers'[n] = answers[n + 1]
  BY DEF Types, LinkTypes
<1> QED BY <1>1 DEF NoAnswer

\* An answer is lost, or skipped, or ends the run.
LEMMA DropStep ==
  ASSUME RunsInv, Types', answers # <<>>, answers' = Tail(answers),
         UNCHANGED <<img, out, overlap, wire, dev, content, marked>>,
         expect' = expect \/ (expect \in Waiting /\ expect' = "failed")
  PROVE  RunsInv'
<1> SUFFICES ASSUME overlap < 2 PROVE AnswersInv'
  BY DEF RunsInv
<1>1. Types /\ AnswersInv
  BY DEF RunsInv
<1>2. /\ \A n \in DOMAIN answers' : n \in Nat /\ n >= 1 /\ n + 1 \in DOMAIN answers /\ answers'[n] = answers[n + 1]
      /\ \A S : NoAnswer(S) => NoAnswer(S)'
  BY <1>1, FirstGone
<1>3. Stale' <=> Stale
  BY DEF Stale, Content
<1>4. overlap = 0 => Opening'
  BY <1>1, <1>2 DEF AnswersInv, Opening
<1>5. Deaf'
  BY <1>1, <1>2, <1>3 DEF AnswersInv, Deaf
<1>6. ASSUME NEW n \in DOMAIN answers', TooEarly(n + 1) PROVE TooEarly(n)'
  <2>1. expect' = expect \/ expect' = "failed"
    OBVIOUS
  <2>2. expect = "RECV" => n + 1 = 1 \/ expect' = "failed"
    BY <1>6, <2>1 DEF TooEarly
  <2>3. ASSUME expect = "OK", NEW m \in DOMAIN answers', m < n
        PROVE  answers'[m] # "OK" /\ (answers'[m] = "CRCOK" => m = n - 1)
    <3>1. m + 1 \in DOMAIN answers /\ answers'[m] = answers[m + 1] /\ m + 1 < n + 1 /\ m \in Nat /\ n \in Nat
      BY <1>2, <2>3
    <3>2. answers[m + 1] # "OK" /\ (answers[m + 1] = "CRCOK" => m + 1 = (n + 1) - 1)
      BY <1>6, <2>3, <3>1 DEF TooEarly
    <3> QED BY <3>1, <3>2
  <2>4. n + 1 # 1
    BY <1>2
  <2> QED BY <1>6, <2>1, <2>2, <2>3, <2>4 DEF TooEarly
<1>7. Concluding'
  <2> SUFFICES ASSUME marked # img, NEW n \in DOMAIN answers', answers'[n] = "FLASH" PROVE TooEarly(n)'
    BY <1>1 DEF AnswersInv, Concluding, Waiting
  <2>1. n + 1 \in DOMAIN answers /\ answers[n + 1] = "FLASH"
    BY <1>2
  <2>2. TooEarly(n + 1)
    BY <1>1, <2>1 DEF AnswersInv, Concluding
  <2> QED BY <1>6, <2>2
<1> QED BY <1>1, <1>3, <1>4, <1>5, <1>7 DEF AnswersInv, Content

\* What the script writes next holds neither a foreign CRC nor a command.
LEMMA ProceedWrites ==
  ASSUME Types, expect \in Waiting, Proceed
  PROVE  \/ ~Holds(out', img) /\ ~Opens(out')
         \/ out' = out /\ expect \in {"CRCOK", "FLASH"}
<1>1. img \in Images /\ off \in Nat /\ Size[img] \in Nat
  BY Sizes DEF Types, SenderTypes
<1>2. CASE expect = "OK" \/ (expect \in {"RECV", "ACK"} /\ IsLast(off))
  <2>1. out' = << <<"len", img>> >> \/ out' = << <<"crc", img>> >>
    BY <1>2 DEF Proceed
  <2>2. ASSUME NEW u, u \in {<<"len", img>>, <<"crc", img>>} PROVE ~Foreign(u, img) /\ u # Command[2]
    <3>1. /\ <<"len", img>>[1] = "len" /\ <<"crc", img>>[1] = "crc" /\ <<"crc", img>>[2] = img
          /\ Command[2] = <<"cmd", 2>> /\ <<"cmd", 2>>[1] = "cmd"
      BY DEF Command
    <3> QED BY <2>2, <3>1 DEF Foreign
  <2>3. ASSUME NEW u, out' = <<u>>, ~Foreign(u, img), u # Command[2] PROVE ~Holds(out', img) /\ ~Opens(out')
    <3>1. DOMAIN <<u>> = {1} /\ <<u>>[1] = u
      OBVIOUS
    <3> QED BY <2>3, <3>1 DEF Holds, Opens
  <2>4. \E u : out' = <<u>> /\ u \in {<<"len", img>>, <<"crc", img>>}
    BY <2>1
  <2> QED BY <2>2, <2>3, <2>4
<1>3. CASE expect \in {"RECV", "ACK"} /\ ~IsLast(off)
  <2>1. out' = SubSeq(Content(img), off + 1, ChunkEnd(off))
    BY <1>3 DEF Proceed
  <2>2. off < Size[img] /\ ChunkEnd(off) \in off .. Size[img]
    BY <1>1, <1>3, Sizes DEF IsLast, ChunkEnd
  <2> DEFINE c == Content(img)
             e == ChunkEnd(off)
             s == SubSeq(c, off + 1, e)
  <2>3. c \in Seq(Unit) /\ e \in off .. Len(c) /\ \A n \in 1 .. Len(c) : c[n] = Part(img, n)
    BY <1>1, <2>2, ImageUnits DEF Content
  <2> HIDE DEF c, e
  <2>4. ASSUME NEW n \in DOMAIN s PROVE \E j \in 1 .. Len(c) : s[n] = c[j]
    <3>1. n \in 1 .. e - off /\ n + off \in 1 .. Len(c)
      BY <1>1, <2>3
    <3>2. s[n] = c[n + off]
      BY <1>1, <2>3, <3>1
    <3> QED BY <3>1, <3>2
  <2>5. \A j : Part(img, j)[1] = "part" /\ Command[2][1] = "cmd"
    BY DEF Part, Command
  <2>6. \A n \in DOMAIN s : ~Foreign(s[n], img) /\ s[n] # Command[2]
    <3> HIDE DEF s
    <3> QED BY <2>3, <2>4, <2>5 DEF Foreign
  <2>7. out' = s
    BY <2>1 DEF c, e
  <2> HIDE DEF s
  <2> QED BY <2>6, <2>7 DEF Holds, Opens
<1>4. CASE expect \in {"CRCOK", "FLASH"}
  BY <1>4 DEF Proceed
<1> QED BY <1>2, <1>3, <1>4 DEF Waiting

\* The run reads what it takes for its answer: no other image can be marked any more, and
\* one that is cannot have given the run its last answer.
LEMMA GoOnStep ==
  ASSUME RunsInv, Types', ReadLine, Matches(Head(answers)), Proceed
  PROVE  RunsInv'
<1>1. /\ UNCHANGED <<img, overlap, wire, dev, content, marked>>
      /\ answers # <<>> /\ answers' = Tail(answers) /\ expect \in Waiting /\ out = <<>>
  BY DEF ReadLine, device
<1> SUFFICES ASSUME overlap < 2 PROVE AnswersInv'
  BY <1>1 DEF RunsInv
<1>2. Types /\ AnswersInv
  BY DEF RunsInv
<1>3. /\ 1 \in DOMAIN answers /\ answers[1] \in {expect, "CRCOK"} /\ (expect # "OK" => answers[1] = expect)
      /\ \A n \in DOMAIN answers' : n \in Nat /\ n >= 1 /\ n + 1 \in DOMAIN answers /\ answers'[n] = answers[n + 1]
  BY <1>1, <1>2, FirstGone DEF Matches
<1>4. ~Stale /\ ~Stale'
  <2>1. ~Stale
    BY <1>1, <1>2, <1>3 DEF AnswersInv, Deaf, NoAnswer, Waiting
  <2> QED BY <1>1, <2>1 DEF Stale, Content
<1>5. ~Holds(out', img) /\ ~Opens(out')
  <2>1. DOMAIN out = {}
    BY <1>1
  <2> QED BY <1>1, <1>2, <2>1, ProceedWrites DEF Holds, Opens
<1>6. overlap = 0 => Opening'
  <2> SUFFICES ASSUME overlap = 0 PROVE Opening'
    OBVIOUS
  <2>1. ~Opens(wire) /\ EndsIt(wire)
    BY <1>1, <1>2, <1>3 DEF AnswersInv, Opening, NoAnswer, Waiting
  <2> QED BY <1>1, <1>5, <2>1 DEF Opening, Opens, EndsIt
<1>7. Concluding'
  <2> SUFFICES ASSUME marked # img
               PROVE  expect' # "done" /\ \A n \in DOMAIN answers' : answers'[n] = "FLASH" => TooEarly(n)'
    BY <1>1 DEF Concluding
  <2>1. expect # "FLASH"
    BY <1>1, <1>2, <1>3 DEF AnswersInv, Concluding, TooEarly
  <2>2. expect' # "done"
    BY <2>1 DEF Proceed
  <2>3. ASSUME NEW n \in DOMAIN answers', answers'[n] = "FLASH" PROVE TooEarly(n)'
    <3>1. n \in Nat /\ n >= 1 /\ n + 1 \in DOMAIN answers /\ TooEarly(n + 1)
      BY <1>2, <1>3, <2>3 DEF AnswersInv, Concluding
    <3>2. expect = "OK"
      <4>1. n + 1 # 1
        BY <3>1
      <4> QED BY <1>1, <3>1, <4>1 DEF TooEarly, Waiting
    <3>3. n = 1
      <4>1. 1 < n + 1
        BY <3>1
      <4>2. answers[1] # "OK" /\ (answers[1] = "CRCOK" => 1 = (n + 1) - 1)
        BY <1>3, <3>1, <3>2, <4>1 DEF TooEarly
      <4> QED BY <1>3, <3>1, <3>2, <4>2
    <3>4. expect' = "RECV"
      BY <3>2 DEF Proceed
    <3> QED BY <3>3, <3>4 DEF TooEarly
  <2> QED BY <2>2, <2>3
<1> QED BY <1>1, <1>2, <1>4, <1>5, <1>6, <1>7 DEF AnswersInv, Deaf, Content

\* The run is given up.
LEMMA GiveUpStep ==
  ASSUME RunsInv, Types', SenderTimeout \/ Kill
  PROVE  RunsInv'
<1>1. /\ UNCHANGED <<img, overlap, wire, answers, dev, content, marked>>
      /\ expect' \in {"idle", "failed"} /\ out' = <<>>
  BY DEF SenderTimeout, Kill, device
<1> SUFFICES ASSUME overlap < 2 PROVE AnswersInv'
  BY <1>1 DEF RunsInv
<1>2. AnswersInv
  BY DEF RunsInv
<1>3. DOMAIN out' = {}
  BY <1>1
<1>4. Stale' <=> Stale
  BY <1>1 DEF Stale, Content
<1>5. overlap = 0 => Opening'
  BY <1>1, <1>2, <1>3 DEF AnswersInv, Opening, Opens, EndsIt, NoAnswer
<1>6. Deaf' /\ Concluding'
  BY <1>1, <1>2, <1>4 DEF AnswersInv, Deaf, Concluding, NoAnswer, TooEarly
<1> QED BY <1>1, <1>2, <1>3, <1>4, <1>5, <1>6 DEF AnswersInv, Holds, Content

\* A run begins: the answers to the one before it are gone with the terminal, and what
\* that one has left on the wire holds the end of a command in its last place only.
LEMMA StartStep ==
  ASSUME KeepsAnswers = FALSE, RunsInv, Types', Start
  PROVE  RunsInv'
<1>1. /\ UNCHANGED <<wire, dev, content, marked>> /\ expect' = "OK" /\ out' = Command /\ answers' = <<>>
      /\ overlap' = IF Quiet THEN 0 ELSE IF overlap = 0 THEN 1 ELSE 2
  BY DEF Start, device
<1> SUFFICES ASSUME overlap' < 2 PROVE AnswersInv'
  BY DEF RunsInv
<1>2. DOMAIN answers' = {}
  BY <1>1
<1>3. /\ DOMAIN out' = 1 .. 2 /\ Len(out') = 2 /\ out'[1] # Command[2] /\ out'[2] = Command[2]
      /\ \A n \in DOMAIN out' : out'[n][1] # "crc"
  BY <1>1 DEF Command
<1>4. ~Holds(out', img')
  BY <1>3 DEF Holds, Foreign
<1>5. Concluding'
  BY <1>1, <1>2 DEF Concluding
<1>6. CASE Quiet
  <2>1. dev = "line" /\ wire = <<>> /\ DOMAIN wire' = {}
    BY <1>1, <1>6 DEF Quiet
  <2>2. ~Stale'
    BY <1>1, <2>1 DEF Stale, Holds
  <2>3. Opening'
    <3>1. EndsIt(wire') /\ ~Opens(wire')
      BY <2>1 DEF EndsIt, Opens
    <3>2. EndsIt(out')
      <4>1. \A n \in 1 .. 2 : n = 1 \/ n = 2
        OBVIOUS
      <4> QED BY <1>3, <4>1 DEF EndsIt
    <3> QED BY <1>1, <1>2, <2>1, <3>1, <3>2 DEF Opening, NoAnswer
  <2> QED BY <1>1, <1>4, <1>5, <2>1, <2>2, <2>3 DEF AnswersInv, Deaf
<1>7. CASE ~Quiet
  <2>1. overlap = 0 /\ overlap' = 1
    BY <1>1, <1>7
  <2>2. AnswersInv /\ EndsIt(wire)
    BY <2>1 DEF RunsInv, AnswersInv, Opening
  <2>3. Sealed(wire', img')
    <3> SUFFICES ASSUME NEW m \in DOMAIN wire, NEW n \in DOMAIN wire, m < n, wire[m] = Command[2] PROVE FALSE
      BY <1>1 DEF Sealed
    <3>1. m = Len(wire)
      BY <2>2 DEF EndsIt
    <3>2. DOMAIN wire = 1 .. Len(wire) /\ Len(wire) \in Nat
      BY DEF RunsInv, Types, LinkTypes
    <3> QED BY <3>1, <3>2
  <2>4. Deaf'
    BY <1>1, <1>2, <2>3 DEF Deaf, NoAnswer
  <2> QED BY <1>1, <1>4, <1>5, <2>1, <2>2, <2>4 DEF AnswersInv, Content
<1> QED BY <1>6, <1>7

LEMMA RunsNext == ASSUME KeepsAnswers = FALSE, RunsInv, [Next]_vars PROVE RunsInv'
<1>1. Types'
  BY TypesNext DEF RunsInv
<1>2. CASE ReadLine
  <2>1. CASE Matches(Head(answers)) /\ Proceed
    BY <1>1, <1>2, <2>1, GoOnStep
  <2>2. CASE expect' = (IF Head(answers) = "ERR" THEN "failed" ELSE expect) /\ UNCHANGED <<off, out>>
    BY <1>1, <1>2, <2>2, DropStep DEF ReadLine, device
  <2> QED BY <1>2, <2>1, <2>2 DEF ReadLine
<1>3. CASE LoseAnswer
  BY <1>1, <1>3, DropStep DEF LoseAnswer, sender, device
<1>4. CASE Start \/ SendUnit \/ SenderTimeout \/ Kill
  BY <1>1, <1>4, StartStep, SendStep, GiveUpStep
<1>5. CASE ParseUnit \/ ReadCrc \/ MarkUpdate \/ FlashFails \/ Reply
  BY <1>1, <1>5, ParseStep, CrcStep, MarkSteps, ReplyStep
<1>6. CASE \/ ReadLength \/ ReadChunk \/ ProgramChunk \/ DeviceTimeout \/ FirstTick
           \/ LoseUnit \/ PowerCut \/ Stall \/ Resume \/ UNCHANGED vars
  BY <1>1, <1>6, PlainSteps
<1> QED BY <1>2, <1>3, <1>4, <1>5, <1>6 DEF Next, Link, Run

\* A run of the script that ends well has got its image marked, whatever bytes, answers,
\* power, flash or patience fail in whatever order, for images and buffers of any size:
\* given that a terminal opened anew holds no answers, and that of the runs before it at
\* most one had left anything under way (uart-fw-update.sh:37-48, fw_update.rs:148-180).
THEOREM SuccessIsTheImages ==
  ASSUME KeepsAnswers = FALSE
  PROVE  Spec => []SuccessMeansMarked
<1>1. Init => RunsInv
  BY RunsInit
<1>2. RunsInv /\ [Next]_vars => RunsInv'
  BY RunsNext
<1>3. RunsInv => SuccessMeansMarked
  BY DEF RunsInv, AnswersInv, Concluding, SuccessMeansMarked
<1> QED BY <1>1, <1>2, <1>3, PTL DEF Spec
=============================================================================
