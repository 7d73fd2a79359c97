------------------------- MODULE DirectFlashProofs -------------------------
(***************************************************************************)
(* What a driver call changes, proved for every geometry of the chip and   *)
(* every request.  The properties speak of the bytes; they hold because an *)
(* operation keeps to its range (InRange) and an erase to its sectors.     *)
(***************************************************************************)
EXTENDS DirectFlash, TLAPS

-----------------------------------------------------------------------------
(* Arithmetic of sectors and pages                                         *)

\* Two sector boundaries are at least a sector apart.
LEMMA NextBoundary ==
  ASSUME NEW s \in Nat \ {0}, NEW a \in Nat, NEW b \in Nat, a % s = 0, b % s = 0, a < b
  PROVE  a + s <= b /\ (a + s) % s = 0
<1> DEFINE i == a \div s
           j == b \div s
<1>1. i \in Nat /\ j \in Nat /\ a = s * i /\ b = s * j
  OBVIOUS
<1> HIDE DEF i, j
<1>2. i < j
  <2>1. ASSUME j <= i PROVE FALSE
    <3>1. s * j <= s * i
      BY <1>1, <2>1
    <3> QED BY <1>1, <3>1
  <2> QED BY <1>1, <2>1
<1>3. s * (i + 1) <= s * j
  BY <1>1, <1>2
<1>4. a + s = s * (i + 1)
  BY <1>1
<1>5. (s * (i + 1)) % s = 0
  BY <1>1
<1> QED BY <1>1, <1>3, <1>4, <1>5

\* The whole pages of a range end within it.
LEMMA WholePages ==
  ASSUME NEW p \in Nat \ {0}, NEW n \in Nat
  PROVE  (n \div p) * p \in 0 .. n
OBVIOUS

\* An address lies in the page that begins at its page boundary.
LEMMA PageBase ==
  ASSUME NEW p \in Nat \ {0}, NEW a \in Nat
  PROVE  a - (a % p) \in Nat /\ a - (a % p) <= a /\ a < a - (a % p) + p
OBVIOUS

\* A range that grows at its end.
LEMMA Grown ==
  ASSUME NEW f \in Nat, NEW p \in Nat, NEW q \in Nat, NEW a \in Nat, f <= p, p <= q
  PROVE  /\ a \in p .. q - 1 => a \notin f .. p - 1 /\ a \in f .. q - 1
         /\ a \notin p .. q - 1 => (a \in f .. q - 1 <=> a \in f .. p - 1)
OBVIOUS

-----------------------------------------------------------------------------
(* Types and ranges                                                        *)

LEMMA Sizes ==
  /\ SIZE \in Nat /\ U32 \in Nat /\ SIZE < U32
  /\ PAGE_SIZE \in Nat \ {0} /\ SECTOR_SIZE \in Nat \ {0}
BY GeometryAssumption

\* An operation keeps to its range, and an erase to whole sectors.
InRange ==
  op # NoOp =>
    /\ op.from \in Nat /\ op.to \in Nat
    /\ op.from <= pos /\ pos <= op.to /\ op.to <= SIZE
    /\ op.kind = "erase" => Aligned(pos) /\ Aligned(op.to)
    /\ op.kind = "write" => Len(op.data) = op.to - op.from

\* What the windows have done to the flash so far.
Effects == WritesExactly /\ ErasesExactly

IInv == TypeOK /\ InRange /\ Effects

\* An operation is an erase or a write, never both and never idle.
LEMMA Kinds ==
  ASSUME TypeOK, op # NoOp
  PROVE  op.kind \in {"erase", "write"}
BY DEF TypeOK

LEMMA Bytes == Erased \in Byte /\ \A x, y \in Byte : Programmed(x, y) \in Byte /\ Programmed(x, x) = x
BY DEF Erased, Byte, Programmed

LEMMA InitInv == Init => IInv
<1> SUFFICES ASSUME Init PROVE IInv
  OBVIOUS
<1> USE DEF Init
<1>1. TypeOK
  BY Bytes, Sizes DEF TypeOK
<1>2. InRange
  BY DEF InRange
<1>3. Effects
  BY DEF Effects, WritesExactly, ErasesExactly, NoOp
<1> QED BY <1>1, <1>2, <1>3 DEF IInv

\* A request is refused or begins at the first byte of its range.
LEMMA EraseBegins ==
  ASSUME IInv, NEW from \in Word, NEW to \in Word, Erase(from, to)
  PROVE  IInv'
<1> USE Sizes DEF IInv
<1>1. CASE UNCHANGED <<flash, before, op, pos>>
  <2>1. answer' \in {"Ok", "NotAligned", "OutOfBounds"}
    BY <1>1 DEF Erase, Refuse, Begin, TypeOK
  <2> QED BY <1>1, <2>1 DEF TypeOK, InRange, Effects, WritesExactly, ErasesExactly, Requested
<1>2. CASE ~UNCHANGED <<flash, before, op, pos>>
  <2>1. /\ Aligned(from) /\ Aligned(to) /\ from <= to /\ to <= SIZE
        /\ Begin("erase", from, to, <<>>)
    BY <1>2 DEF Erase, Refuse, Word
  <2>2. TypeOK'
    BY <2>1 DEF TypeOK, Begin, Word
  <2>3. InRange'
    BY <2>1 DEF InRange, Begin, Word, Aligned
  <2>4. Effects'
    BY <2>1 DEF Effects, WritesExactly, ErasesExactly, Begin, TypeOK, Word, Address
  <2> QED BY <2>2, <2>3, <2>4
<1> QED BY <1>1, <1>2

LEMMA WriteBegins ==
  ASSUME IInv, NEW offset \in Word, NEW n \in 0 .. MaxLen, NEW bytes \in [1 .. n -> Byte],
         Write(offset, bytes)
  PROVE  IInv'
<1> USE Sizes, BoundsAssumption DEF IInv
<1>0. bytes \in Seq(Byte) /\ Len(bytes) = n /\ n \in Nat
  OBVIOUS
<1>1. CASE UNCHANGED <<flash, before, op, pos>>
  <2>1. answer' \in {"Ok", "NotAligned", "OutOfBounds"}
    BY <1>1 DEF Write, Refuse, Begin, TypeOK
  <2> QED BY <1>1, <2>1 DEF TypeOK, InRange, Effects, WritesExactly, ErasesExactly, Requested
<1>2. CASE ~UNCHANGED <<flash, before, op, pos>>
  <2>1. offset + n <= SIZE /\ Begin("write", offset, offset + n, bytes)
    BY <1>0, <1>2 DEF Write, Refuse, InBounds
  <2>2. TypeOK'
    <3>1. op'.kind = "write" /\ op'.from \in Word /\ op'.to \in Word /\ op'.data \in Seq(Byte)
      BY <1>0, <2>1 DEF Begin, Word
    <3>2. pos' \in 0 .. SIZE
      BY <1>0, <2>1 DEF Begin, Word
    <3> QED BY <2>1, <3>1, <3>2 DEF TypeOK, Begin
  <2>3. InRange'
    <3>1. /\ op'.kind = "write" /\ op'.from = offset /\ op'.to = offset + n /\ op'.data = bytes
          /\ pos' = offset
      BY <2>1 DEF Begin
    <3>2. Len(op'.data) = op'.to - op'.from
      BY <1>0, <3>1 DEF Word
    <3> QED BY <1>0, <2>1, <3>1, <3>2 DEF InRange, Word
  <2>4. Effects'
    BY <2>1 DEF Effects, WritesExactly, ErasesExactly, Begin, TypeOK, Word, Address
  <2> QED BY <2>2, <2>3, <2>4
<1> QED BY <1>1, <1>2

\* One sector erased.
LEMMA SectorErased ==
  ASSUME IInv, EraseSector
  PROVE  IInv'
<1> USE Sizes DEF IInv
<1>1. op # NoOp /\ op.kind = "erase"
  BY DEF EraseSector, NoOp
<1>2. pos + SECTOR_SIZE <= op.to /\ (pos + SECTOR_SIZE) % SECTOR_SIZE = 0 /\ pos \in Nat
  <2>1. /\ pos \in Nat /\ op.to \in Nat /\ pos < op.to
        /\ pos % SECTOR_SIZE = 0 /\ op.to % SECTOR_SIZE = 0
    BY <1>1 DEF EraseSector, InRange, Aligned, TypeOK
  <2> QED BY <2>1, NextBoundary
<1>3. TypeOK'
  <2>1. pos' \in 0 .. SIZE
    BY <1>1, <1>2 DEF EraseSector, InRange
  <2>2. flash' \in [Address -> Byte]
    BY Bytes DEF EraseSector, Blank, TypeOK
  <2> QED BY <2>1, <2>2 DEF EraseSector, TypeOK
<1>4. InRange'
  <2>1. op' = op /\ pos' = pos + SECTOR_SIZE
    BY DEF EraseSector
  <2>2. /\ op.from \in Nat /\ op.to \in Nat /\ op.from <= pos /\ op.to <= SIZE
        /\ op.to % SECTOR_SIZE = 0
    BY <1>1 DEF InRange, Aligned
  <2>3. op.from <= pos'
    BY <1>2, <2>1, <2>2
  <2> QED BY <1>1, <1>2, <2>1, <2>2, <2>3 DEF InRange, Aligned
<1>5. Effects'
  <2>1. /\ op' = op /\ before' = before /\ op.kind = "erase" /\ pos' = pos + SECTOR_SIZE
        /\ flash' = [a \in Address |-> IF a \in pos .. pos + SECTOR_SIZE - 1 THEN Erased ELSE flash[a]]
    BY DEF EraseSector, Blank
  <2>2. \A a \in Address : flash[a] = IF a \in op.from .. pos - 1 THEN Erased ELSE before[a]
    BY <2>1 DEF Effects, ErasesExactly
  <2>3. op.from \in Nat /\ pos \in Nat /\ op.from <= pos
    BY <1>1, <1>2 DEF InRange
  <2>4. ASSUME NEW a \in Address
        PROVE  flash'[a] = IF a \in op.from .. pos' - 1 THEN Erased ELSE before[a]
    <3>1. a \in Nat
      BY DEF Address
    <3>2. flash'[a] = IF a \in pos .. pos + SECTOR_SIZE - 1 THEN Erased ELSE flash[a]
      BY <2>1
    <3>3. flash[a] = IF a \in op.from .. pos - 1 THEN Erased ELSE before[a]
      BY <2>2
    <3>4. a \in op.from .. pos' - 1
            <=> a \in op.from .. pos - 1 \/ a \in pos .. pos + SECTOR_SIZE - 1
      BY <2>1, <2>3, <3>1
    <3> QED BY <3>2, <3>3, <3>4
  <2>5. ErasesExactly' /\ WritesExactly'
    BY <2>1, <2>4 DEF ErasesExactly, WritesExactly
  <2> QED BY <2>5 DEF Effects
<1> QED BY <1>3, <1>4, <1>5

\* The bytes from pos up to its next value are programmed, the others unchanged.
ProgrammedUpTo ==
  /\ op.kind = "write" /\ UNCHANGED <<before, op, answer>>
  /\ pos' \in Nat /\ pos <= pos' /\ pos' <= op.to
  /\ flash' \in [Address -> Byte]
  /\ \A a \in Address :
       flash'[a] = IF a \in pos .. pos' - 1 THEN Programmed(flash[a], Requested(a)) ELSE flash[a]

LEMMA BytesProgrammed ==
  ASSUME IInv, ProgrammedUpTo
  PROVE  IInv'
<1> USE DEF IInv
<1>1. op # NoOp /\ op' = op
  BY DEF NoOp, ProgrammedUpTo
<1>2. TypeOK' /\ InRange'
  BY <1>1, Sizes DEF TypeOK, InRange, ProgrammedUpTo
<1>3. ErasesExactly'
  BY DEF ErasesExactly, ProgrammedUpTo
<1>4. WritesExactly'
  <2> SUFFICES ASSUME NEW a \in Address
               PROVE  flash'[a] = IF a \in op.from .. pos' - 1 THEN Programmed(before[a], Requested(a))
                                                               ELSE before[a]
    BY <1>1 DEF WritesExactly, Requested, ProgrammedUpTo
  <2>1. flash[a] = IF a \in op.from .. pos - 1 THEN Programmed(before[a], Requested(a)) ELSE before[a]
    BY DEF Effects, WritesExactly, ProgrammedUpTo
  <2>2. op.from \in Nat /\ op.from <= pos /\ pos \in Nat /\ a \in Nat
    BY <1>1, Sizes DEF InRange, TypeOK, Address
  <2>3. pos' \in Nat /\ pos <= pos'
    BY DEF ProgrammedUpTo
  <2>4. /\ a \in pos .. pos' - 1 => a \notin op.from .. pos - 1 /\ a \in op.from .. pos' - 1
        /\ a \notin pos .. pos' - 1 => (a \in op.from .. pos' - 1 <=> a \in op.from .. pos - 1)
    BY <2>2, <2>3, Grown
  <2>5. flash'[a] = IF a \in pos .. pos' - 1 THEN Programmed(flash[a], Requested(a)) ELSE flash[a]
    BY DEF ProgrammedUpTo
  <2> QED BY <2>1, <2>4, <2>5
<1> QED BY <1>2, <1>3, <1>4 DEF Effects

\* A byte of the request is a byte.
LEMMA RequestedByte ==
  ASSUME TypeOK, InRange, op.kind = "write", NEW a \in op.from .. op.to - 1
  PROVE  Requested(a) \in Byte
<1>1. op # NoOp /\ op.data \in Seq(Byte) /\ op.from \in Nat /\ op.to \in Nat /\ Len(op.data) = op.to - op.from
  BY DEF TypeOK, InRange, NoOp
<1>2. a - op.from + 1 \in 1 .. Len(op.data)
  BY <1>1
<1> QED BY <1>1, <1>2 DEF Requested

LEMMA PagesProgrammed ==
  ASSUME IInv, ProgramPages
  PROVE  IInv'
<1> USE Sizes DEF IInv
<1> DEFINE span == ((op.to - pos) \div PAGE_SIZE) * PAGE_SIZE
<1>1. op # NoOp /\ op.from \in Nat /\ op.to \in Nat /\ pos \in Nat /\ op.from <= pos /\ pos <= op.to /\ op.to <= SIZE
  BY DEF ProgramPages, InRange, TypeOK, NoOp
<1>2. span \in 0 .. op.to - pos
  <2>1. op.to - pos \in Nat
    BY <1>1
  <2> QED BY <2>1, WholePages
<1>3. /\ op.kind = "write" /\ UNCHANGED <<before, op, answer>> /\ pos' = pos + span
      /\ flash' = [a \in Address |-> IF a \in pos .. pos + span - 1 THEN Programmed(flash[a], Requested(a))
                                                                    ELSE flash[a]]
  BY DEF ProgramPages, Program
<1> HIDE DEF span
<1>4. flash' \in [Address -> Byte]
  <2> SUFFICES ASSUME NEW a \in Address PROVE flash'[a] \in Byte
    BY <1>3
  <2>1. a \in pos .. pos + span - 1 => Requested(a) \in Byte
    BY <1>1, <1>2, <1>3, RequestedByte
  <2>2. flash[a] \in Byte
    BY DEF TypeOK
  <2> QED BY <1>3, <2>1, <2>2, Bytes
<1>5. pos' \in Nat /\ pos <= pos' /\ pos' <= op.to
  BY <1>1, <1>2, <1>3
<1>6. ASSUME NEW a \in Address
      PROVE  flash'[a] = IF a \in pos .. pos' - 1 THEN Programmed(flash[a], Requested(a)) ELSE flash[a]
  <2>1. pos' = pos + span
    BY <1>3
  <2>2. flash'[a] = IF a \in pos .. pos + span - 1 THEN Programmed(flash[a], Requested(a)) ELSE flash[a]
    BY <1>3
  <2> QED BY <1>1, <1>2, <2>1, <2>2
<1> QED BY <1>3, <1>4, <1>5, <1>6, BytesProgrammed DEF ProgrammedUpTo

\* The bytes of a partial page that were not asked for are programmed with what
\* they hold, which changes nothing.
LEMMA PartialPageProgrammed ==
  ASSUME IInv, ProgramPartialPage
  PROVE  IInv'
<1> USE Sizes DEF IInv
<1> DEFINE base == pos - (pos % PAGE_SIZE)
           end  == IF op.to < base + PAGE_SIZE THEN op.to ELSE base + PAGE_SIZE
<1>1. op # NoOp /\ op.from \in Nat /\ op.to \in Nat /\ pos \in Nat /\ op.from <= pos /\ pos < op.to /\ op.to <= SIZE
  BY DEF ProgramPartialPage, InRange, TypeOK, NoOp
<1>2. base \in Nat /\ base <= pos /\ pos < base + PAGE_SIZE
  BY <1>1, PageBase
<1>3. /\ op.kind = "write" /\ UNCHANGED <<before, op, answer>> /\ pos' = end
      /\ flash' = [a \in Address |-> IF a \in base .. base + PAGE_SIZE - 1
                                     THEN Programmed(flash[a], Merged(a, end)) ELSE flash[a]]
  BY DEF ProgramPartialPage, Program
<1> HIDE DEF base
<1>4. end \in Nat /\ pos <= end /\ end <= op.to /\ end <= base + PAGE_SIZE
  BY <1>1, <1>2
<1> HIDE DEF end
<1>5. ASSUME NEW a \in Address
      PROVE  /\ flash'[a] = IF a \in pos .. end - 1 THEN Programmed(flash[a], Requested(a)) ELSE flash[a]
             /\ flash'[a] \in Byte
  <2>1. flash[a] \in Byte
    BY DEF TypeOK
  <2>2. CASE a \in pos .. end - 1
    <3>1. Requested(a) \in Byte
      BY <1>1, <1>3, <1>4, <2>2, RequestedByte
    <3>2. a \in base .. base + PAGE_SIZE - 1
      BY <1>1, <1>2, <1>4, <2>2 DEF Address
    <3> QED BY <1>3, <2>1, <2>2, <3>1, <3>2, Bytes DEF Merged
  <2>3. CASE a \notin pos .. end - 1
    BY <1>3, <2>1, <2>3, Bytes DEF Merged
  <2> QED BY <2>2, <2>3
<1>6. flash' \in [Address -> Byte]
  BY <1>3, <1>5
<1> QED BY <1>1, <1>3, <1>4, <1>5, <1>6, BytesProgrammed DEF ProgrammedUpTo

\* The end of an operation, reached or forced.
LEMMA Ended ==
  ASSUME IInv, Finish \/ PowerLoss
  PROVE  IInv'
<1> USE Sizes DEF IInv
<1>1. op' = NoOp /\ pos' = 0 /\ before' = flash /\ flash' = flash /\ answer' = "Ok"
  BY DEF Finish, PowerLoss
<1>2. TypeOK'
  BY <1>1 DEF TypeOK
<1>3. InRange' /\ Effects'
  BY <1>1 DEF InRange, Effects, WritesExactly, ErasesExactly, NoOp
<1> QED BY <1>2, <1>3

LEMMA Invariance == Spec => []IInv
<1>1. Init => IInv
  BY InitInv
<1>2. IInv /\ [Next]_vars => IInv'
  <2> SUFFICES ASSUME IInv, [Next]_vars PROVE IInv'
    OBVIOUS
  <2>1. CASE UNCHANGED vars
    BY <2>1 DEF vars, IInv, TypeOK, InRange, Effects, WritesExactly, ErasesExactly, Requested
  <2> QED BY <2>1, EraseBegins, WriteBegins, SectorErased, PagesProgrammed, PartialPageProgrammed,
             Ended DEF Next
<1> QED BY <1>1, <1>2, PTL DEF Spec

-----------------------------------------------------------------------------
(* Theorems                                                                *)

\* Every value stays within its type.
THEOREM TypeCorrect == Spec => []TypeOK
<1>1. IInv => TypeOK
  BY DEF IInv
<1> QED BY <1>1, Invariance, PTL

\* The driver never leaves the chip: no operation passes the end of its range, and no
\* sum of an offset and a length is too large to be refused.
THEOREM ChipIsNotLeft == Spec => []StaysOnChip
<1>1. IInv => StaysOnChip
  BY DEF IInv, InRange, StaysOnChip
<1> QED BY <1>1, Invariance, PTL

\* Unaligned, page-crossing and interrupted writes change what they were asked to,
\* up to the position reached, and not one byte more.
THEOREM WritesAreExact == Spec => []WritesExactly
<1>1. IInv => WritesExactly
  BY DEF IInv, Effects
<1> QED BY <1>1, Invariance, PTL

\* Erases clear whole sectors of their range, in order, and nothing else.
THEOREM ErasesAreExact == Spec => []ErasesExactly
<1>1. IInv => ErasesExactly
  BY DEF IInv, Effects
<1> QED BY <1>1, Invariance, PTL
=============================================================================
