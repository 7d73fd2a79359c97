----------------------------- MODULE DirectFlash -----------------------------
(***************************************************************************)
(* src/direct_flash.rs, used unchanged by the application and by the       *)
(* bootloader: NOR flash erased by sectors and programmed by whole pages   *)
(* under an interface of single bytes.  An operation is a sequence of      *)
(* XIP-off windows with interrupts masked; power may fail between any two. *)
(***************************************************************************)
EXTENDS Integers, Sequences

CONSTANTS
  Bits,         \* bit positions of a byte
  PAGE_SIZE,    \* 256 in the firmware
  SECTOR_SIZE,  \* 4096
  SIZE,         \* bytes of the flash chip: 2 MiB
  U32,          \* how many values an address word has: 2^32
  MaxLen        \* bound: the longest write of a run

INSTANCE NorFlash

ASSUME GeometryAssumption ==
  /\ PAGE_SIZE \in Nat \ {0} /\ SECTOR_SIZE \in Nat \ {0} /\ SIZE \in Nat /\ U32 \in Nat
  /\ SECTOR_SIZE % PAGE_SIZE = 0 /\ SIZE % SECTOR_SIZE = 0 /\ SIZE < U32
ASSUME BoundsAssumption == MaxLen \in Nat

VARIABLES
  flash,   \* the bytes of the chip
  before,  \* history: those bytes when the operation began
  op,      \* the operation under way
  pos,     \* the address it has reached
  answer   \* the result of the last operation

vars == <<flash, before, op, pos, answer>>

Address == 0 .. SIZE - 1
Word == 0 .. U32 - 1
NoOp == [kind |-> "none", from |-> 0, to |-> 0, data |-> <<>>]

Init ==
  /\ flash = [a \in Address |-> Erased]
  /\ before = flash
  /\ op = NoOp /\ pos = 0 /\ answer = "Ok"

-----------------------------------------------------------------------------
(* Requests and their checks                                               *)

Begin(kind, from, to, data) ==
  /\ op' = [kind |-> kind, from |-> from, to |-> to, data |-> data]
  /\ pos' = from /\ before' = flash
  /\ UNCHANGED <<flash, answer>>

Refuse(error) == answer' = error /\ UNCHANGED <<flash, before, op, pos>>

Aligned(a) == a % SECTOR_SIZE = 0

Erase(from, to) ==
  /\ op = NoOp
  /\ IF ~Aligned(from) \/ ~Aligned(to) \/ from > to THEN Refuse("NotAligned")
     ELSE IF to > SIZE THEN Refuse("OutOfBounds")
     ELSE Begin("erase", from, to, <<>>)

\* Mutant of InBounds: the end of the range wraps around.
InBoundsWrapping(offset, len) == (offset + len) % U32 <= SIZE

\* offset.checked_add(len).is_none_or(|end| end > SIZE), negated.
InBounds(offset, len) == offset + len < U32 /\ offset + len <= SIZE

Write(offset, bytes) ==
  /\ op = NoOp
  /\ IF bytes = <<>> THEN Refuse("Ok")
     ELSE IF ~InBounds(offset, Len(bytes)) THEN Refuse("OutOfBounds")
     ELSE Begin("write", offset, offset + Len(bytes), bytes)

-----------------------------------------------------------------------------
(* The XIP-off windows                                                     *)

Blank(base, count) ==
  flash' = [a \in Address |-> IF a \in base .. base + count - 1 THEN Erased ELSE flash[a]]

\* Mutant of EraseSector: erases by blocks of two sectors.
EraseBlock ==
  /\ op.kind = "erase" /\ pos < op.to
  /\ Blank(pos, 2 * SECTOR_SIZE)
  /\ pos' = pos + SECTOR_SIZE
  /\ UNCHANGED <<before, op, answer>>

EraseSector ==
  /\ op.kind = "erase" /\ pos < op.to
  /\ Blank(pos, SECTOR_SIZE)
  /\ pos' = pos + SECTOR_SIZE
  /\ UNCHANGED <<before, op, answer>>

\* flash_range_program of `data`, a function from addresses to bytes.
Program(data) ==
  flash' = [a \in Address |-> IF a \in DOMAIN data THEN Programmed(flash[a], data[a])
                                                   ELSE flash[a]]

Requested(a) == op.data[a - op.from + 1]

\* Whole pages go out in one window, straight from the caller's buffer.
ProgramPages ==
  /\ op.kind = "write" /\ pos % PAGE_SIZE = 0 /\ op.to - pos >= PAGE_SIZE
  /\ LET span == ((op.to - pos) \div PAGE_SIZE) * PAGE_SIZE
     IN /\ Program([a \in pos .. pos + span - 1 |-> Requested(a)])
        /\ pos' = pos + span
  /\ UNCHANGED <<before, op, answer>>

\* Mutant of Merged: the page buffer starts as zeros and is not read first.
Padded(a, end) == IF a \in pos .. end - 1 THEN Requested(a) ELSE {}

\* The page as it reads, with the requested bytes laid over it.
Merged(a, end) == IF a \in pos .. end - 1 THEN Requested(a) ELSE flash[a]

\* A partial page at either end is read, merged and programmed as a whole.
ProgramPartialPage ==
  /\ op.kind = "write" /\ pos < op.to
  /\ ~(pos % PAGE_SIZE = 0 /\ op.to - pos >= PAGE_SIZE)
  /\ LET base == pos - (pos % PAGE_SIZE)
         end  == IF op.to < base + PAGE_SIZE THEN op.to ELSE base + PAGE_SIZE
     IN /\ Program([a \in base .. base + PAGE_SIZE - 1 |-> Merged(a, end)])
        /\ pos' = end
  /\ UNCHANGED <<before, op, answer>>

Finish ==
  /\ op # NoOp /\ pos >= op.to
  /\ answer' = "Ok" /\ op' = NoOp /\ pos' = 0 /\ before' = flash
  /\ UNCHANGED flash

\* Power fails between two windows.
PowerLoss ==
  /\ op # NoOp
  /\ answer' = "Ok" /\ op' = NoOp /\ pos' = 0 /\ before' = flash
  /\ UNCHANGED flash

Next ==
  \/ \E from, to \in Word : Erase(from, to)
  \/ \E offset \in Word, n \in 0 .. MaxLen : \E bytes \in [1 .. n -> Byte] : Write(offset, bytes)
  \/ EraseSector \/ ProgramPages \/ ProgramPartialPage \/ Finish \/ PowerLoss

Spec == Init /\ [][Next]_vars

-----------------------------------------------------------------------------
(* Properties                                                              *)

TypeOK ==
  /\ flash \in [Address -> Byte] /\ before \in [Address -> Byte]
  /\ op = NoOp \/ /\ op.kind \in {"erase", "write"} /\ op.from \in Word /\ op.to \in Word
                  /\ op.data \in Seq(Byte)
  /\ pos \in 0 .. SIZE
  /\ answer \in {"Ok", "NotAligned", "OutOfBounds"}

\* An operation never passes the end of its range, and no range that is begun ends
\* beyond the chip, however near to the end of the address space the request is
\* (direct_flash.rs:123, 145-150).
StaysOnChip == op # NoOp => op.from <= pos /\ pos <= op.to /\ op.to <= SIZE

\* At every window of a write the bytes up to the position reached are the old
\* ones ANDed with the requested ones, and all others, those that share a page
\* with them included, are untouched (direct_flash.rs:151-155).  An interrupted
\* write has thus written a prefix of its bytes.
WritesExactly ==
  op.kind = "write" =>
    \A a \in Address :
      flash[a] = IF a \in op.from .. pos - 1 THEN Programmed(before[a], Requested(a)) ELSE before[a]

\* An erase clears its sectors in ascending order and nothing else.
ErasesExactly ==
  op.kind = "erase" =>
    \A a \in Address : flash[a] = IF a \in op.from .. pos - 1 THEN Erased ELSE before[a]

=============================================================================
