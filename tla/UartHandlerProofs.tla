------------------------- MODULE UartHandlerProofs -------------------------
(***************************************************************************)
(* No byte is used twice or out of order, and every command sent whole is  *)
(* returned, proved for lines, rings and FIFOs of any size, any chunking   *)
(* and any interleaving of interrupt, loop and sender.  Lines, ring and    *)
(* FIFO are cut and joined at their ends; the first section says what that *)
(* does to the order of their bytes.                                       *)
(***************************************************************************)
EXTENDS UartHandler, FiniteSetTheorems, TLAPS

-----------------------------------------------------------------------------
(* Ascending sequences of positions                                        *)

\* What is known of a sequence and the set of its values.
Positions(s) ==
  /\ DOMAIN s = 1 .. Len(s)
  /\ \A i \in 1 .. Len(s) : s[i] \in Range(s)
  /\ \A x \in Range(s) : \E i \in 1 .. Len(s) : x = s[i]

LEMMA PositionsOf ==
  ASSUME NEW s \in Seq(Nat)
  PROVE  Positions(s) /\ Range(s) \subseteq Nat
BY DEF Range, Positions

\* Part(t, s, k): t is what s holds from position k + 1 on.
Part(t, s, k) == \A i \in 1 .. Len(t) : i + k \in 1 .. Len(s) /\ t[i] = s[i + k]

\* A part of an ascending sequence ascends.
LEMMA PartAscends ==
  ASSUME NEW s \in Seq(Nat), NEW t \in Seq(Nat), NEW k \in Nat, Ascending(s), Part(t, s, k)
  PROVE  Ascending(t) /\ Range(t) \subseteq Range(s)
<1>1. Positions(s) /\ Positions(t)
  BY PositionsOf
<1>2. Ascending(t)
  <2> SUFFICES ASSUME NEW i \in 1 .. Len(t), NEW j \in 1 .. Len(t), i < j PROVE t[i] < t[j]
    BY <1>1 DEF Ascending, Positions
  <2>1. i + k \in 1 .. Len(s) /\ j + k \in 1 .. Len(s) /\ t[i] = s[i + k] /\ t[j] = s[j + k]
    BY DEF Part
  <2>2. i + k < j + k
    OBVIOUS
  <2> QED BY <1>1, <2>1, <2>2 DEF Ascending, Positions
<1>3. Range(t) \subseteq Range(s)
  <2> SUFFICES ASSUME NEW x \in Range(t) PROVE x \in Range(s)
    OBVIOUS
  <2>1. PICK i \in 1 .. Len(t) : x = t[i]
    BY <1>1 DEF Positions
  <2>2. i + k \in 1 .. Len(s) /\ x = s[i + k]
    BY <2>1 DEF Part
  <2> QED BY <1>1, <2>2 DEF Positions
<1> QED BY <1>2, <1>3

Split(s, n, a, b) == a = SubSeq(s, 1, n) /\ b = SubSeq(s, n + 1, Len(s))

\* Cut in two, an ascending sequence gives two, the one before the other.
LEMMA Cut ==
  ASSUME NEW s \in Seq(Nat), Ascending(s), NEW n \in 1 .. Len(s), NEW a, NEW b, Split(s, n, a, b)
  PROVE  /\ a \in Seq(Nat) /\ Ascending(a) /\ Len(a) = n /\ Range(a) \subseteq Range(s)
         /\ b \in Seq(Nat) /\ Ascending(b) /\ Len(b) <= Len(s) /\ Range(b) \subseteq Range(s)
         /\ Precede(Range(a), Range(b))
<1>1. a \in Seq(Nat) /\ b \in Seq(Nat) /\ Len(a) = n /\ Len(b) = Len(s) - n
  BY DEF Split
<1>2. Part(a, s, 0) /\ Part(b, s, n)
  BY DEF Part, Split
<1>3. /\ Ascending(a) /\ Range(a) \subseteq Range(s)
      /\ Ascending(b) /\ Range(b) \subseteq Range(s)
  <2>1. 0 \in Nat /\ n \in Nat
    OBVIOUS
  <2>2. Ascending(a) /\ Range(a) \subseteq Range(s)
    BY <1>1, <1>2, <2>1, PartAscends
  <2>3. Ascending(b) /\ Range(b) \subseteq Range(s)
    BY <1>1, <1>2, <2>1, PartAscends
  <2> QED BY <2>2, <2>3
<1>4. Precede(Range(a), Range(b))
  <2> SUFFICES ASSUME NEW x \in Range(a), NEW y \in Range(b) PROVE x < y
    BY DEF Precede
  <2>1. Positions(s) /\ Positions(a) /\ Positions(b)
    BY <1>1, PositionsOf
  <2>2. PICK i \in 1 .. Len(a) : x = a[i]
    BY <2>1 DEF Positions
  <2>3. PICK j \in 1 .. Len(b) : y = b[j]
    BY <2>1 DEF Positions
  <2>4. i \in 1 .. Len(s) /\ x = s[i]
    BY <1>1, <1>2, <2>2 DEF Part
  <2>5. j + n \in 1 .. Len(s) /\ y = s[j + n]
    BY <1>1, <1>2, <2>3 DEF Part
  <2>6. i < j + n
    BY <1>1
  <2> QED BY <2>1, <2>4, <2>5, <2>6 DEF Ascending, Positions
<1> QED BY <1>1, <1>3, <1>4

\* The first byte is taken off.
LEMMA Pop ==
  ASSUME NEW s \in Seq(Nat), s # <<>>, Ascending(s)
  PROVE  /\ Tail(s) \in Seq(Nat) /\ Len(Tail(s)) < Len(s)
         /\ Ascending(Tail(s))
         /\ Range(Tail(s)) \subseteq Range(s) /\ Head(s) \in Range(s) /\ Head(s) \in Nat
         /\ Precede({Head(s)}, Range(Tail(s)))
<1>1. Tail(s) \in Seq(Nat) /\ Len(Tail(s)) = Len(s) - 1 /\ Len(s) > 0 /\ Head(s) = s[1]
  OBVIOUS
<1>2. Part(Tail(s), s, 1)
  BY DEF Part
<1>3. Ascending(Tail(s)) /\ Range(Tail(s)) \subseteq Range(s)
  <2>1. 1 \in Nat
    OBVIOUS
  <2> QED BY <1>1, <1>2, <2>1, PartAscends
<1>4. Positions(s) /\ Positions(Tail(s)) /\ Range(s) \subseteq Nat
  BY <1>1, PositionsOf
<1>5. 1 \in 1 .. Len(s)
  BY <1>1
<1>6. Head(s) \in Range(s) /\ Head(s) \in Nat
  BY <1>1, <1>4, <1>5 DEF Positions
<1>7. Precede({Head(s)}, Range(Tail(s)))
  <2> SUFFICES ASSUME NEW y \in Range(Tail(s)) PROVE s[1] < y
    BY <1>1 DEF Precede
  <2>1. PICK j \in 1 .. Len(Tail(s)) : y = Tail(s)[j]
    BY <1>4 DEF Positions
  <2>2. j + 1 \in 1 .. Len(s) /\ y = s[j + 1]
    BY <1>2, <2>1 DEF Part
  <2>3. 1 < j + 1
    OBVIOUS
  <2> QED BY <1>4, <1>5, <2>2, <2>3 DEF Ascending, Positions
<1> QED BY <1>1, <1>3, <1>6, <1>7

\* Joined, two ascending sequences ascend if the one precedes the other.
LEMMA Join ==
  ASSUME NEW s \in Seq(Nat), NEW t \in Seq(Nat), Ascending(s), Ascending(t), Precede(Range(s), Range(t)),
         NEW u, u = s \o t
  PROVE  /\ u \in Seq(Nat) /\ Len(u) = Len(s) + Len(t)
         /\ Ascending(u)
         /\ Range(u) = Range(s) \cup Range(t)
<1>1. u \in Seq(Nat) /\ Len(u) = Len(s) + Len(t)
  OBVIOUS
<1>2. Part(s, u, 0) /\ Part(t, u, Len(s))
  <2>1. \A i \in 1 .. Len(s) : i + 0 \in 1 .. Len(u) /\ s[i] = u[i + 0]
    BY <1>1
  <2>2. \A i \in 1 .. Len(t) : i + Len(s) \in 1 .. Len(u) /\ t[i] = u[i + Len(s)]
    BY <1>1
  <2> QED BY <2>1, <2>2 DEF Part
<1>3. Positions(s) /\ Positions(t) /\ Positions(u)
  BY <1>1, PositionsOf
<1>4. ASSUME NEW i \in 1 .. Len(u)
      PROVE  \/ i \in 1 .. Len(s) /\ u[i] = s[i]
             \/ i - Len(s) \in 1 .. Len(t) /\ u[i] = t[i - Len(s)]
  <2>1. i <= Len(s) \/ i > Len(s)
    OBVIOUS
  <2> QED BY <1>1, <2>1
<1>5. Range(u) \subseteq Range(s) \cup Range(t)
  BY <1>3, <1>4 DEF Positions
<1>6. Range(s) \subseteq Range(u)
  <2> SUFFICES ASSUME NEW x \in Range(s) PROVE x \in Range(u)
    OBVIOUS
  <2>1. PICK i \in 1 .. Len(s) : x = s[i]
    BY <1>3 DEF Positions
  <2>2. i \in 1 .. Len(u) /\ x = u[i]
    BY <1>2, <2>1 DEF Part
  <2> QED BY <1>3, <2>2 DEF Positions
<1>7. Range(t) \subseteq Range(u)
  <2> SUFFICES ASSUME NEW x \in Range(t) PROVE x \in Range(u)
    OBVIOUS
  <2>1. PICK i \in 1 .. Len(t) : x = t[i]
    BY <1>3 DEF Positions
  <2>2. i + Len(s) \in 1 .. Len(u) /\ x = u[i + Len(s)]
    BY <1>2, <2>1 DEF Part
  <2> QED BY <1>3, <2>2 DEF Positions
<1>8. Ascending(u)
  <2> SUFFICES ASSUME NEW i \in 1 .. Len(u), NEW j \in 1 .. Len(u), i < j PROVE u[i] < u[j]
    BY <1>3 DEF Ascending, Positions
  <2>1. CASE j \in 1 .. Len(s) /\ u[j] = s[j]
    <3>1. i \in 1 .. Len(s) /\ u[i] = s[i]
      BY <1>1, <1>4, <2>1
    <3> QED BY <1>3, <2>1, <3>1 DEF Ascending, Positions
  <2>2. CASE i - Len(s) \in 1 .. Len(t) /\ u[i] = t[i - Len(s)]
    <3>1. j - Len(s) \in 1 .. Len(t) /\ u[j] = t[j - Len(s)]
      BY <1>1, <1>4, <2>2
    <3>2. i - Len(s) < j - Len(s)
      BY <1>1
    <3>3. \A k, m \in 1 .. Len(t) : k < m => t[k] < t[m]
      BY <1>3 DEF Ascending, Positions
    <3>4. t[i - Len(s)] < t[j - Len(s)]
      BY <2>2, <3>1, <3>2, <3>3
    <3> QED BY <2>2, <3>1, <3>4
  <2>3. CASE i \in 1 .. Len(s) /\ u[i] = s[i] /\ j - Len(s) \in 1 .. Len(t) /\ u[j] = t[j - Len(s)]
    BY <1>3, <2>3 DEF Precede, Positions
  <2> QED BY <1>4, <2>1, <2>2, <2>3
<1> QED BY <1>1, <1>5, <1>6, <1>7, <1>8

\* A byte that comes after all of them is appended.
LEMMA Push ==
  ASSUME NEW s \in Seq(Nat), NEW e \in Nat, Ascending(s), Precede(Range(s), {e})
  PROVE  /\ Append(s, e) \in Seq(Nat) /\ Len(Append(s, e)) = Len(s) + 1
         /\ Ascending(Append(s, e))
         /\ Range(Append(s, e)) = Range(s) \cup {e}
<1> DEFINE t == <<e>>
           u == Append(s, e)
<1>1. u = s \o t /\ t \in Seq(Nat) /\ Len(t) = 1
  OBVIOUS
<1>2. Range(t) = {e} /\ Ascending(t)
  BY DEF Range, Ascending
<1> HIDE DEF t, u
<1>3. Precede(Range(s), Range(t))
  BY <1>2
<1>4. u \in Seq(Nat) /\ Len(u) = Len(s) + Len(t) /\ Ascending(u) /\ Range(u) = Range(s) \cup Range(t)
  BY <1>1, <1>2, <1>3, Join
<1> QED BY <1>1, <1>2, <1>4 DEF u

\* Sets of positions of which one precedes the other have none in common.
LEMMA Apart ==
  ASSUME NEW S \in SUBSET Nat, NEW T \in SUBSET Nat, Precede(S, T)
  PROVE  S \cap T = {}
BY DEF Precede

-----------------------------------------------------------------------------
(* The invariant                                                           *)

\* The queues hold positions, and the lines returned hold bytes that were sent.
Shapes ==
  /\ sent \in Seq(Bytes)
  /\ line \in Seq(Nat) /\ ring \in Seq(Nat) /\ fifo \in Seq(Nat)
  /\ heard \in Seq([cmd : Words \cup {Unknown}, bytes : Seq(Nat)])
  /\ Returned \subseteq DOMAIN sent

\* The part of UsedOnceInOrder that is about lines returned ...
OlderBytes ==
  /\ \A h \in Range(heard) : Ascending(h.bytes)
  /\ \A m, n \in DOMAIN heard : m < n => Precede(Range(heard[m].bytes), Range(heard[n].bytes))

\* ... and the part about the places a byte passes before that.
Ordered(H, L, R, F, gone) ==
  /\ Precede(H, L) /\ Precede(H, R) /\ Precede(H, F)
  /\ Precede(L, R) /\ Precede(L, F) /\ Precede(R, F)
  /\ \A x \in gone : x \notin H /\ x \notin L /\ x \notin R /\ x \notin F

NewerBytes ==
  /\ Ascending(line) /\ Ascending(ring) /\ Ascending(fifo)
  /\ Ordered(Returned, Range(line), Range(ring), Range(fifo), raw \cup lost)

IInv == TypeOK /\ Shapes /\ OlderBytes /\ NewerBytes

LEMMA OrderParts == UsedOnceInOrder <=> OlderBytes /\ NewerBytes
<1>1. UsedOnceInOrder => OlderBytes
  BY DEF UsedOnceInOrder, OlderBytes
<1>2. UsedOnceInOrder => NewerBytes
  BY DEF UsedOnceInOrder, NewerBytes, Ordered, Precede, Buffered
<1>3. OlderBytes /\ NewerBytes => UsedOnceInOrder
  BY DEF UsedOnceInOrder, OlderBytes, NewerBytes, Ordered, Precede, Buffered
<1> QED BY <1>1, <1>2, <1>3

LEMMA Sizes ==
  /\ RX_LINE_SIZE \in Nat /\ RX_LINE_SIZE > 1 /\ CHUNK \in Nat
  /\ RingSize \in Nat /\ FifoSize \in Nat /\ MaxRead \in Nat /\ MaxBytes \in Nat
BY SizesAssumption

\* What the steps of the loop leave alone when no line is returned.
LEMMA SameLines ==
  ASSUME Shapes, OlderBytes, UNCHANGED <<sent, heard>>
  PROVE  OlderBytes' /\ Returned' = Returned /\ heard' \in Seq([cmd : Words \cup {Unknown}, bytes : Seq(Nat)])
         /\ sent' \in Seq(Bytes) /\ Returned' \subseteq DOMAIN sent'
BY DEF Shapes, OlderBytes, Returned

LEMMA InitInv == Init => IInv
<1> SUFFICES ASSUME Init PROVE IInv
  OBVIOUS
<1> USE Sizes DEF Init
<1>1. Range(<<>>) = {}
  BY DEF Range
<1>2. TypeOK
  <2>1. Len(<<>>) = 0 /\ want \in 0 .. MaxRead /\ ~(want > 0) /\ task # "read"
    OBVIOUS
  <2>2. Len(sent) <= MaxBytes /\ Len(fifo) <= FifoSize /\ Len(ring) <= RingSize /\ Len(line) < RX_LINE_SIZE - 1
    BY <2>1
  <2> QED BY <1>1, <2>1, <2>2 DEF TypeOK, Tasks, Buffered
<1>3. Returned = {}
  BY <1>1 DEF Returned
<1>4. Shapes
  BY <1>3 DEF Shapes
<1>5. OlderBytes
  BY <1>1 DEF OlderBytes
<1>6. NewerBytes
  BY <1>1, <1>3 DEF NewerBytes, Ordered, Precede, Ascending
<1> QED BY <1>2, <1>4, <1>5, <1>6 DEF IInv

-----------------------------------------------------------------------------
(* The steps                                                               *)

\* A step of the loop that moves no byte.
LEMMA ControlStep ==
  ASSUME IInv, UNCHANGED <<sent, fifo, ring, line, heard, raw, lost>>,
         task' \in Tasks, confirmed' \in BOOLEAN, want' \in 0 .. MaxRead, want' > 0 <=> task' = "read"
  PROVE  IInv'
<1>1. TypeOK'
  BY DEF IInv, TypeOK, Buffered
<1>2. OlderBytes' /\ Shapes' /\ Returned' = Returned
  BY SameLines DEF IInv, Shapes
<1>3. NewerBytes'
  BY <1>2 DEF IInv, NewerBytes
<1> QED BY <1>1, <1>2, <1>3 DEF IInv

LEMMA LoopSteps ==
  ASSUME IInv, Tick \/ BusyDone \/ FlashDone \/ EndSession \/ ReadTimeout
  PROVE  IInv'
<1>1. 0 \in 0 .. MaxRead /\ ~(0 > 0)
  BY Sizes
<1>2. /\ task \in Tasks /\ confirmed \in BOOLEAN /\ want \in 0 .. MaxRead /\ (want > 0 <=> task = "read")
  BY DEF IInv, TypeOK
<1>3. CASE Tick
  BY <1>2, <1>3, ControlStep DEF Tick, Tasks
<1>4. CASE BusyDone
  BY <1>2, <1>4, ControlStep DEF BusyDone, Tasks
<1>5. CASE FlashDone
  BY <1>2, <1>5, ControlStep DEF FlashDone, Masked, Tasks
<1>6. CASE EndSession
  BY <1>2, <1>6, ControlStep DEF EndSession, Tasks
<1>7. CASE ReadTimeout
  BY <1>1, <1>2, <1>7, ControlStep DEF ReadTimeout, Tasks
<1> QED BY <1>3, <1>4, <1>5, <1>6, <1>7

\* The positions in the queues are those of bytes sent.
LEMMA Sent ==
  ASSUME IInv
  PROVE  /\ Len(sent) \in Nat /\ DOMAIN sent = 1 .. Len(sent)
         /\ Range(fifo) \subseteq DOMAIN sent /\ Range(ring) \subseteq DOMAIN sent
         /\ Range(line) \subseteq DOMAIN sent /\ Returned \subseteq DOMAIN sent
         /\ raw \subseteq DOMAIN sent /\ lost \subseteq DOMAIN sent
<1>1. Len(sent) \in Nat /\ DOMAIN sent = 1 .. Len(sent)
  BY DEF IInv, Shapes
<1>2. Buffered \cup Range(line) \cup raw \cup lost \subseteq DOMAIN sent /\ Returned \subseteq DOMAIN sent
  BY DEF IInv, Shapes, TypeOK
<1> QED BY <1>1, <1>2 DEF Buffered

\* A byte that arrives is later than all others.
LEMMA ReceiveStep ==
  ASSUME IInv, NEW b \in Bytes, Receive(b)
  PROVE  IInv'
<1> DEFINE e == Len(sent) + 1
<1>1. Len(sent) \in Nat /\ sent \in Seq(Bytes) /\ sent' = Append(sent, b)
  BY DEF Receive, IInv, Shapes
<1>2. Len(sent') = e /\ sent' \in Seq(Bytes) /\ DOMAIN sent' = DOMAIN sent \cup {e} /\ e \in Nat
  BY <1>1
<1>3. \A x \in DOMAIN sent : x < e /\ x # e
  BY <1>1
<1>4. UNCHANGED <<ring, line, task, want, confirmed, heard, raw>>
  BY DEF Receive
<1>5. \/ fifo' = Append(fifo, e) /\ Len(fifo) < FifoSize /\ UNCHANGED lost
      \/ lost' = lost \cup {e} /\ UNCHANGED fifo
  BY <1>2 DEF Receive
<1>6. Len(sent') <= MaxBytes
  BY <1>1, <1>2, Sizes DEF Receive
<1> HIDE DEF e
<1>7. OlderBytes' /\ Returned' = Returned
  BY <1>4 DEF IInv, OlderBytes, Returned
<1>8. /\ fifo' \in Seq(Nat) /\ Ascending(fifo') /\ Len(fifo') <= FifoSize
      /\ \/ Range(fifo') = Range(fifo) \cup {e} /\ lost' = lost
         \/ Range(fifo') = Range(fifo) /\ lost' = lost \cup {e}
  <2>1. fifo \in Seq(Nat) /\ Ascending(fifo) /\ Len(fifo) <= FifoSize /\ Len(fifo) \in Nat
    BY DEF IInv, Shapes, NewerBytes, TypeOK
  <2>2. Precede(Range(fifo), {e})
    BY <1>3, Sent DEF Precede
  <2>3. CASE fifo' = Append(fifo, e) /\ Len(fifo) < FifoSize /\ UNCHANGED lost
    <3>1. /\ Append(fifo, e) \in Seq(Nat) /\ Len(Append(fifo, e)) = Len(fifo) + 1
          /\ Ascending(Append(fifo, e)) /\ Range(Append(fifo, e)) = Range(fifo) \cup {e}
      BY <1>2, <2>1, <2>2, Push
    <3>2. Len(fifo) + 1 <= FifoSize
      BY <2>1, <2>3, Sizes
    <3> QED BY <2>3, <3>1, <3>2
  <2> QED BY <1>5, <2>1, <2>3
<1>9. Shapes'
  BY <1>2, <1>4, <1>7, <1>8 DEF IInv, Shapes
<1>10. Range(sent') \subseteq Bytes
  BY <1>2 DEF Range
<1>11. TypeOK'
  <2>1. Range(fifo') \cup Range(ring') \cup Range(line') \cup raw' \cup lost' \subseteq DOMAIN sent'
    BY <1>2, <1>4, <1>8, Sent
  <2> QED BY <1>4, <1>6, <1>8, <1>10, <2>1 DEF IInv, TypeOK, Buffered
<1>12. Ordered(Returned', Range(line'), Range(ring'), Range(fifo'), raw' \cup lost')
  BY <1>3, <1>4, <1>7, <1>8, Sent DEF IInv, NewerBytes, Ordered, Precede
<1>13. NewerBytes'
  BY <1>4, <1>8, <1>12 DEF IInv, NewerBytes
<1> QED BY <1>7, <1>9, <1>11, <1>13 DEF IInv

\* The interrupt takes the oldest byte of the FIFO, which is later than the ring's.
LEMMA InterruptStep ==
  ASSUME IInv, Interrupt
  PROVE  IInv'
<1> DEFINE e == Head(fifo)
<1>1. UNCHANGED <<sent, line, task, want, confirmed, heard, raw, lost>>
  BY DEF Interrupt
<1>2. ring \in Seq(Nat) /\ fifo \in Seq(Nat) /\ fifo # <<>> /\ Ascending(fifo) /\ Ascending(ring)
  BY DEF Interrupt, IInv, Shapes, NewerBytes
<1>3. /\ fifo' \in Seq(Nat) /\ Ascending(fifo') /\ Range(fifo') \subseteq Range(fifo)
      /\ Len(fifo') < Len(fifo) /\ e \in Range(fifo) /\ e \in Nat /\ Precede({e}, Range(fifo'))
  BY <1>2, Pop DEF Interrupt
<1> HIDE DEF e
<1>4. Ordered(Returned, Range(line), Range(ring), Range(fifo), raw \cup lost)
  BY DEF IInv, NewerBytes
<1>5. Precede(Range(ring), {e})
  BY <1>3, <1>4 DEF Ordered, Precede
<1>6. /\ ring' \in Seq(Nat) /\ Ascending(ring') /\ Range(ring') = Range(ring) \cup {e}
      /\ Len(ring') = Len(ring) + 1
  <2>1. ring' = Append(ring, e)
    BY DEF Interrupt, e
  <2> QED BY <1>2, <1>3, <1>5, <2>1, Push
<1>7. Len(ring') <= RingSize /\ Len(fifo') <= FifoSize
  <2>1. Len(ring) < RingSize /\ Len(ring) \in Nat /\ Len(fifo) <= FifoSize /\ Len(fifo) \in Nat /\ Len(fifo') \in Nat
    BY <1>2, <1>3 DEF Interrupt, IInv, TypeOK
  <2> QED BY <1>3, <1>6, <2>1, Sizes
<1>8. OlderBytes' /\ Returned' = Returned /\ Shapes'
  BY <1>1, <1>3, <1>6, SameLines DEF IInv, Shapes
<1>9. TypeOK'
  BY <1>1, <1>3, <1>6, <1>7 DEF IInv, TypeOK, Buffered
<1>10. Ordered(Returned', Range(line'), Range(ring'), Range(fifo'), raw' \cup lost')
  BY <1>1, <1>3, <1>4, <1>6, <1>8 DEF Ordered, Precede
<1>11. NewerBytes'
  BY <1>1, <1>3, <1>6, <1>10 DEF IInv, NewerBytes
<1> QED BY <1>8, <1>9, <1>11 DEF IInv

-----------------------------------------------------------------------------
(* The steps that take bytes from the ring                                 *)

\* What is known once the first n bytes are taken from the ring.
LEMMA Taken ==
  ASSUME IInv, NEW n \in 1 .. Len(ring), NEW c, c = SubSeq(ring, 1, n), Consume(n)
  PROVE  /\ c \in Seq(Nat) /\ Ascending(c) /\ Len(c) = n /\ Range(c) \subseteq Range(ring)
         /\ ring' \in Seq(Nat) /\ Ascending(ring') /\ Len(ring') <= RingSize
         /\ Range(ring') \subseteq Range(ring)
         /\ Precede(Range(c), Range(ring'))
<1>1. ring \in Seq(Nat) /\ Ascending(ring) /\ Len(ring) <= RingSize
  BY DEF IInv, Shapes, NewerBytes, TypeOK
<1>2. /\ c \in Seq(Nat) /\ Ascending(c) /\ Len(c) = n /\ Range(c) \subseteq Range(ring)
      /\ ring' \in Seq(Nat) /\ Ascending(ring') /\ Len(ring') <= Len(ring)
      /\ Range(ring') \subseteq Range(ring)
      /\ Precede(Range(c), Range(ring'))
  <2>1. Split(ring, n, c, ring')
    BY DEF Split, Consume
  <2> QED BY <1>1, <2>1, Cut
<1>3. Len(ring') <= RingSize
  BY <1>1, <1>2, Sizes
<1> QED BY <1>2, <1>3

\* The line with the bytes taken: it stays between the lines returned and the
\* rest of the ring.
LEMMA Grown ==
  ASSUME IInv, NEW n \in 1 .. Len(ring), NEW c, c = SubSeq(ring, 1, n), Consume(n),
         NEW u, u = line \o c
  PROVE  /\ u \in Seq(Nat) /\ Ascending(u) /\ Len(u) = Len(line) + n
         /\ Range(u) \subseteq DOMAIN sent
         /\ Ordered(Returned, Range(u), Range(ring'), Range(fifo), raw \cup lost)
<1>1. /\ c \in Seq(Nat) /\ Ascending(c) /\ Len(c) = n /\ Range(c) \subseteq Range(ring)
      /\ Range(ring') \subseteq Range(ring) /\ Precede(Range(c), Range(ring'))
  BY Taken
<1>2. line \in Seq(Nat) /\ Ascending(line)
      /\ Ordered(Returned, Range(line), Range(ring), Range(fifo), raw \cup lost)
  BY DEF IInv, Shapes, NewerBytes
<1>3. Precede(Range(line), Range(c))
  BY <1>1, <1>2 DEF Ordered, Precede
<1>4. /\ u \in Seq(Nat) /\ Len(u) = Len(line) + n /\ Ascending(u)
      /\ Range(u) = Range(line) \cup Range(c)
  <2>1. u \in Seq(Nat) /\ Len(u) = Len(line) + Len(c) /\ Ascending(u) /\ Range(u) = Range(line) \cup Range(c)
    BY <1>1, <1>2, <1>3, Join, ZenonT(30)
  <2> QED BY <1>1, <2>1
<1>5. Range(u) \subseteq DOMAIN sent
  BY <1>1, <1>4, Sent
<1>6. Ordered(Returned, Range(u), Range(ring'), Range(fifo), raw \cup lost)
  BY <1>1, <1>2, <1>4 DEF Ordered, Precede
<1> QED BY <1>4, <1>5, <1>6

\* A chunk is the first bytes of the ring.
LEMMA ChunkIsPrefix ==
  ASSUME IInv, NEW limit \in Nat, NEW chunk \in Chunks(limit)
  PROVE  /\ Len(chunk) \in 1 .. Len(ring) /\ Len(chunk) <= limit
         /\ DOMAIN chunk = 1 .. Len(chunk) /\ Len(chunk) \in DOMAIN chunk
         /\ chunk = SubSeq(ring, 1, Len(chunk))
<1>1. ring \in Seq(Nat)
  BY DEF IInv, Shapes
<1>2. PICK n \in (1 .. Len(ring)) \cap (1 .. limit) : chunk = SubSeq(ring, 1, n)
  BY DEF Chunks
<1>3. Len(chunk) = n /\ DOMAIN chunk = 1 .. n
  BY <1>1, <1>2
<1> QED BY <1>1, <1>2, <1>3

LEMMA PrefixOfPrefix ==
  ASSUME NEW s \in Seq(Nat), NEW n \in 1 .. Len(s), NEW k \in 1 .. n
  PROVE  k \in 1 .. Len(s) /\ SubSeq(SubSeq(s, 1, n), 1, k) = SubSeq(s, 1, k)
OBVIOUS

LEMMA KeepPartialLineStep ==
  ASSUME IInv, KeepPartialLine
  PROVE  IInv'
<1>1. PICK chunk \in Chunks(CHUNK) :
        /\ \A k \in DOMAIN chunk : ~Ends(chunk, k)
        /\ line' = line \o chunk
        /\ Consume(Len(chunk))
  BY DEF KeepPartialLine
<1> DEFINE n == Len(chunk)
<1>2. UNCHANGED <<sent, fifo, task, want, confirmed, heard, raw, lost>>
  BY DEF KeepPartialLine
<1>3. n \in 1 .. Len(ring) /\ n \in DOMAIN chunk /\ chunk = SubSeq(ring, 1, n)
  BY ChunkIsPrefix, Sizes
<1>4. ~(Len(line) + n >= RX_LINE_SIZE - 1)
  BY <1>1, <1>3 DEF Ends
<1>5. Consume(n) /\ line' = line \o chunk
  BY <1>1
<1> HIDE DEF n
<1>6. /\ ring' \in Seq(Nat) /\ Ascending(ring') /\ Len(ring') <= RingSize
      /\ Range(ring') \subseteq Range(ring)
  BY <1>3, <1>5, Taken
<1>7. /\ line' \in Seq(Nat) /\ Ascending(line') /\ Len(line') = Len(line) + n
      /\ Range(line') \subseteq DOMAIN sent
      /\ Ordered(Returned, Range(line'), Range(ring'), Range(fifo), raw \cup lost)
  BY <1>3, <1>5, Grown
<1>8. Len(line') < RX_LINE_SIZE - 1
  <2>1. Len(line) \in Nat /\ n \in Nat
    BY <1>3 DEF IInv, Shapes
  <2> QED BY <1>4, <1>7, <2>1, Sizes
<1>9. OlderBytes' /\ Returned' = Returned /\ Shapes'
  BY <1>2, <1>6, <1>7, SameLines DEF IInv, Shapes
<1>10. TypeOK'
  BY <1>2, <1>6, <1>7, <1>8 DEF IInv, TypeOK, Buffered
<1>11. NewerBytes'
  BY <1>2, <1>6, <1>7, <1>9 DEF IInv, NewerBytes
<1> QED BY <1>9, <1>10, <1>11 DEF IInv

\* The update session takes its bytes from the ring, behind every line.
LEMMA FillBufferStep ==
  ASSUME IInv, FillBuffer
  PROVE  IInv'
<1>1. want \in Nat /\ want <= MaxRead
  BY Sizes DEF IInv, TypeOK
<1>2. PICK chunk \in Chunks(want) :
        /\ raw' = raw \cup Range(chunk)
        /\ Consume(Len(chunk))
        /\ want' = want - Len(chunk)
        /\ task' \in IF want' = 0 THEN {"session", "program"} ELSE {"read"}
  BY DEF FillBuffer
<1> DEFINE n == Len(chunk)
<1>3. UNCHANGED <<sent, fifo, line, confirmed, heard, lost>>
  BY DEF FillBuffer
<1>4. n \in 1 .. Len(ring) /\ n <= want /\ chunk = SubSeq(ring, 1, n)
  BY <1>1, ChunkIsPrefix
<1>5. Consume(n) /\ want' = want - n /\ raw' = raw \cup Range(chunk)
  BY <1>2
<1> HIDE DEF n
<1>6. want' \in 0 .. MaxRead /\ task' \in Tasks /\ (want' > 0 <=> task' = "read")
  BY <1>1, <1>2, <1>4, <1>5, Sizes DEF Tasks
<1>7. /\ ring' \in Seq(Nat) /\ Ascending(ring') /\ Len(ring') <= RingSize
      /\ Range(ring') \subseteq Range(ring) /\ Range(chunk) \subseteq Range(ring)
      /\ Precede(Range(chunk), Range(ring')) /\ Range(chunk) \subseteq Nat
  BY <1>4, <1>5, Taken, PositionsOf
<1>8. OlderBytes' /\ Returned' = Returned /\ Shapes'
  BY <1>3, <1>7, SameLines DEF IInv, Shapes
<1>9. TypeOK'
  <2>1. raw' \subseteq DOMAIN sent
    BY <1>5, <1>7, Sent
  <2> QED BY <1>3, <1>6, <1>7, <2>1 DEF IInv, TypeOK, Buffered
<1>10. Ordered(Returned, Range(line), Range(ring'), Range(fifo), raw' \cup lost)
  <2>1. Ordered(Returned, Range(line), Range(ring), Range(fifo), raw \cup lost)
    BY DEF IInv, NewerBytes
  <2>2. \A x \in Range(chunk) : ~(x < x)
    BY <1>7
  <2> QED BY <1>5, <1>7, <2>1, <2>2 DEF Ordered, Precede
<1>11. NewerBytes'
  BY <1>3, <1>7, <1>8, <1>10 DEF IInv, NewerBytes
<1> QED BY <1>8, <1>9, <1>11 DEF IInv

LEMMA StartReadStep ==
  ASSUME IInv, StartRead
  PROVE  IInv'
<1>1. /\ UNCHANGED <<sent, fifo, ring, confirmed, heard, raw, lost>>
      /\ want' \in 1 .. MaxRead /\ line' = <<>> /\ task' = "read"
  BY DEF StartRead
<1>2. Range(<<>>) = {} /\ Ascending(<<>>) /\ Len(<<>>) < RX_LINE_SIZE - 1
  BY Sizes DEF Range, Ascending
<1>3. OlderBytes' /\ Returned' = Returned /\ Shapes'
  BY <1>1, SameLines DEF IInv, Shapes
<1>4. TypeOK'
  <2>1. want' \in 0 .. MaxRead /\ want' > 0
    BY <1>1, Sizes
  <2> QED BY <1>1, <1>2, <2>1 DEF IInv, TypeOK, Tasks, Buffered
<1>5. NewerBytes'
  BY <1>1, <1>2, <1>3 DEF IInv, NewerBytes, Ordered, Precede
<1> QED BY <1>3, <1>4, <1>5 DEF IInv

\* A line is returned: its bytes come after those of the lines before it.
LEMMA Returns ==
  ASSUME IInv, NEW cmd \in Words \cup {Unknown}, NEW whole \in Seq(Nat), Ascending(whole),
         Precede(Returned, Range(whole)), Range(whole) \subseteq DOMAIN sent,
         heard' = Append(heard, [cmd |-> cmd, bytes |-> whole])
  PROVE  /\ OlderBytes' /\ Returned' = Returned \cup Range(whole)
         /\ heard' \in Seq([cmd : Words \cup {Unknown}, bytes : Seq(Nat)])
         /\ Returned' \subseteq DOMAIN sent
<1> DEFINE h == [cmd |-> cmd, bytes |-> whole]
           last == Len(heard) + 1
<1>1. heard \in Seq([cmd : Words \cup {Unknown}, bytes : Seq(Nat)]) /\ Len(heard) \in Nat
  BY DEF IInv, Shapes
<1>2. h.bytes = whole /\ h \in [cmd : Words \cup {Unknown}, bytes : Seq(Nat)]
  OBVIOUS
<1> HIDE DEF h
<1>3. heard' = Append(heard, h)
  BY DEF h
<1>4. /\ heard' \in Seq([cmd : Words \cup {Unknown}, bytes : Seq(Nat)])
      /\ DOMAIN heard' = DOMAIN heard \cup {last} /\ heard'[last] = h
      /\ \A m \in DOMAIN heard : heard'[m] = heard[m] /\ m < last /\ m \in Nat
  BY <1>1, <1>2, <1>3
<1> HIDE DEF last
<1>5. Range(heard') = Range(heard) \cup {h}
  BY <1>4 DEF Range
<1>6. Returned' = Returned \cup Range(whole)
  BY <1>2, <1>5 DEF Returned
<1>7. \A m \in DOMAIN heard : Range(heard[m].bytes) \subseteq Returned
  <2>1. \A m \in DOMAIN heard : heard[m] \in Range(heard)
    BY DEF Range
  <2> QED BY <2>1 DEF Returned
<1>8. \A x \in Range(heard') : Ascending(x.bytes)
  BY <1>2, <1>5 DEF IInv, OlderBytes
<1>9. ASSUME NEW m \in DOMAIN heard', NEW k \in DOMAIN heard', m < k
      PROVE  Precede(Range(heard'[m].bytes), Range(heard'[k].bytes))
  <2>1. m \in DOMAIN heard
    <3>1. m \in DOMAIN heard \/ m = last
      BY <1>4
    <3>2. CASE m = last
      <4>1. k < last \/ k = last
        BY <1>4
      <4>2. last \in Nat /\ k \in Nat
        BY <1>1, <1>4 DEF last
      <4> QED BY <1>9, <3>2, <4>1, <4>2
    <3> QED BY <3>1, <3>2
  <2>2. CASE k \in DOMAIN heard
    BY <1>4, <1>9, <2>1, <2>2 DEF IInv, OlderBytes
  <2>3. CASE k = last
    BY <1>2, <1>4, <1>7, <2>1, <2>3 DEF Precede
  <2> QED BY <1>4, <2>2, <2>3
<1>10. OlderBytes'
  BY <1>8, <1>9 DEF OlderBytes
<1>11. Returned' \subseteq DOMAIN sent
  BY <1>6, Sent
<1> QED BY <1>4, <1>6, <1>10, <1>11

LEMMA ReturnCommandStep ==
  ASSUME IInv, ReturnCommand
  PROVE  IInv'
<1>0. PICK chunk \in Chunks(CHUNK) : \E used \in DOMAIN chunk :
        /\ heard' = Append(heard, [cmd |-> Parse(line \o SubSeq(chunk, 1, used)),
                                   bytes |-> line \o SubSeq(chunk, 1, used)])
        /\ Consume(used)
        /\ task' \in CASE Parse(line \o SubSeq(chunk, 1, used)) \in Updates -> {"session"}
                       [] Parse(line \o SubSeq(chunk, 1, used)) \in Others  -> {"flash", "select", "busy"}
                       [] OTHER -> {"select"}
  BY DEF ReturnCommand
<1>1. PICK used \in DOMAIN chunk :
        /\ heard' = Append(heard, [cmd |-> Parse(line \o SubSeq(chunk, 1, used)),
                                   bytes |-> line \o SubSeq(chunk, 1, used)])
        /\ Consume(used)
        /\ task' \in CASE Parse(line \o SubSeq(chunk, 1, used)) \in Updates -> {"session"}
                       [] Parse(line \o SubSeq(chunk, 1, used)) \in Others  -> {"flash", "select", "busy"}
                       [] OTHER -> {"select"}
  BY <1>0
<1> DEFINE c == SubSeq(ring, 1, used)
           whole == line \o c
           cmd == Parse(whole)
<1>2. UNCHANGED <<sent, fifo, want, confirmed, raw, lost>> /\ line' = <<>> /\ task = "select"
  BY DEF ReturnCommand
<1>3. used \in 1 .. Len(ring) /\ SubSeq(chunk, 1, used) = c
  <2>1. ring \in Seq(Nat)
    BY DEF IInv, Shapes
  <2>2. /\ Len(chunk) \in 1 .. Len(ring) /\ used \in 1 .. Len(chunk)
        /\ chunk = SubSeq(ring, 1, Len(chunk))
    BY ChunkIsPrefix, Sizes
  <2> QED BY <2>1, <2>2, PrefixOfPrefix
<1>4. /\ heard' = Append(heard, [cmd |-> cmd, bytes |-> whole])
      /\ task' \in {"session", "flash", "select", "busy"}
  <2>1. task' \in CASE cmd \in Updates -> {"session"}
                    [] cmd \in Others  -> {"flash", "select", "busy"}
                    [] OTHER -> {"select"}
    BY <1>1, <1>3
  <2> HIDE DEF cmd
  <2>2. task' \in {"session", "flash", "select", "busy"}
    BY <2>1
  <2> QED BY <1>1, <1>3, <2>2 DEF cmd
<1>5. cmd \in Words \cup {Unknown}
  BY DEF Parse
<1> HIDE DEF c, whole, cmd
<1>6. c = SubSeq(ring, 1, used) /\ whole = line \o c /\ Consume(used)
  BY <1>1 DEF c, whole
<1>7. /\ ring' \in Seq(Nat) /\ Ascending(ring') /\ Len(ring') <= RingSize
      /\ Range(ring') \subseteq Range(ring)
  BY <1>3, <1>6, Taken
<1>8. /\ whole \in Seq(Nat) /\ Ascending(whole) /\ Range(whole) \subseteq DOMAIN sent
      /\ Ordered(Returned, Range(whole), Range(ring'), Range(fifo), raw \cup lost)
  BY <1>3, <1>6, Grown
<1>9. /\ OlderBytes' /\ Returned' = Returned \cup Range(whole)
      /\ heard' \in Seq([cmd : Words \cup {Unknown}, bytes : Seq(Nat)])
      /\ Returned' \subseteq DOMAIN sent
  <2>1. Precede(Returned, Range(whole))
    BY <1>8 DEF Ordered
  <2> QED BY <1>4, <1>5, <1>8, <2>1, Returns
<1>10. Range(<<>>) = {} /\ Ascending(<<>>) /\ Len(<<>>) < RX_LINE_SIZE - 1
  BY Sizes DEF Range, Ascending
<1>11. Shapes'
  BY <1>2, <1>7, <1>9 DEF IInv, Shapes
<1>12. TypeOK'
  <2>1. \A x \in Range(heard') : x.cmd \in Words \cup {Unknown}
    <3> DEFINE R == [cmd : Words \cup {Unknown}, bytes : Seq(Nat)]
    <3>1. \A x \in R : x.cmd \in Words \cup {Unknown}
      OBVIOUS
    <3>2. heard' \in Seq(R)
      BY <1>9
    <3> HIDE DEF R
    <3>3. Range(heard') \subseteq R
      BY <3>2 DEF Range
    <3> QED BY <3>1, <3>3
  <2>2. task' \in Tasks /\ task' # "read" /\ ~(want' > 0)
    BY <1>2, <1>4 DEF Tasks, IInv, TypeOK
  <2> QED BY <1>2, <1>7, <1>10, <2>1, <2>2 DEF IInv, TypeOK, Buffered
<1>13. Ordered(Returned', {}, Range(ring'), Range(fifo), raw \cup lost)
  BY <1>8, <1>9 DEF Ordered, Precede
<1>14. NewerBytes'
  BY <1>2, <1>7, <1>10, <1>13 DEF IInv, NewerBytes
<1> QED BY <1>9, <1>11, <1>12, <1>14 DEF IInv

-----------------------------------------------------------------------------
(* The theorems                                                            *)

LEMMA IInvNext == IInv /\ [Next]_vars => IInv'
<1>1. ASSUME IInv, Next PROVE IInv'
  <2>1. CASE \E b \in Bytes : Receive(b)
    BY <1>1, <2>1, ReceiveStep
  <2>2. CASE Interrupt
    BY <1>1, <2>2, InterruptStep
  <2>3. CASE KeepPartialLine
    BY <1>1, <2>3, KeepPartialLineStep
  <2>4. CASE ReturnCommand
    BY <1>1, <2>4, ReturnCommandStep
  <2>5. CASE Tick \/ BusyDone \/ FlashDone \/ EndSession \/ ReadTimeout
    BY <1>1, <2>5, LoopSteps
  <2>6. CASE StartRead
    BY <1>1, <2>6, StartReadStep
  <2>7. CASE FillBuffer
    BY <1>1, <2>7, FillBufferStep
  <2> QED BY <1>1, <2>1, <2>2, <2>3, <2>4, <2>5, <2>6, <2>7 DEF Next
<1>2. ASSUME IInv, UNCHANGED vars PROVE IInv'
  <2>1. UNCHANGED <<sent, fifo, ring, line, task, want, confirmed, heard, raw, lost>>
    BY <1>2 DEF vars
  <2>2. /\ task \in Tasks /\ confirmed \in BOOLEAN /\ want \in 0 .. MaxRead /\ (want > 0 <=> task = "read")
    BY <1>2 DEF IInv, TypeOK
  <2> QED BY <1>2, <2>1, <2>2, ControlStep
<1> QED BY <1>1, <1>2

LEMMA Invariance == Spec => []IInv
BY InitInv, IInvNext, PTL DEF Spec

\* Every size, position and phase of the receive path stays in its range: no
\* line, ring or FIFO overflows (uart_handler.rs:44-88).
THEOREM TypeCorrect == Spec => []TypeOK
<1>1. IInv => TypeOK
  BY DEF IInv
<1> QED BY <1>1, Invariance, PTL

\* Every byte received is used at most once, by a line or by a session, and in
\* the order of the wire (uart_handler.rs:44-88, main.rs:233-237).
THEOREM BytesUsedOnce == Spec => []UsedOnceInOrder
<1>1. IInv => UsedOnceInOrder
  BY OrderParts DEF IInv
<1> QED BY <1>1, Invariance, PTL
-----------------------------------------------------------------------------
(* Lines and the words sent on them                                        *)

\* Between two places of an ascending sequence there is room for all those between.
LEMMA Span ==
  ASSUME NEW s \in Seq(Nat), Ascending(s), NEW i \in 1 .. Len(s), NEW j \in i .. Len(s)
  PROVE  s[i] \in Nat /\ s[j] \in Nat /\ s[i] + (j - i) <= s[j]
<1> DEFINE f == [k \in i .. j |-> s[k]]
<1>1. /\ Len(s) \in Nat /\ i \in Nat /\ j \in Nat /\ i <= j /\ j \in 1 .. Len(s)
      /\ \A k \in 1 .. Len(s) : s[k] \in Nat
      /\ \A k, m \in 1 .. Len(s) : k < m => s[k] < s[m]
  BY DEF Ascending
<1>2. \A k \in i .. j : k \in 1 .. Len(s) /\ s[k] \in s[i] .. s[j]
  <2> SUFFICES ASSUME NEW k \in i .. j PROVE k \in 1 .. Len(s) /\ s[k] \in s[i] .. s[j]
    OBVIOUS
  <2>1. k \in 1 .. Len(s) /\ (k = i \/ i < k) /\ (k = j \/ k < j)
    BY <1>1
  <2>2. s[i] <= s[k] /\ s[k] <= s[j]
    BY <1>1, <2>1
  <2> QED BY <1>1, <2>1, <2>2
<1>3. \A k, m \in i .. j : s[k] = s[m] => k = m
  <2> SUFFICES ASSUME NEW k \in i .. j, NEW m \in i .. j, s[k] = s[m] PROVE k = m
    OBVIOUS
  <2>1. ~(s[k] < s[m]) /\ ~(s[m] < s[k])
    BY <1>1, <1>2
  <2> QED BY <1>1, <1>2, <2>1
<1>4. f \in Injection(i .. j, s[i] .. s[j])
  BY <1>2, <1>3 DEF Injection, IsInjective
<1>5. i \in Int /\ j \in Int /\ s[i] \in Int /\ s[j] \in Int
  BY <1>1
<1>6. /\ IsFiniteSet(s[i] .. s[j]) /\ Cardinality(s[i] .. s[j]) = s[j] - s[i] + 1
      /\ Cardinality(i .. j) = j - i + 1
  <2>1. ~(s[i] > s[j]) /\ ~(i > j)
    BY <1>1
  <2> QED BY <1>5, <2>1, FS_Interval
<1>7. Cardinality(i .. j) <= Cardinality(s[i] .. s[j])
  BY <1>4, <1>6, FS_Injection
<1> QED BY <1>1, <1>6, <1>7

\* An ascending sequence of all positions of an interval holds them one by one.
LEMMA WholeInterval ==
  ASSUME NEW s \in Seq(Nat), Ascending(s), NEW from \in Nat, NEW to \in Nat, from <= to,
         Range(s) = from .. to
  PROVE  Len(s) = to - from + 1 /\ \A i \in 1 .. Len(s) : s[i] = from + i - 1
<1>1. Positions(s) /\ Len(s) \in Nat /\ s \in [1 .. Len(s) -> Nat]
  BY PositionsOf
<1>2. \A i \in 1 .. Len(s) : s[i] \in from .. to
  BY <1>1 DEF Positions
<1>3. s \in Surjection(1 .. Len(s), from .. to)
  <2>1. s \in [1 .. Len(s) -> from .. to]
    BY <1>1, <1>2
  <2>2. \A x \in from .. to : \E i \in 1 .. Len(s) : s[i] = x
    BY <1>1 DEF Positions
  <2> QED BY <2>1, <2>2 DEF Surjection
<1>4. to - from + 1 <= Len(s)
  <2>1. /\ IsFiniteSet(1 .. Len(s)) /\ Cardinality(1 .. Len(s)) = Len(s)
        /\ Cardinality(from .. to) = to - from + 1
    <3>1. 1 \in Int /\ Len(s) \in Int /\ from \in Int /\ to \in Int /\ ~(from > to)
      BY <1>1
    <3>2. (IF 1 > Len(s) THEN 0 ELSE Len(s) - 1 + 1) = Len(s)
      BY <1>1
    <3> QED BY <3>1, <3>2, FS_Interval
  <2>2. Cardinality(from .. to) <= Cardinality(1 .. Len(s))
    BY <1>3, <2>1, FS_Surjection
  <2> QED BY <2>1, <2>2
<1>5. ASSUME NEW i \in 1 .. Len(s) PROVE s[i] = from + i - 1 /\ Len(s) <= to - from + 1
  <2>1. /\ 1 \in 1 .. Len(s) /\ i \in 1 .. Len(s) /\ Len(s) \in i .. Len(s) /\ i \in Nat
    BY <1>1
  <2>2. s[1] + (i - 1) <= s[i] /\ s[i] + (Len(s) - i) <= s[Len(s)]
    BY <2>1, Span
  <2>3. Len(s) \in 1 .. Len(s)
    BY <2>1
  <2>4. from <= s[1] /\ s[Len(s)] <= to /\ s[1] \in Nat /\ s[i] \in Nat /\ s[Len(s)] \in Nat
    BY <1>2, <2>1, <2>3
  <2>5. Len(s) \in Nat /\ i \in Nat
    BY <1>1, <2>1
  <2> DEFINE first == s[1]
             here == s[i]
             last == s[Len(s)]
             k == Len(s)
  <2>6. /\ first + (i - 1) <= here /\ here + (k - i) <= last /\ from <= first /\ last <= to
        /\ first \in Nat /\ here \in Nat /\ last \in Nat /\ k \in Nat /\ i \in Nat /\ to - from + 1 <= k
    BY <1>4, <2>2, <2>4, <2>5
  <2> HIDE DEF first, here, last, k
  <2>7. here = from + i - 1 /\ k <= to - from + 1
    BY <2>6
  <2> QED BY <2>7 DEF here, k
<1>6. 1 \in 1 .. Len(s)
  BY <1>1, <1>4
<1> QED BY <1>1, <1>4, <1>5, <1>6

\* A word and the newline behind it are trimmed to the word.
LEMMA TrimsTo ==
  ASSUME NEW w \in Seq(Letters), NEW t, Len(w) >= 1,
         t \in Seq(Bytes), Len(t) = Len(w) + 1,
         \A i \in 1 .. Len(w) : t[i] = w[i], t[Len(w) + 1] = NL
  PROVE  Trim(t) = w
<1> DEFINE n == Len(w)
           kept == {i \in DOMAIN t : t[i] \notin {Space, NL}}
<1>1. n \in Nat /\ DOMAIN t = 1 .. n + 1 /\ \A i \in 1 .. n : w[i] \in Letters
  OBVIOUS
<1>2. kept = 1 .. n
  <2>1. \A i \in 1 .. n : i \in kept
    BY <1>1, LettersAreOthers
  <2>2. \A i \in kept : i \in 1 .. n
    <3> SUFFICES ASSUME NEW i \in kept PROVE i \in 1 .. n
      OBVIOUS
    <3>1. i \in 1 .. n + 1 /\ i # n + 1
      BY <1>1
    <3> QED BY <1>1, <3>1
  <2> HIDE DEF kept
  <2> QED BY <2>1, <2>2
<1>3. Min(1 .. n) = 1 /\ Max(1 .. n) = n
  <2>1. 1 \in 1 .. n /\ \A y \in 1 .. n : 1 <= y
    BY <1>1
  <2>2. n \in 1 .. n /\ \A y \in 1 .. n : n >= y
    BY <1>1
  <2>3. \A x \in 1 .. n : (\A y \in 1 .. n : x <= y) => x = 1
    BY <1>1, <2>1
  <2>4. \A x \in 1 .. n : (\A y \in 1 .. n : x >= y) => x = n
    BY <1>1, <2>2
  <2> QED BY <2>1, <2>2, <2>3, <2>4 DEF Min, Max
<1>4. SubSeq(t, 1, n) = w
  <2>1. /\ SubSeq(t, 1, n) \in Seq(Bytes) /\ Len(SubSeq(t, 1, n)) = n
        /\ \A i \in 1 .. n : SubSeq(t, 1, n)[i] = w[i]
    BY <1>1
  <2> QED BY <2>1
<1>5. kept # {}
  BY <1>1, <1>2
<1>6. Trim(t) = IF kept = {} THEN <<>> ELSE SubSeq(t, Min(kept), Max(kept))
  BY DEF Trim
<1> HIDE DEF kept, n
<1> QED BY <1>2, <1>3, <1>4, <1>5, <1>6

\* A line returned ended with its first newline, or because the buffer was full.
Shut(h) ==
  /\ h.bytes # <<>> /\ h.cmd = Parse(h.bytes)
  /\ \A i \in 1 .. Len(h.bytes) - 1 : sent[h.bytes[i]] # NL
  /\ sent[Last(h.bytes)] = NL \/ Len(h.bytes) >= RX_LINE_SIZE - 1

\* No session has taken a byte from between those in S.
Beside(S) == \A r \in raw : Precede({r}, S) \/ Precede(S, {r})

\* No byte is anywhere else.
Accounted == DOMAIN sent \subseteq Returned \cup Range(line) \cup Buffered \cup raw \cup lost

\* The line under way has no end yet, and a session begins between two lines.
Open ==
  /\ \A x \in Range(line) : sent[x] # NL
  /\ task \in {"session", "read", "program"} => line = <<>>
  /\ Precede(raw, Range(line)) /\ Precede(raw, Buffered)

LinesInv ==
  IInv /\ Accounted /\ Open /\ \A h \in Range(heard) : Shut(h) /\ Beside(Range(h.bytes))

LEMMA LinesInit == Init => LinesInv
<1> SUFFICES ASSUME Init PROVE LinesInv
  OBVIOUS
<1>1. Range(<<>>) = {} /\ DOMAIN <<>> = {}
  BY DEF Range
<1> QED BY <1>1, InitInv DEF Init, LinesInv, Accounted, Open, Precede

\* The bytes of a sequence are those of its two parts.
LEMMA CutAll ==
  ASSUME NEW s \in Seq(Nat), NEW n \in 0 .. Len(s), NEW a, NEW b, Split(s, n, a, b)
  PROVE  Range(s) = Range(a) \cup Range(b)
<1>1. a \in Seq(Nat) /\ b \in Seq(Nat) /\ Len(a) = n /\ Len(b) = Len(s) - n
  BY DEF Split
<1>2. Positions(s) /\ Positions(a) /\ Positions(b)
  BY <1>1, PositionsOf
<1>3. ASSUME NEW i \in 1 .. Len(s)
      PROVE  \/ i \in 1 .. Len(a) /\ a[i] = s[i]
             \/ i - n \in 1 .. Len(b) /\ b[i - n] = s[i]
  BY <1>1 DEF Split
<1>4. /\ \A i \in 1 .. Len(a) : i \in 1 .. Len(s) /\ a[i] = s[i]
      /\ \A i \in 1 .. Len(b) : i + n \in 1 .. Len(s) /\ b[i] = s[i + n]
  BY <1>1 DEF Split
<1>5. Range(s) \subseteq Range(a) \cup Range(b)
  BY <1>2, <1>3 DEF Positions
<1>6. Range(a) \subseteq Range(s) /\ Range(b) \subseteq Range(s)
  BY <1>2, <1>4 DEF Positions
<1> QED BY <1>5, <1>6

\* Bytes that arrive do not change what a line says.
LEMMA StillShut ==
  ASSUME IInv, NEW h \in Range(heard), Shut(h), \A x \in DOMAIN sent : sent'[x] = sent[x]
  PROVE  Shut(h)'
<1>1. h.bytes \in Seq(Nat) /\ Range(h.bytes) \subseteq DOMAIN sent
  <2> DEFINE R == [cmd : Words \cup {Unknown}, bytes : Seq(Nat)]
  <2>1. h \in R
    <3>1. heard \in Seq(R)
      BY DEF IInv, Shapes
    <3> HIDE DEF R
    <3> QED BY <3>1 DEF Range
  <2>2. Range(h.bytes) \subseteq Returned
    BY DEF Returned
  <2> QED BY <2>1, <2>2, Sent
<1>2. \A i \in DOMAIN h.bytes : sent'[h.bytes[i]] = sent[h.bytes[i]]
  BY <1>1 DEF Range
<1>3. Parse(h.bytes)' = Parse(h.bytes)
  <2>1. [i \in DOMAIN h.bytes |-> sent'[h.bytes[i]]] = [i \in DOMAIN h.bytes |-> sent[h.bytes[i]]]
    BY <1>2
  <2> QED BY <2>1 DEF Parse
<1>4. Len(h.bytes) \in Nat /\ Len(h.bytes) > 0 /\ DOMAIN h.bytes = 1 .. Len(h.bytes)
  BY <1>1 DEF Shut
<1>5. Len(h.bytes) \in DOMAIN h.bytes /\ \A i \in 1 .. Len(h.bytes) - 1 : i \in DOMAIN h.bytes
  BY <1>4
<1> QED BY <1>2, <1>3, <1>5 DEF Shut, Last

LEMMA SameLinesShut ==
  ASSUME LinesInv, UNCHANGED <<heard, raw>>, \A x \in DOMAIN sent : sent'[x] = sent[x]
  PROVE  /\ \A h \in Range(heard') : Shut(h)' /\ Beside(Range(h.bytes))'
         /\ Returned' = Returned
<1>1. \A h \in Range(heard) : Shut(h)'
  BY StillShut DEF LinesInv
<1> QED BY <1>1 DEF LinesInv, Beside, Returned

LEMMA LinesControl ==
  ASSUME LinesInv, IInv', Tick \/ BusyDone \/ FlashDone \/ EndSession \/ ReadTimeout \/ UNCHANGED vars
  PROVE  LinesInv'
<1>1. UNCHANGED <<sent, fifo, ring, line, heard, raw, lost>>
  BY DEF Tick, BusyDone, FlashDone, EndSession, ReadTimeout, vars
<1>2. task' \in {"session", "read", "program"} => task \in {"session", "read", "program"}
  BY DEF Tick, BusyDone, FlashDone, EndSession, ReadTimeout, vars, Masked
<1>3. \A h \in Range(heard') : Shut(h)' /\ Beside(Range(h.bytes))'
  BY <1>1, SameLinesShut
<1>4. Accounted' /\ Open'
  BY <1>1, <1>2 DEF LinesInv, Accounted, Open, Returned, Buffered
<1> QED BY <1>3, <1>4 DEF LinesInv

LEMMA LinesReceive ==
  ASSUME LinesInv, IInv', NEW b \in Bytes, Receive(b)
  PROVE  LinesInv'
<1> DEFINE e == Len(sent) + 1
<1>1. /\ Len(sent) \in Nat /\ sent' = Append(sent, b) /\ sent \in Seq(Bytes)
      /\ UNCHANGED <<ring, line, task, heard, raw>>
  BY DEF Receive, LinesInv, IInv, Shapes
<1>2. /\ DOMAIN sent' = DOMAIN sent \cup {e} /\ Len(sent') = e /\ e \in Nat
      /\ \A x \in DOMAIN sent : sent'[x] = sent[x] /\ x < e
  BY <1>1
<1>3. \/ fifo' = Append(fifo, e) /\ UNCHANGED lost
      \/ lost' = lost \cup {e} /\ UNCHANGED fifo
  BY <1>2 DEF Receive
<1> HIDE DEF e
<1>4. /\ Range(fifo') \cup lost' = Range(fifo) \cup lost \cup {e}
      /\ Range(fifo') \subseteq Range(fifo) \cup {e}
  <2>1. fifo \in Seq(Nat) /\ Ascending(fifo) /\ Precede(Range(fifo), {e})
    BY <1>2, Sent DEF LinesInv, IInv, Shapes, NewerBytes, Precede
  <2>2. Range(Append(fifo, e)) = Range(fifo) \cup {e}
    BY <1>2, <2>1, Push
  <2> QED BY <1>3, <2>2
<1>5. (\A h \in Range(heard') : Shut(h)' /\ Beside(Range(h.bytes))') /\ Returned' = Returned
  BY <1>1, <1>2, SameLinesShut
<1>6. Accounted'
  BY <1>1, <1>2, <1>4, <1>5 DEF LinesInv, Accounted, Buffered
<1>7. Open'
  <2>1. Range(line) \subseteq DOMAIN sent /\ raw \subseteq DOMAIN sent
    BY Sent DEF LinesInv
  <2>2. Precede(raw, Buffered')
    BY <1>1, <1>2, <1>4, <2>1 DEF LinesInv, Open, Precede, Buffered
  <2> QED BY <1>1, <1>2, <2>1, <2>2 DEF LinesInv, Open
<1> QED BY <1>5, <1>6, <1>7 DEF LinesInv

LEMMA LinesInterrupt ==
  ASSUME LinesInv, IInv', Interrupt
  PROVE  LinesInv'
<1> DEFINE e == Head(fifo)
<1>1. UNCHANGED <<sent, line, task, heard, raw, lost>>
  BY DEF Interrupt
<1>2. ring \in Seq(Nat) /\ fifo \in Seq(Nat) /\ fifo # <<>> /\ Ascending(ring) /\ Ascending(fifo)
  BY DEF Interrupt, LinesInv, IInv, Shapes, NewerBytes
<1>3. Range(ring') = Range(ring) \cup {e}
  <2>1. e \in Range(fifo) /\ e \in Nat
    BY <1>2, Pop
  <2>2. Precede(Range(ring), {e})
    BY <2>1 DEF LinesInv, IInv, NewerBytes, Ordered, Precede
  <2>3. ring' = Append(ring, e)
    BY DEF Interrupt
  <2> HIDE DEF e
  <2> QED BY <1>2, <2>1, <2>2, <2>3, Push
<1>4. Range(fifo) = {e} \cup Range(fifo')
  <2> DEFINE a == SubSeq(fifo, 1, 1)
  <2>1. fifo' = SubSeq(fifo, 2, Len(fifo)) /\ 1 \in 0 .. Len(fifo) /\ Range(a) = {e}
    <3>1. fifo' = Tail(fifo)
      BY DEF Interrupt
    <3>2. DOMAIN a = {1} /\ a[1] = e
      BY <1>2
    <3> QED BY <1>2, <3>1, <3>2 DEF Range
  <2>2. Split(fifo, 1, a, fifo')
    BY <2>1 DEF Split
  <2> HIDE DEF a, e
  <2> QED BY <1>2, <2>1, <2>2, CutAll
<1> HIDE DEF e
<1>5. Buffered' = Buffered
  BY <1>3, <1>4 DEF Buffered
<1>6. (\A h \in Range(heard') : Shut(h)' /\ Beside(Range(h.bytes))') /\ Returned' = Returned
  BY <1>1, SameLinesShut
<1>7. Accounted' /\ Open'
  BY <1>1, <1>5, <1>6 DEF LinesInv, Accounted, Open
<1> QED BY <1>6, <1>7 DEF LinesInv

\* The bytes taken from the ring go to the line; none is left out.
LEMMA TakenAll ==
  ASSUME IInv, NEW n \in 1 .. Len(ring), NEW c, c = SubSeq(ring, 1, n), Consume(n),
         NEW u, u = line \o c
  PROVE  Range(ring) = Range(c) \cup Range(ring') /\ Range(u) = Range(line) \cup Range(c)
<1>1. ring \in Seq(Nat) /\ n \in 0 .. Len(ring) /\ Split(ring, n, c, ring')
  BY DEF IInv, Shapes, Split, Consume
<1>2. Range(ring) = Range(c) \cup Range(ring')
  BY <1>1, CutAll
<1>3. c \in Seq(Nat) /\ Ascending(c) /\ line \in Seq(Nat) /\ Ascending(line) /\ Precede(Range(line), Range(c))
  <2>1. c \in Seq(Nat) /\ Ascending(c) /\ Range(c) \subseteq Range(ring)
    BY Taken
  <2> QED BY <2>1 DEF IInv, Shapes, NewerBytes, Ordered, Precede
<1>4. Range(u) = Range(line) \cup Range(c)
  BY <1>3, Join, ZenonT(30)
<1> QED BY <1>2, <1>4

LEMMA LinesKeep ==
  ASSUME LinesInv, IInv', KeepPartialLine
  PROVE  LinesInv'
<1>0. IInv
  BY DEF LinesInv
<1>1. PICK chunk \in Chunks(CHUNK) :
        /\ \A k \in DOMAIN chunk : ~Ends(chunk, k)
        /\ line' = line \o chunk
        /\ Consume(Len(chunk))
  BY DEF KeepPartialLine
<1> DEFINE n == Len(chunk)
<1>2. UNCHANGED <<sent, fifo, task, heard, raw, lost>> /\ task = "select"
  BY DEF KeepPartialLine
<1>3. n \in 1 .. Len(ring) /\ chunk = SubSeq(ring, 1, n)
  BY <1>0, ChunkIsPrefix, Sizes
<1>4. \A x \in Range(chunk) : sent[x] # NL
  BY <1>1 DEF Ends, Range
<1>5. Consume(n) /\ line' = line \o chunk
  BY <1>1
<1> HIDE DEF n
<1>6. Range(ring) = Range(chunk) \cup Range(ring') /\ Range(line') = Range(line) \cup Range(chunk)
  BY <1>0, <1>3, <1>5, TakenAll
<1>7. (\A h \in Range(heard') : Shut(h)' /\ Beside(Range(h.bytes))') /\ Returned' = Returned
  BY <1>2, SameLinesShut
<1>8. Accounted'
  BY <1>2, <1>6, <1>7 DEF LinesInv, Accounted, Buffered
<1>9. Open'
  BY <1>2, <1>4, <1>6 DEF LinesInv, Open, Precede, Buffered
<1> QED BY <1>7, <1>8, <1>9 DEF LinesInv

LEMMA LinesStartRead ==
  ASSUME LinesInv, IInv', StartRead
  PROVE  LinesInv'
<1>1. UNCHANGED <<sent, fifo, ring, line, heard, raw, lost>> /\ task' = "read" /\ task = "session"
  BY DEF StartRead, LinesInv, Open
<1>2. (\A h \in Range(heard') : Shut(h)' /\ Beside(Range(h.bytes))') /\ Returned' = Returned
  BY <1>1, SameLinesShut
<1>3. Accounted' /\ Open'
  BY <1>1, <1>2 DEF LinesInv, Accounted, Open, Buffered
<1> QED BY <1>2, <1>3 DEF LinesInv

\* What a session takes comes after every line returned and before all that follows.
LEMMA LinesFill ==
  ASSUME LinesInv, IInv', FillBuffer
  PROVE  LinesInv'
<1>0. IInv
  BY DEF LinesInv
<1>1. PICK chunk \in Chunks(want) : raw' = raw \cup Range(chunk) /\ Consume(Len(chunk))
  BY DEF FillBuffer
<1> DEFINE n == Len(chunk)
<1>2. UNCHANGED <<sent, fifo, line, heard, lost>> /\ task = "read"
  BY DEF FillBuffer
<1>3. n \in 1 .. Len(ring) /\ chunk = SubSeq(ring, 1, n)
  <2>1. want \in Nat
    BY <1>0, Sizes DEF IInv, TypeOK
  <2> QED BY <1>0, <2>1, ChunkIsPrefix
<1>4. Consume(n) /\ raw' = raw \cup Range(chunk)
  BY <1>1
<1> HIDE DEF n
<1>5. Range(ring) = Range(chunk) \cup Range(ring') /\ Precede(Range(chunk), Range(ring'))
  BY <1>0, <1>3, <1>4, Taken, TakenAll
<1>6. line = <<>> /\ line' = <<>> /\ Range(line) = {}
  BY <1>2 DEF LinesInv, Open, Range
<1>7. Ordered(Returned, Range(line), Range(ring), Range(fifo), raw \cup lost)
  BY <1>0 DEF IInv, NewerBytes
<1>8. Returned' = Returned
  BY <1>2 DEF Returned
<1>9. Accounted'
  BY <1>2, <1>4, <1>5, <1>8 DEF LinesInv, Accounted, Buffered
<1>10. Open'
  <2>1. Precede(raw', Buffered')
    BY <1>2, <1>4, <1>5, <1>7 DEF LinesInv, Open, Ordered, Precede, Buffered
  <2> QED BY <1>6, <2>1 DEF LinesInv, Open, Precede
<1>11. ASSUME NEW h \in Range(heard) PROVE Shut(h)' /\ Beside(Range(h.bytes))'
  <2>1. Shut(h) /\ Beside(Range(h.bytes))
    BY DEF LinesInv
  <2>2. Shut(h)'
    BY <1>0, <1>2, <2>1, StillShut
  <2>3. \A r \in Range(chunk) : Precede(Range(h.bytes), {r})
    <3>1. Range(h.bytes) \subseteq Returned
      BY DEF Returned
    <3> QED BY <1>5, <1>7, <3>1 DEF Ordered, Precede
  <2> QED BY <1>4, <2>1, <2>2, <2>3 DEF Beside
<1> QED BY <1>2, <1>9, <1>10, <1>11 DEF LinesInv

LEMMA AppendedRange ==
  ASSUME NEW S, NEW s \in Seq(S), NEW e \in S
  PROVE  Range(Append(s, e)) = Range(s) \cup {e}
<1> DEFINE t == Append(s, e)
<1>1. /\ DOMAIN t = DOMAIN s \cup {Len(s) + 1} /\ t[Len(s) + 1] = e
      /\ \A i \in DOMAIN s : t[i] = s[i]
  OBVIOUS
<1> HIDE DEF t
<1>2. Range(t) = Range(s) \cup {e}
  BY <1>1 DEF Range
<1> QED BY <1>2 DEF t

\* The line that ends is shut, and its bytes are those that were under way.
LEMMA LinesReturn ==
  ASSUME LinesInv, IInv', ReturnCommand
  PROVE  LinesInv'
<1>0. IInv
  BY DEF LinesInv
<1>1. PICK chunk \in Chunks(CHUNK) : \E used \in DOMAIN chunk :
        /\ Ends(chunk, used) /\ \A k \in 1 .. used - 1 : ~Ends(chunk, k)
        /\ heard' = Append(heard, [cmd |-> Parse(line \o SubSeq(chunk, 1, used)),
                                   bytes |-> line \o SubSeq(chunk, 1, used)])
        /\ Consume(used)
  BY DEF ReturnCommand
<1>2. PICK used \in DOMAIN chunk :
        /\ Ends(chunk, used) /\ \A k \in 1 .. used - 1 : ~Ends(chunk, k)
        /\ heard' = Append(heard, [cmd |-> Parse(line \o SubSeq(chunk, 1, used)),
                                   bytes |-> line \o SubSeq(chunk, 1, used)])
        /\ Consume(used)
  BY <1>1
<1> DEFINE c == SubSeq(ring, 1, used)
           whole == line \o c
           cmd == Parse(whole)
           rec == [cmd |-> cmd, bytes |-> whole]
<1>3. UNCHANGED <<sent, fifo, raw, lost>> /\ line' = <<>> /\ task = "select"
  BY DEF ReturnCommand
<1>4. /\ used \in 1 .. Len(ring) /\ SubSeq(chunk, 1, used) = c
      /\ \A k \in 1 .. used : chunk[k] = c[k]
  <2>1. ring \in Seq(Nat)
    BY <1>0 DEF IInv, Shapes
  <2>2. /\ Len(chunk) \in 1 .. Len(ring) /\ used \in 1 .. Len(chunk)
        /\ chunk = SubSeq(ring, 1, Len(chunk))
    BY <1>0, ChunkIsPrefix, Sizes
  <2> DEFINE m == Len(chunk)
  <2>3. m \in 1 .. Len(ring) /\ used \in 1 .. m /\ chunk = SubSeq(ring, 1, m)
    BY <2>2
  <2> HIDE DEF m
  <2>4. \A k \in 1 .. used : SubSeq(ring, 1, m)[k] = ring[k] /\ SubSeq(ring, 1, used)[k] = ring[k]
    BY <2>1, <2>3
  <2> QED BY <2>1, <2>3, <2>4, PrefixOfPrefix
<1>5. heard' = Append(heard, rec)
  BY <1>2, <1>4
<1>6. cmd \in Words \cup {Unknown}
  BY DEF Parse
<1>7. c \in Seq(Nat) /\ Len(c) = used /\ line \in Seq(Nat) /\ whole \in Seq(Nat)
  <2>1. ring \in Seq(Nat) /\ line \in Seq(Nat)
    BY <1>0 DEF IInv, Shapes
  <2> QED BY <1>4, <2>1
<1>8. /\ Len(whole) = Len(line) + used /\ Len(line) \in Nat /\ used \in Nat /\ used > 0
      /\ \A i \in 1 .. Len(line) : whole[i] = line[i]
      /\ \A i \in 1 .. Len(line) + used : i > Len(line) => whole[i] = c[i - Len(line)]
  BY <1>4, <1>7
<1>9. Range(heard') = Range(heard) \cup {rec}
  <2> DEFINE R == [cmd : Words \cup {Unknown}, bytes : Seq(Nat)]
  <2>1. heard \in Seq(R) /\ rec \in R
    BY <1>0, <1>6, <1>7 DEF IInv, Shapes
  <2> HIDE DEF R, rec
  <2> QED BY <1>5, <2>1, AppendedRange
<1>10. rec.bytes = whole /\ rec.cmd = Parse(whole)
  OBVIOUS
<1> HIDE DEF rec, cmd
<1>11. Range(ring) = Range(c) \cup Range(ring') /\ Range(whole) = Range(line) \cup Range(c)
  <2>1. Consume(used) /\ c = SubSeq(ring, 1, used) /\ whole = line \o c
    BY <1>2
  <2> HIDE DEF c, whole
  <2> QED BY <1>0, <1>4, <2>1, TakenAll
<1>12. Returned' = Returned \cup Range(whole)
  BY <1>9, <1>10 DEF Returned
<1>13. Accounted'
  <2>1. Range(line') = {}
    BY <1>3 DEF Range
  <2> HIDE DEF c, whole
  <2> QED BY <1>3, <1>11, <1>12, <2>1 DEF LinesInv, Accounted, Buffered
<1>14. Open'
  <2>1. Range(line') = {}
    BY <1>3 DEF Range
  <2> HIDE DEF c, whole
  <2> QED BY <1>3, <1>11, <2>1 DEF LinesInv, Open, Precede, Buffered
<1>15. \A i \in 1 .. Len(whole) - 1 : sent[whole[i]] # NL
  <2> SUFFICES ASSUME NEW i \in 1 .. Len(whole) - 1 PROVE sent[whole[i]] # NL
    OBVIOUS
  <2>1. CASE i <= Len(line)
    <3>1. i \in 1 .. Len(line) /\ DOMAIN line = 1 .. Len(line)
      BY <1>7, <1>8, <2>1
    <3>2. whole[i] = line[i] /\ line[i] \in Range(line)
      BY <1>8, <3>1 DEF Range
    <3> QED BY <3>2 DEF LinesInv, Open
  <2>2. CASE i > Len(line)
    <3> DEFINE k == i - Len(line)
    <3>1. k \in 1 .. used - 1 /\ k \in 1 .. used /\ i \in 1 .. Len(line) + used
      BY <1>8, <2>2
    <3>2. whole[i] = chunk[k]
      BY <1>4, <1>8, <2>2, <3>1
    <3> HIDE DEF k, whole, c
    <3> QED BY <1>2, <3>1, <3>2 DEF Ends
  <2> QED BY <1>8, <2>1, <2>2
<1>16. whole # <<>> /\ (sent[Last(whole)] = NL \/ Len(whole) >= RX_LINE_SIZE - 1)
  <2>1. whole[Len(whole)] = chunk[used]
    <3>1. Len(line) + used > Len(line) /\ (Len(line) + used) - Len(line) = used
          /\ Len(line) + used \in 1 .. Len(line) + used /\ used \in 1 .. used
      BY <1>8
    <3> QED BY <1>4, <1>8, <3>1
  <2>2. whole # <<>>
    <3>1. whole \in Seq(Nat) /\ Len(whole) > 0
      BY <1>7, <1>8
    <3> HIDE DEF whole, c
    <3> QED BY <3>1
  <2> HIDE DEF whole, c
  <2> QED BY <1>2, <1>8, <2>1, <2>2 DEF Ends, Last
<1>17. \A r \in raw : Precede({r}, Range(whole))
  <2> HIDE DEF whole, c
  <2> QED BY <1>11 DEF LinesInv, Open, Precede, Buffered
<1> HIDE DEF whole, c
<1>18. ASSUME NEW h \in Range(heard') PROVE Shut(h)' /\ Beside(Range(h.bytes))'
  <2>1. CASE h \in Range(heard)
    <3>1. Shut(h)'
      BY <1>0, <1>3, <2>1, StillShut DEF LinesInv
    <3> QED BY <1>3, <2>1, <3>1 DEF LinesInv, Beside
  <2>2. CASE h = rec
    <3>1. h.bytes = whole /\ h.cmd = Parse(whole)
      BY <1>10, <2>2
    <3>2. Parse(h.bytes)' = Parse(h.bytes)
      BY <1>3 DEF Parse
    <3>3. Shut(h)'
      BY <1>3, <1>15, <1>16, <3>1, <3>2 DEF Shut
    <3> QED BY <1>3, <1>17, <3>1, <3>3 DEF Beside
  <2> QED BY <1>9, <2>1, <2>2
<1> QED BY <1>13, <1>14, <1>18 DEF LinesInv

LEMMA LinesNext == LinesInv /\ [Next]_vars => LinesInv'
<1> SUFFICES ASSUME LinesInv, [Next]_vars PROVE LinesInv'
  OBVIOUS
<1>1. IInv'
  BY IInvNext DEF LinesInv
<1>2. CASE \E b \in Bytes : Receive(b)
  BY <1>1, <1>2, LinesReceive
<1>3. CASE Interrupt \/ KeepPartialLine \/ ReturnCommand \/ StartRead \/ FillBuffer
  BY <1>1, <1>3, LinesInterrupt, LinesKeep, LinesReturn, LinesStartRead, LinesFill
<1>4. CASE Tick \/ BusyDone \/ FlashDone \/ EndSession \/ ReadTimeout \/ UNCHANGED vars
  BY <1>1, <1>4, LinesControl
<1> QED BY <1>2, <1>3, <1>4 DEF Next

-----------------------------------------------------------------------------
(* Every line sent whole is heard                                          *)

\* The places of a line returned.
LEMMA LineOf ==
  ASSUME LinesInv, NEW h \in Range(heard)
  PROVE  /\ h.bytes \in Seq(Nat) /\ Ascending(h.bytes) /\ Positions(h.bytes) /\ Shut(h)
         /\ Len(h.bytes) \in Nat /\ Len(h.bytes) > 0
         /\ Range(h.bytes) \subseteq Returned /\ Range(h.bytes) \subseteq DOMAIN sent
         /\ Last(h.bytes) \in Range(h.bytes) /\ Last(h.bytes) = h.bytes[Len(h.bytes)]
         /\ \A x \in Range(h.bytes) : x <= Last(h.bytes) /\ (x < Last(h.bytes) => sent[x] # NL)
<1> DEFINE s == h.bytes
           R == [cmd : Words \cup {Unknown}, bytes : Seq(Nat)]
<1>1. s \in Seq(Nat) /\ s # <<>>
  <2>1. heard \in Seq(R)
    BY DEF LinesInv, IInv, Shapes
  <2>2. \A x \in R : x.bytes \in Seq(Nat)
    OBVIOUS
  <2> HIDE DEF R
  <2>3. h \in R
    BY <2>1 DEF Range
  <2> QED BY <2>2, <2>3 DEF LinesInv, Shut
<1>2. Ascending(s) /\ Shut(h)
  BY DEF LinesInv, IInv, OlderBytes
<1>3. Range(s) \subseteq Returned /\ Range(s) \subseteq DOMAIN sent
  BY Sent DEF Returned, LinesInv
<1>4. Positions(s) /\ Len(s) \in Nat /\ Len(s) > 0 /\ Last(s) = s[Len(s)]
  BY <1>1, PositionsOf DEF Last
<1>5. Last(s) \in Range(s)
  BY <1>4 DEF Positions
<1>6. ASSUME NEW x \in Range(s) PROVE x <= Last(s) /\ (x < Last(s) => sent[x] # NL)
  <2>1. PICK i \in 1 .. Len(s) : x = s[i]
    BY <1>4 DEF Positions
  <2>2. CASE i = Len(s)
    <3>1. s[i] \in Nat
      BY <1>1
    <3> QED BY <1>4, <2>1, <2>2, <3>1
  <2>3. CASE i < Len(s)
    <3>1. s[i] < s[Len(s)] /\ s[i] \in Nat /\ s[Len(s)] \in Nat
      <4>1. Len(s) \in 1 .. Len(s) /\ DOMAIN s = 1 .. Len(s)
        BY <1>4 DEF Positions
      <4> HIDE DEF s
      <4> QED BY <1>1, <1>2, <2>3, <4>1 DEF Ascending
    <3>2. i \in 1 .. Len(s) - 1
      BY <1>4, <2>3
    <3> QED BY <1>2, <1>4, <2>1, <3>1, <3>2 DEF Shut
  <2> QED BY <1>4, <2>2, <2>3
<1> QED BY <1>1, <1>2, <1>3, <1>4, <1>5, <1>6

\* What was sent before a byte of a line returned and was neither lost nor taken by a
\* session is on that line or on one before it.
LEMMA Earlier ==
  ASSUME LinesInv, NEW h \in Range(heard), NEW x \in Range(h.bytes), NEW y \in DOMAIN sent, y < x,
         y \notin lost, y \notin raw
  PROVE  \E g \in Range(heard) :
           /\ y \in Range(g.bytes)
           /\ g = h \/ Precede(Range(g.bytes), Range(h.bytes))
<1>1. x \in Returned /\ x \in Nat /\ y \in Nat
  BY LineOf, Sent DEF LinesInv
<1>2. y \in Returned
  <2>1. ~(x < y)
    BY <1>1
  <2>2. y \notin Range(line) /\ y \notin Range(ring) /\ y \notin Range(fifo)
    BY <1>1, <2>1 DEF LinesInv, IInv, NewerBytes, Ordered, Precede
  <2> QED BY <2>2 DEF LinesInv, Accounted, Buffered
<1>3. PICK g \in Range(heard) : y \in Range(g.bytes)
  BY <1>2 DEF Returned
<1>4. PICK m \in DOMAIN heard, n \in DOMAIN heard : g = heard[m] /\ h = heard[n]
  BY DEF Range
<1>5. m \in Nat /\ n \in Nat
  BY DEF LinesInv, IInv, Shapes
<1>6. CASE n < m
  <2>1. Precede(Range(h.bytes), Range(g.bytes))
    BY <1>4, <1>6 DEF LinesInv, IInv, OlderBytes
  <2>2. x < y
    BY <1>3, <2>1 DEF Precede
  <2> QED BY <1>1, <2>2
<1>7. CASE m < n
  BY <1>3, <1>4, <1>7 DEF LinesInv, IInv, OlderBytes
<1>8. m = n => g = h
  BY <1>4
<1>9. m < n \/ m = n \/ n < m
  BY <1>5
<1> QED BY <1>3, <1>6, <1>7, <1>8, <1>9

\* Between two bytes of one line there is no end of another.
LEMMA NoEndInside ==
  ASSUME LinesInv, NEW h \in Range(heard), NEW x \in Range(h.bytes), NEW z \in Range(h.bytes),
         NEW y \in DOMAIN sent, x <= y, y < z, y \notin lost
  PROVE  sent[y] # NL
<1>1. x \in Nat /\ y \in Nat /\ z \in Nat
  <2>1. x \in DOMAIN sent /\ z \in DOMAIN sent
    BY LineOf
  <2> QED BY <2>1, Sent DEF LinesInv
<1>2. y \in Range(h.bytes)
  <2> SUFFICES ASSUME x # y PROVE y \in Range(h.bytes)
    OBVIOUS
  <2>1. x < y
    BY <1>1
  <2>2. y \notin raw
    BY <1>1, <2>1 DEF LinesInv, Beside, Precede
  <2>3. PICK g \in Range(heard) : /\ y \in Range(g.bytes)
                                  /\ g = h \/ Precede(Range(g.bytes), Range(h.bytes))
    BY <2>2, Earlier
  <2>4. ~(y < x)
    BY <1>1, <2>1
  <2> QED BY <2>3, <2>4 DEF Precede
<1>3. y < Last(h.bytes)
  BY <1>1, LineOf, Sent DEF LinesInv
<1> QED BY <1>2, <1>3, LineOf

\* A word sent on a line of its own, and where it starts and ends.
LEMMA SentWord ==
  ASSUME NEW cmd \in Words, NEW from \in DOMAIN sent, NEW to \in from .. Len(sent), sent \in Seq(Bytes),
         SentAsLine(from, to, cmd)
  PROVE  /\ Len(cmd) = to - from /\ from < to /\ to - from <= RX_LINE_SIZE - 2 /\ cmd \in Seq(Letters)
         /\ \A i \in 1 .. Len(cmd) : sent[from + i - 1] = cmd[i]
         /\ \A x \in from .. to - 1 : sent[x] # NL
         /\ from \in Nat /\ to \in Nat /\ to \in DOMAIN sent /\ sent[to] = NL
<1>1. cmd \in Seq(Letters) /\ Len(cmd) \in 1 .. RX_LINE_SIZE - 2
  BY WordsFitALine
<1>2. /\ Len(sent) \in Nat /\ DOMAIN sent = 1 .. Len(sent) /\ to \in DOMAIN sent
      /\ from \in Nat /\ to \in Nat /\ 1 <= from /\ from <= to
  OBVIOUS
<1>3. cmd = SubSeq(sent, from, to - 1) /\ sent[to] = NL
  BY DEF SentAsLine
<1>4. Len(cmd) = to - from /\ \A i \in 1 .. to - from : cmd[i] = sent[from + i - 1]
  BY <1>2, <1>3
<1>5. ASSUME NEW x \in from .. to - 1 PROVE sent[x] # NL
  <2>1. x - from + 1 \in 1 .. Len(cmd) /\ from + (x - from + 1) - 1 = x
    BY <1>2, <1>4
  <2>2. sent[x] = cmd[x - from + 1]
    BY <1>4, <2>1
  <2>3. cmd[x - from + 1] \in Letters
    BY <1>1, <2>1
  <2> QED BY <2>2, <2>3, LettersAreOthers
<1> QED BY <1>1, <1>2, <1>3, <1>4, <1>5, Sizes

\* The line that ends with the word's newline holds that word and nothing else: a
\* newline before the word ends whatever came before it, and no line is cut inside.
LEMMA HoldsTheWord ==
  ASSUME LinesInv, NEW cmd \in Words, NEW from \in DOMAIN sent, NEW to \in from .. Len(sent),
         SentAsLine(from, to, cmd), (from - 1 .. to) \cap lost = {}, (from .. to) \cap raw = {},
         NEW h \in Range(heard), to \in Range(h.bytes)
  PROVE  Range(h.bytes) = from .. to /\ Last(h.bytes) = to
<1>1. /\ Len(cmd) = to - from /\ from < to /\ to - from <= RX_LINE_SIZE - 2
      /\ \A x \in from .. to - 1 : sent[x] # NL
      /\ from \in Nat /\ to \in Nat /\ to \in DOMAIN sent /\ sent[to] = NL
  BY SentWord DEF LinesInv, IInv, Shapes
<1>2. Len(sent) \in Nat /\ DOMAIN sent = 1 .. Len(sent)
  BY Sent DEF LinesInv
<1>3. ASSUME NEW g \in Range(heard), NEW z \in Range(g.bytes), z \in from .. to,
             NEW x \in Range(g.bytes)
      PROVE  from <= x
  <2> SUFFICES ASSUME x < from PROVE FALSE
    BY <1>1, <1>2, LineOf
  <2>1. x \in 1 .. Len(sent)
    BY <1>2, LineOf
  <2>2. from - 1 \in DOMAIN sent /\ x <= from - 1 /\ from - 1 < z /\ from # 1 /\ from - 1 \in from - 1 .. to
    BY <1>1, <1>2, <1>3, <2>1
  <2>3. sent[from - 1] = NL
    BY <2>2 DEF SentAsLine
  <2>4. from - 1 \notin lost
    BY <2>2
  <2> QED BY <1>3, <2>2, <2>3, <2>4, NoEndInside
<1>4. Last(h.bytes) = to
  <2>1. /\ to <= Last(h.bytes) /\ ~(to < Last(h.bytes))
    BY <1>1, LineOf
  <2>2. Last(h.bytes) \in Nat
    BY <1>2, LineOf
  <2> QED BY <1>1, <2>1, <2>2
<1>5. ASSUME NEW y \in from .. to PROVE y \in Range(h.bytes)
  <2> SUFFICES ASSUME y # to, y \notin Range(h.bytes) PROVE FALSE
    OBVIOUS
  <2>1. y \in DOMAIN sent /\ y < to /\ y \notin lost /\ y \notin raw /\ y \in Nat
    <3>1. y \in from - 1 .. to
      BY <1>1
    <3> QED BY <1>1, <1>2, <3>1
  <2>2. PICK g \in Range(heard) : y \in Range(g.bytes) /\ Precede(Range(g.bytes), Range(h.bytes))
    BY <2>1, Earlier
  <2> DEFINE s == g.bytes
             e == Last(s)
  <2>3. /\ s \in Seq(Nat) /\ Ascending(s) /\ Shut(g) /\ Len(s) \in Nat /\ Len(s) > 0 /\ e \in Range(s)
        /\ y <= e /\ e = s[Len(s)] /\ Positions(s)
    BY <2>2, LineOf
  <2>4. e < to
    BY <2>2, <2>3 DEF Precede
  <2>5. e \in DOMAIN sent /\ y <= e
    BY <2>3, LineOf
  <2>6. e \in from .. to - 1
    <3> HIDE DEF s, e
    <3> QED BY <1>1, <1>2, <2>4, <2>5
  <2>7. Len(s) >= RX_LINE_SIZE - 1
    BY <1>1, <2>3, <2>6 DEF Shut
  <2>8. 1 \in 1 .. Len(s) /\ Len(s) \in 1 .. Len(s)
    BY <2>3
  <2>9. s[1] + (Len(s) - 1) <= e /\ s[1] \in Nat
    BY <2>3, <2>8, Span
  <2>10. s[1] \in Range(s)
    BY <2>3, <2>8 DEF Positions
  <2>11. from <= s[1]
    <3>1. e \in from .. to
      BY <1>1, <2>6
    <3>2. e \in Range(g.bytes) /\ s[1] \in Range(g.bytes)
      BY <2>3, <2>10
    <3> HIDE DEF s, e
    <3> QED BY <1>3, <2>2, <3>1, <3>2
  <2> DEFINE k == Len(s)
             first == s[1]
  <2>12. k \in Nat /\ first \in Nat
    BY <2>3, <2>9
  <2>13. first + (k - 1) <= e /\ from <= first /\ k >= RX_LINE_SIZE - 1
    BY <2>7, <2>9, <2>11
  <2> HIDE DEF s, e, k, first
  <2>14. e \in Nat /\ e <= to - 1
    BY <1>1, <2>6
  <2>15. to - from <= RX_LINE_SIZE - 2 /\ from \in Nat /\ to \in Nat /\ RX_LINE_SIZE \in Nat
    BY <1>1, Sizes
  <2> QED BY <2>12, <2>13, <2>14, <2>15
<1>6. ASSUME NEW x \in Range(h.bytes) PROVE x \in from .. to
  <2>1. x \in Nat /\ x <= Last(h.bytes)
    BY <1>2, LineOf
  <2>2. to \in from .. to
    BY <1>1
  <2>3. from <= x
    BY <1>3, <2>2
  <2> QED BY <1>1, <1>4, <2>1, <2>3
<1> QED BY <1>4, <1>5, <1>6

\* Such a line is parsed as the command.
LEMMA ParsesTo ==
  ASSUME LinesInv, NEW cmd \in Words, NEW from \in DOMAIN sent, NEW to \in from .. Len(sent),
         SentAsLine(from, to, cmd), NEW s \in Seq(Nat), Ascending(s), Range(s) = from .. to
  PROVE  Parse(s) = cmd
<1>1. /\ Len(cmd) = to - from /\ from < to /\ cmd \in Seq(Letters)
      /\ \A i \in 1 .. Len(cmd) : sent[from + i - 1] = cmd[i]
      /\ from \in Nat /\ to \in Nat /\ sent[to] = NL
  BY SentWord DEF LinesInv, IInv, Shapes
<1>2. Len(s) = to - from + 1 /\ \A i \in 1 .. Len(s) : s[i] = from + i - 1
  <2>1. from <= to
    BY <1>1
  <2> QED BY <1>1, <2>1, WholeInterval
<1>3. sent \in Seq(Bytes) /\ DOMAIN sent = 1 .. Len(sent) /\ Len(sent) \in Nat
  BY Sent DEF LinesInv, IInv, Shapes
<1> DEFINE t == [i \in DOMAIN s |-> sent[s[i]]]
<1>4. DOMAIN s = 1 .. Len(cmd) + 1 /\ Len(cmd) \in Nat /\ Len(cmd) >= 1
  BY <1>1, <1>2
<1>5. \A i \in 1 .. Len(cmd) + 1 : t[i] = sent[from + i - 1] /\ from + i - 1 \in DOMAIN sent
  BY <1>1, <1>2, <1>3, <1>4
<1>6. t \in Seq(Bytes) /\ Len(t) = Len(cmd) + 1
  <2>1. \A i \in DOMAIN sent : sent[i] \in Bytes
    BY <1>3
  <2>2. \A i \in 1 .. Len(cmd) + 1 : t[i] \in Bytes
    BY <1>5, <2>1
  <2>3. DOMAIN t = 1 .. Len(cmd) + 1
    BY <1>4
  <2> HIDE DEF t
  <2>4. t = [i \in 1 .. Len(cmd) + 1 |-> t[i]]
    BY <2>3 DEF t
  <2> QED BY <1>4, <2>2, <2>3, <2>4
<1> HIDE DEF t
<1>7. \A i \in 1 .. Len(cmd) : t[i] = cmd[i]
  <2>1. \A i \in 1 .. Len(cmd) : i \in 1 .. Len(cmd) + 1
    BY <1>4
  <2> QED BY <1>1, <1>5, <2>1
<1>8. t[Len(cmd) + 1] = NL
  <2>1. from \in Nat /\ to \in Nat /\ Len(cmd) = to - from
    BY <1>1
  <2>2. from + (Len(cmd) + 1) - 1 = to /\ Len(cmd) + 1 \in 1 .. Len(cmd) + 1
    BY <1>4, <2>1
  <2> QED BY <1>1, <1>5, <2>2
<1>9. Trim(t) = cmd
  BY <1>1, <1>4, <1>6, <1>7, <1>8, TrimsTo
<1>10. Parse(s) = IF Trim(t) \in Words THEN Trim(t) ELSE Unknown
  BY DEF Parse, t
<1> QED BY <1>9, <1>10

\* Whatever came before it and however its bytes reached the loop, a command sent on a
\* line of its own, none of it lost or taken by a session, is returned once its newline
\* is read: for lines, rings and FIFOs of any size (uart_handler.rs:44-88).
THEOREM EveryLineIsHeard == Spec => []LinesAreHeard
<1>1. LinesInv => LinesAreHeard
  <2> SUFFICES ASSUME LinesInv, NEW from \in DOMAIN sent, NEW to \in from .. Len(sent), NEW cmd \in Words,
                      SentAsLine(from, to, cmd), (from - 1 .. to) \cap lost = {},
                      (from .. to) \cap raw = {}, to \notin Buffered
               PROVE  \E h \in Range(heard) : h.cmd = cmd /\ Last(h.bytes) = to
    BY DEF LinesAreHeard
  <2>1. to \in DOMAIN sent /\ sent[to] = NL /\ from \in Nat /\ to \in Nat /\ from < to
    BY SentWord DEF LinesInv, IInv, Shapes
  <2>2. to \in from - 1 .. to /\ to \in from .. to
    BY <2>1
  <2>3. to \in Returned
    BY <2>1, <2>2 DEF LinesInv, Accounted, Open
  <2>4. PICK h \in Range(heard) : to \in Range(h.bytes)
    BY <2>3 DEF Returned
  <2>5. Range(h.bytes) = from .. to /\ Last(h.bytes) = to
    BY <2>4, HoldsTheWord
  <2>6. h.bytes \in Seq(Nat) /\ Ascending(h.bytes) /\ h.cmd = Parse(h.bytes)
    BY LineOf DEF Shut
  <2>7. Parse(h.bytes) = cmd
    BY <2>5, <2>6, ParsesTo
  <2> QED BY <2>5, <2>6, <2>7
<1> QED BY <1>1, LinesInit, LinesNext, PTL DEF Spec
=============================================================================
