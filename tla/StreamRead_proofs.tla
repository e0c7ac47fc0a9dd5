-------------------------- MODULE StreamRead_proofs --------------------------
(***************************************************************************)
(* Proofs about OnCanRead of both sides: for a stream of any length, blocks *)
(* of any size, any spare room in the client's buffer and any cut of the   *)
(* stream by arrivals, the application gets the bytes in order and once,   *)
(* nothing it could have had stays behind, and an empty read is the FIN.   *)
(***************************************************************************)
EXTENDS StreamRead, TLAPS

\* Each byte is the successor of the one before.
Consecutive(q) == \A i \in 1..(Len(q) - 1) : q[i + 1] = q[i] + 1

\* What each step of OnCanRead knows.
PhaseInv ==
  /\ pc \in {"idle", "OnCanRead"} => buffer = <<>>
  /\ pc \in {"OnCanRead", "copy"} => ~fin_read
  /\ pc \in {"copy", "deliver"} => side = "client"
  /\ pc = "OnCanRead" => arrived > consumed \/ fin_arrived
  /\ pc \in {"OnCanRead", "copy", "deliver"} => (heard <=> handler)
  /\ heard => handler

\* The client's buffer holds what was taken last, and has room for the rest.
BufferInv ==
  /\ \A i \in 1..Len(buffer) : buffer[i] = consumed - Len(buffer) + i
  /\ Len(buffer) <= consumed
  /\ pc = "copy" =>
       /\ capacity = Len(buffer) + (arrived - consumed) + ExtraSpace
       /\ consumed = arrived => ~fin_arrived
  /\ pc = "deliver" =>
       /\ consumed = arrived
       /\ fin_read <=> fin_arrived
       /\ fin_read => buffer # <<>>

\* What was delivered ends where the buffer begins.
DeliveredInv ==
  /\ Consecutive(delivered)
  /\ delivered # <<>> =>
       handler /\ delivered[Len(delivered)] = consumed - Len(buffer)
  /\ side = "server" =>
       IF delivered = <<>> THEN consumed = 0 ELSE delivered[1] = 1

Inductive ==
  /\ TypeOK /\ PhaseInv /\ BufferInv /\ DeliveredInv
  /\ NothingStranded /\ EmptyReadIsFin

-----------------------------------------------------------------------------
(* Numbers and sequences                                                   *)

\* The first block is never empty while there is something to read.
LEMMA RegionFacts ==
  ASSUME TypeOK
  PROVE  /\ ReadableBytes \in Nat
         /\ Region \in Nat /\ Region <= ReadableBytes
         /\ Region = 0 => ReadableBytes = 0
<1>1. arrived \in Nat /\ consumed \in Nat /\ consumed <= arrived
  BY LengthType DEF TypeOK
<1>2. consumed % BlockSize \in 0..(BlockSize - 1)
  BY <1>1, BlockSizeType
<1>3. QED
  BY <1>1, <1>2, BlockSizeType DEF ReadableBytes, Region, MinOf

\* The bytes of a part of the stream.
LEMMA BytesFacts ==
  ASSUME NEW from \in Nat, NEW n \in Nat, from + n <= Length
  PROVE  /\ Bytes(from, n) \in Seq(1..Length)
         /\ Len(Bytes(from, n)) = n
         /\ \A i \in 1..n : Bytes(from, n)[i] = from + i
         /\ Bytes(from, n) = <<>> <=> n = 0
<1>1. \A i \in 1..n : from + i \in 1..Length
  BY LengthType
<1>2. Bytes(from, n) \in Seq(1..Length) /\ Len(Bytes(from, n)) = n
  BY <1>1 DEF Bytes
<1>3. \A i \in 1..n : Bytes(from, n)[i] = from + i
  BY DEF Bytes
<1>4. QED
  BY <1>2, <1>3

\* Bytes that follow the last of a sequence continue it.
LEMMA Join ==
  ASSUME NEW q \in Seq(1..Length), NEW r \in Seq(1..Length), NEW from \in Nat,
         Consecutive(q), r # <<>>,
         \A i \in 1..Len(r) : r[i] = from + i,
         q # <<>> => q[Len(q)] = from
  PROVE  /\ q \o r \in Seq(1..Length)
         /\ Consecutive(q \o r)
         /\ q \o r # <<>>
         /\ (q \o r)[Len(q \o r)] = from + Len(r)
         /\ (q \o r)[1] = IF q = <<>> THEN from + 1 ELSE q[1]
<1>1. /\ Len(q) \in Nat /\ Len(r) \in Nat /\ Len(r) > 0
      /\ q # <<>> <=> Len(q) > 0
  OBVIOUS
<1>2. /\ q \o r \in Seq(1..Length) /\ Len(q \o r) = Len(q) + Len(r)
      /\ \A i \in 1..Len(q) : (q \o r)[i] = q[i]
      /\ \A i \in 1..Len(r) : (q \o r)[Len(q) + i] = r[i]
  OBVIOUS
<1>3. (q \o r)[Len(q \o r)] = from + Len(r)
  BY <1>1, <1>2
<1>4. (q \o r)[1] = IF q = <<>> THEN from + 1 ELSE q[1]
  <2>1. CASE q = <<>>
    BY <1>1, <1>2, <2>1
  <2>2. CASE q # <<>>
    BY <1>1, <1>2, <2>2
  <2>3. QED
    BY <2>1, <2>2
<1>5. Consecutive(q \o r)
  <2>1. SUFFICES ASSUME NEW i \in 1..(Len(q) + Len(r) - 1)
                 PROVE  (q \o r)[i + 1] = (q \o r)[i] + 1
    BY <1>2 DEF Consecutive
  <2>2. CASE i < Len(q)
    <3>1. i \in 1..(Len(q) - 1) /\ i \in 1..Len(q) /\ i + 1 \in 1..Len(q)
      BY <1>1, <2>2
    <3>2. q[i + 1] = q[i] + 1
      BY <3>1 DEF Consecutive
    <3>3. QED
      BY <1>2, <3>1, <3>2
  <2>3. CASE i = Len(q)
    <3>1. (q \o r)[i] = from
      BY <1>1, <1>2, <2>3
    <3>2. (q \o r)[i + 1] = from + 1
      BY <1>1, <1>2, <2>3
    <3>3. QED
      BY <3>1, <3>2
  <2>4. CASE i > Len(q)
    <3>1. PICK k \in 1..(Len(r) - 1) : i = Len(q) + k
      <4>1. i - Len(q) \in 1..(Len(r) - 1)
        BY <1>1, <2>4
      <4>2. i = Len(q) + (i - Len(q))
        BY <1>1
      <4>3. QED
        BY <4>1, <4>2
    <3>2. k \in 1..Len(r) /\ k + 1 \in 1..Len(r) /\ i + 1 = Len(q) + (k + 1)
      BY <1>1, <3>1
    <3>3. (q \o r)[i] = from + k /\ (q \o r)[i + 1] = from + (k + 1)
      BY <1>2, <3>1, <3>2
    <3>4. QED
      BY <3>1, <3>3
  <2>5. QED
    BY <1>1, <2>2, <2>3, <2>4
<1>6. QED
  BY <1>1, <1>2, <1>3, <1>4, <1>5

-----------------------------------------------------------------------------
(* The application and the network                                         *)

\* The inductive invariant holds at the start.
LEMMA InitInductive == Init => Inductive
<1>1. SUFFICES ASSUME Init PROVE Inductive
  OBVIOUS
<1>2. /\ buffer = <<>> /\ delivered = <<>>
      /\ buffer \in Seq(1..Length) /\ delivered \in Seq(1..Length)
      /\ Len(buffer) = 0 /\ Len(delivered) = 0
  BY <1>1 DEF Init
<1>3. TypeOK
  <2>1. /\ arrived \in 0..Length /\ consumed \in 0..arrived
        /\ capacity \in 0..(Length + ExtraSpace) /\ empty_reads \in Nat
        /\ Len(buffer) <= capacity
    BY <1>1, <1>2, LengthType, ExtraSpaceType DEF Init
  <2>2. /\ fin_arrived = FALSE /\ fin_read = FALSE
        /\ handler = FALSE /\ heard = FALSE
    BY <1>1 DEF Init
  <2>3. side \in {"server", "client"} /\ pc = "idle"
    BY <1>1 DEF Init
  <2>4. QED
    BY <1>2, <2>1, <2>2, <2>3 DEF TypeOK
<1>4. PhaseInv /\ NothingStranded /\ EmptyReadIsFin
  <2>1. /\ pc = "idle" /\ buffer = <<>> /\ heard = FALSE
        /\ consumed = arrived /\ empty_reads = 0
    BY <1>1 DEF Init
  <2>2. fin_read = fin_arrived
    BY <1>1 DEF Init
  <2>3. QED
    BY <2>1, <2>2 DEF PhaseInv, NothingStranded, EmptyReadIsFin
<1>5. BufferInv
  BY <1>1, <1>2 DEF Init, BufferInv
<1>6. DeliveredInv
  BY <1>1, <1>2 DEF Init, DeliveredInv, Consecutive
<1>7. QED
  BY <1>3, <1>4, <1>5, <1>6 DEF Inductive

\* Nothing arrives after the FIN, so a visitor is never called after it.
LEMMA ArriveStep ==
  ASSUME Inductive, NEW n \in 0..Length, NEW fin \in BOOLEAN,
         DataArrives(n, fin)
  PROVE  Inductive'
<1>1. /\ pc = "idle" /\ ~fin_arrived /\ pc' = "OnCanRead"
      /\ arrived' = arrived + n /\ fin_arrived' = fin /\ heard' = handler
      /\ n > 0 \/ fin
      /\ arrived + n <= Length
      /\ UNCHANGED <<side, consumed, fin_read, handler, buffer, capacity,
                     delivered, empty_reads>>
  BY DEF DataArrives, taken, given
<1>2. /\ arrived \in Nat /\ consumed \in Nat /\ n \in Nat /\ consumed <= arrived
      /\ fin_read = FALSE /\ buffer = <<>>
  BY <1>1, LengthType DEF Inductive, TypeOK, PhaseInv
<1>3. TypeOK'
  <2>1. arrived' \in 0..Length /\ consumed' \in 0..arrived'
    BY <1>1, <1>2, LengthType
  <2>2. QED
    BY <1>1, <1>2, <2>1 DEF Inductive, TypeOK
<1>4. PhaseInv'
  BY <1>1, <1>2 DEF PhaseInv
<1>5. BufferInv'
  BY <1>1, <1>2 DEF Inductive, BufferInv
<1>6. DeliveredInv'
  BY <1>1 DEF Inductive, DeliveredInv, Consecutive
<1>7. NothingStranded' /\ EmptyReadIsFin'
  BY <1>1 DEF Inductive, NothingStranded, EmptyReadIsFin
<1>8. QED
  BY <1>3, <1>4, <1>5, <1>6, <1>7 DEF Inductive

\* A callback registered after the call does not change what the call did.
LEMMA RegisterStep ==
  ASSUME Inductive, onStreamRead
  PROVE  Inductive'
<1>1. /\ pc = "idle" /\ handler' = TRUE
      /\ UNCHANGED <<side, arrived, fin_arrived, consumed, fin_read, heard, pc,
                     buffer, capacity, delivered, empty_reads>>
  BY DEF onStreamRead, net, taken, given
<1>2. TypeOK'
  BY <1>1 DEF Inductive, TypeOK
<1>3. PhaseInv' /\ BufferInv'
  BY <1>1 DEF Inductive, PhaseInv, BufferInv
<1>4. DeliveredInv'
  BY <1>1 DEF Inductive, DeliveredInv, Consecutive
<1>5. NothingStranded' /\ EmptyReadIsFin'
  BY <1>1 DEF Inductive, NothingStranded, EmptyReadIsFin
<1>6. QED
  BY <1>2, <1>3, <1>4, <1>5 DEF Inductive

-----------------------------------------------------------------------------
(* The server                                                              *)

\* One read takes everything, and with it the FIN: a read of nothing is one of
\* the FIN alone, since the visitor is called for bytes or for the FIN.
LEMMA ReadStep ==
  ASSUME Inductive, Read
  PROVE  Inductive'
<1> DEFINE bytes == Bytes(consumed, ReadableBytes)
<1>1. /\ side = "server" /\ pc = "OnCanRead" /\ handler /\ pc' = "idle"
      /\ consumed' = consumed + ReadableBytes
      /\ fin_read' = FinNext(ReadableBytes)
      /\ Deliver(bytes)
      /\ UNCHANGED <<side, arrived, fin_arrived, handler, heard, buffer, capacity>>
  BY DEF Read, Take, net
<1>2. /\ arrived \in Nat /\ arrived <= Length
      /\ consumed \in Nat /\ consumed <= arrived
      /\ ReadableBytes = arrived - consumed /\ ReadableBytes \in Nat
      /\ fin_arrived \in BOOLEAN
  BY LengthType DEF Inductive, TypeOK, ReadableBytes
<1>3. consumed' = arrived /\ fin_read' = fin_arrived
  BY <1>1, <1>2 DEF FinNext
<1>4. /\ bytes \in Seq(1..Length) /\ Len(bytes) = ReadableBytes
      /\ \A i \in 1..Len(bytes) : bytes[i] = consumed + i
      /\ bytes = <<>> <=> ReadableBytes = 0
  <2>1. consumed + ReadableBytes <= Length
    BY <1>2
  <2>2. QED
    BY <1>2, <2>1, BytesFacts
<1>5. buffer = <<>> /\ Len(buffer) = 0 /\ ~fin_read
  BY <1>1 DEF Inductive, PhaseInv
<1>6. empty_reads \in Nat /\ empty_reads = 0
  BY <1>5 DEF Inductive, EmptyReadIsFin, TypeOK
<1>7. /\ delivered \in Seq(1..Length) /\ Consecutive(delivered)
      /\ delivered # <<>> => delivered[Len(delivered)] = consumed
      /\ IF delivered = <<>> THEN consumed = 0 ELSE delivered[1] = 1
  BY <1>1, <1>2, <1>5 DEF Inductive, TypeOK, DeliveredInv
<1>8. /\ delivered' \in Seq(1..Length) /\ Consecutive(delivered)'
      /\ delivered' # <<>> => delivered'[Len(delivered')] = arrived
      /\ IF delivered' = <<>> THEN arrived = 0 ELSE delivered'[1] = 1
      /\ empty_reads' \in Nat /\ empty_reads' <= 1
      /\ empty_reads' = 1 => fin_arrived
  <2>1. CASE bytes = <<>>
    <3>1. /\ delivered' = delivered /\ empty_reads' = 1 /\ consumed = arrived
          /\ fin_arrived
      BY <1>1, <1>2, <1>4, <1>6, <2>1 DEF Deliver, Inductive, PhaseInv
    <3>2. QED
      BY <1>7, <3>1 DEF Consecutive
  <2>2. CASE bytes # <<>>
    <3>1. delivered' = delivered \o bytes /\ empty_reads' = 0
      BY <1>1, <1>6, <2>2 DEF Deliver
    <3>2. /\ delivered \o bytes \in Seq(1..Length)
          /\ Consecutive(delivered \o bytes)
          /\ delivered \o bytes # <<>>
          /\ (delivered \o bytes)[Len(delivered \o bytes)] = consumed + Len(bytes)
          /\ (delivered \o bytes)[1] =
               IF delivered = <<>> THEN consumed + 1 ELSE delivered[1]
      BY <1>2, <1>4, <1>7, <2>2, Join
    <3>3. QED
      BY <1>2, <1>4, <1>7, <3>1, <3>2 DEF Consecutive
  <2>3. QED
    BY <2>1, <2>2
<1>9. TypeOK'
  BY <1>1, <1>2, <1>3, <1>8 DEF Inductive, TypeOK
<1>10. PhaseInv' /\ BufferInv'
  BY <1>1, <1>2, <1>3, <1>5 DEF Inductive, PhaseInv, BufferInv
<1>11. DeliveredInv'
  BY <1>1, <1>2, <1>3, <1>5, <1>8 DEF DeliveredInv
<1>12. NothingStranded' /\ EmptyReadIsFin'
  BY <1>1, <1>3, <1>8 DEF NothingStranded, EmptyReadIsFin
<1>13. QED
  BY <1>9, <1>10, <1>11, <1>12 DEF Inductive

\* With no callback registered nothing is copied.
LEMMA NobodyReadsStep ==
  ASSUME Inductive, NobodyReads
  PROVE  Inductive'
<1>1. /\ side = "server" /\ pc = "OnCanRead" /\ ~handler /\ pc' = "idle"
      /\ UNCHANGED <<side, arrived, fin_arrived, consumed, fin_read, handler,
                     heard, buffer, capacity, delivered, empty_reads>>
  BY DEF NobodyReads, net, taken, given
<1>2. TypeOK'
  BY <1>1 DEF Inductive, TypeOK
<1>3. PhaseInv' /\ BufferInv'
  BY <1>1 DEF Inductive, PhaseInv, BufferInv
<1>4. DeliveredInv'
  BY <1>1 DEF Inductive, DeliveredInv, Consecutive
<1>5. NothingStranded' /\ EmptyReadIsFin'
  BY <1>1 DEF Inductive, PhaseInv, NothingStranded, EmptyReadIsFin
<1>6. QED
  BY <1>2, <1>3, <1>4, <1>5 DEF Inductive

-----------------------------------------------------------------------------
(* The client                                                              *)

\* A FIN with no byte before it: the one empty read.
LEMMA FinOnlyStep ==
  ASSUME Inductive, ReadFinOnly
  PROVE  Inductive'
<1>1. /\ side = "client" /\ pc = "OnCanRead" /\ pc' = "idle"
      /\ Region = 0 /\ FinNext(0)
      /\ consumed' = consumed + 0 /\ fin_read' = FinNext(0)
      /\ UNCHANGED <<side, arrived, fin_arrived, handler, heard, buffer, capacity>>
  BY DEF ReadFinOnly, Take, net
<1>2. arrived \in Nat /\ consumed \in Nat /\ fin_arrived \in BOOLEAN
  BY LengthType DEF Inductive, TypeOK
<1>3. /\ consumed' = consumed /\ consumed = arrived
      /\ fin_read' = TRUE /\ fin_arrived = TRUE
  <2>1. consumed + 0 = arrived /\ fin_arrived
    BY <1>1 DEF FinNext
  <2>2. FinNext(0) = TRUE /\ fin_arrived = TRUE
    BY <1>2, <2>1 DEF FinNext
  <2>3. QED
    BY <1>1, <1>2, <2>1, <2>2
<1>4. /\ buffer = <<>> /\ ~fin_read /\ empty_reads = 0
      /\ heard <=> handler
  BY <1>1 DEF Inductive, PhaseInv, EmptyReadIsFin, TypeOK
<1>5. delivered' = delivered /\ empty_reads' \in {0, 1}
  <2>1. CASE handler
    BY <1>4, <2>1 DEF ReadFinOnly, Deliver
  <2>2. CASE ~handler
    BY <1>4, <2>2 DEF ReadFinOnly, given
  <2>3. QED
    BY <2>1, <2>2
<1>6. TypeOK'
  <2>1. empty_reads' \in Nat /\ fin_read' \in BOOLEAN
    BY <1>3, <1>5
  <2>2. fin_read' => fin_arrived' /\ consumed' = arrived'
    BY <1>1, <1>3
  <2>3. consumed' \in 0..arrived'
    BY <1>1, <1>3 DEF Inductive, TypeOK
  <2>4. QED
    BY <1>1, <1>5, <2>1, <2>2, <2>3 DEF Inductive, TypeOK
<1>7. PhaseInv'
  BY <1>1, <1>4 DEF Inductive, PhaseInv
<1>8. BufferInv'
  BY <1>1, <1>3 DEF Inductive, BufferInv
<1>9. DeliveredInv'
  BY <1>1, <1>3, <1>5 DEF Inductive, DeliveredInv, Consecutive
<1>10. NothingStranded' /\ EmptyReadIsFin'
  <2>1. fin_read' = fin_arrived' /\ consumed' = arrived'
    BY <1>1, <1>3
  <2>2. empty_reads' <= 1 /\ fin_read'
    BY <1>3, <1>5
  <2>3. QED
    BY <2>1, <2>2 DEF NothingStranded, EmptyReadIsFin
<1>11. QED
  BY <1>6, <1>7, <1>8, <1>9, <1>10 DEF Inductive

\* The buffer is made for what is readable, and there is something to copy or
\* no FIN.
LEMMA StartCopyStep ==
  ASSUME Inductive, StartCopy
  PROVE  Inductive'
<1>1. /\ side = "client" /\ pc = "OnCanRead" /\ pc' = "copy"
      /\ ~(Region = 0 /\ FinNext(0))
      /\ buffer' = <<>> /\ capacity' = ReadableBytes + ExtraSpace
      /\ UNCHANGED <<side, arrived, fin_arrived, consumed, fin_read, handler,
                     heard, delivered, empty_reads>>
  BY DEF StartCopy, net, taken, given
<1>2. /\ arrived \in Nat /\ arrived <= Length
      /\ consumed \in Nat /\ consumed <= arrived
      /\ ReadableBytes = arrived - consumed /\ ReadableBytes \in Nat
  BY LengthType DEF Inductive, TypeOK, ReadableBytes
<1>3. buffer' \in Seq(1..Length) /\ Len(buffer') = 0 /\ buffer = buffer'
  BY <1>1 DEF Inductive, PhaseInv
<1>4. consumed = arrived => ~fin_arrived
  <2>1. ASSUME consumed = arrived PROVE Region = 0
    <3>1. ReadableBytes = 0
      BY <1>2, <2>1
    <3>2. Region \in Nat /\ Region <= ReadableBytes
      BY RegionFacts DEF Inductive
    <3>3. QED
      BY <3>1, <3>2
  <2>2. QED
    BY <1>1, <1>2, <2>1 DEF FinNext
<1>5. TypeOK'
  <2>1. capacity' \in 0..(Length + ExtraSpace) /\ Len(buffer') <= capacity'
    BY <1>1, <1>2, <1>3, LengthType, ExtraSpaceType
  <2>2. QED
    BY <1>1, <1>3, <2>1 DEF Inductive, TypeOK
<1>6. PhaseInv'
  BY <1>1 DEF Inductive, PhaseInv
<1>7. BufferInv'
  BY <1>1, <1>2, <1>3, <1>4, ExtraSpaceType DEF BufferInv
<1>8. DeliveredInv'
  BY <1>1, <1>3 DEF Inductive, DeliveredInv, Consecutive
<1>9. NothingStranded' /\ EmptyReadIsFin'
  BY <1>1 DEF Inductive, NothingStranded, EmptyReadIsFin
<1>10. QED
  BY <1>5, <1>6, <1>7, <1>8, <1>9 DEF Inductive

\* What a round of the copy loop does to the buffer: it grows by what is taken,
\* and it takes something that has arrived.
LEMMA RoundFacts ==
  ASSUME Inductive, CopyRegion
  PROVE  /\ Room \in Nat /\ consumed + Room <= arrived
         /\ Bytes(consumed, Room) \in Seq(1..Length)
         /\ Len(Bytes(consumed, Room)) = Room
         /\ \A i \in 1..Room : Bytes(consumed, Room)[i] = consumed + i
         /\ buffer' \in Seq(1..Length) /\ Len(buffer') = Len(buffer) + Room
         /\ buffer' # <<>>
         /\ consumed' - Len(buffer') = consumed - Len(buffer)
<1> DEFINE more == Bytes(consumed, Room)
<1>1. /\ pc = "copy" /\ Room > 0
      /\ buffer' = buffer \o more
      /\ consumed' = consumed + Room /\ fin_read' = FinNext(Room)
      /\ pc' = IF fin_read' THEN "deliver" ELSE "copy"
      /\ UNCHANGED <<side, arrived, fin_arrived, handler, heard, capacity,
                     delivered, empty_reads>>
  BY DEF CopyRegion, Take, net, given
<1>2. /\ arrived \in Nat /\ arrived <= Length
      /\ consumed \in Nat /\ consumed <= arrived
      /\ ReadableBytes = arrived - consumed
      /\ buffer \in Seq(1..Length) /\ Len(buffer) \in Nat
      /\ capacity \in Nat
      /\ fin_arrived \in BOOLEAN
  BY LengthType, ExtraSpaceType DEF Inductive, TypeOK, ReadableBytes
<1>3. /\ capacity = Len(buffer) + (arrived - consumed) + ExtraSpace
      /\ \A i \in 1..Len(buffer) : buffer[i] = consumed - Len(buffer) + i
      /\ Len(buffer) <= consumed
  BY <1>1 DEF Inductive, BufferInv
<1>4. Room \in Nat /\ consumed + Room <= arrived
  <2>1. Region \in Nat /\ Region <= ReadableBytes
    BY RegionFacts DEF Inductive
  <2>2. QED
    BY <1>2, <1>3, <2>1, ExtraSpaceType DEF Room, MinOf
<1>5. /\ more \in Seq(1..Length) /\ Len(more) = Room
      /\ \A i \in 1..Room : more[i] = consumed + i
  <2>1. consumed + Room <= Length
    BY <1>2, <1>4, LengthType
  <2>2. QED
    BY <1>2, <1>4, <2>1, BytesFacts
<1>6. /\ buffer' \in Seq(1..Length) /\ Len(buffer') = Len(buffer) + Room
      /\ buffer' # <<>>
      /\ consumed' - Len(buffer') = consumed - Len(buffer)
  <2>1. /\ buffer \o more \in Seq(1..Length)
        /\ Len(buffer \o more) = Len(buffer) + Room
    BY <1>2, <1>5
  <2>2. Len(buffer \o more) > 0
    BY <1>1, <1>2, <1>4, <2>1
  <2>3. buffer \o more # <<>>
    BY <2>2
  <2>4. consumed' - (Len(buffer) + Room) = consumed - Len(buffer)
    BY <1>1, <1>2, <1>4
  <2>5. QED
    BY <1>1, <2>1, <2>3, <2>4
<1>7. QED
  BY <1>4, <1>5, <1>6

\* A round of the copy loop: the room never cuts a block, and the round that
\* takes the last byte takes the FIN that has arrived.
LEMMA CopyStep ==
  ASSUME Inductive, CopyRegion
  PROVE  Inductive'
<1> DEFINE more == Bytes(consumed, Room)
<1>1. /\ pc = "copy" /\ Room > 0
      /\ buffer' = buffer \o more
      /\ consumed' = consumed + Room /\ fin_read' = FinNext(Room)
      /\ pc' = IF fin_read' THEN "deliver" ELSE "copy"
      /\ UNCHANGED <<side, arrived, fin_arrived, handler, heard, capacity,
                     delivered, empty_reads>>
  BY DEF CopyRegion, Take, net, given
<1>2. /\ arrived \in Nat /\ arrived <= Length
      /\ consumed \in Nat /\ consumed <= arrived
      /\ ReadableBytes = arrived - consumed
      /\ buffer \in Seq(1..Length) /\ Len(buffer) \in Nat
      /\ capacity \in Nat
      /\ fin_arrived \in BOOLEAN
  BY LengthType, ExtraSpaceType DEF Inductive, TypeOK, ReadableBytes
<1>3. /\ capacity = Len(buffer) + (arrived - consumed) + ExtraSpace
      /\ \A i \in 1..Len(buffer) : buffer[i] = consumed - Len(buffer) + i
      /\ Len(buffer) <= consumed
  BY <1>1 DEF Inductive, BufferInv
<1>4. Room \in Nat /\ consumed + Room <= arrived
  BY RoundFacts
<1>5. /\ more \in Seq(1..Length) /\ Len(more) = Room
      /\ \A i \in 1..Room : more[i] = consumed + i
  BY RoundFacts
<1>6. /\ buffer' \in Seq(1..Length) /\ Len(buffer') = Len(buffer) + Room
      /\ buffer' # <<>>
      /\ consumed' - Len(buffer') = consumed - Len(buffer)
  BY RoundFacts
<1>7. \A i \in 1..Len(buffer') : buffer'[i] = consumed' - Len(buffer') + i
  <2>1. SUFFICES ASSUME NEW i \in 1..(Len(buffer) + Room)
                 PROVE  (buffer \o more)[i] = consumed - Len(buffer) + i
    BY <1>1, <1>6
  <2>2. CASE i <= Len(buffer)
    <3>1. i \in 1..Len(buffer)
      BY <1>2, <1>4, <2>2
    <3>2. (buffer \o more)[i] = buffer[i]
      BY <1>2, <1>5, <3>1
    <3>3. QED
      BY <1>3, <3>1, <3>2
  <2>3. CASE i > Len(buffer)
    <3>1. i - Len(buffer) \in 1..Room
      BY <1>2, <1>4, <2>3
    <3>2. (buffer \o more)[i] = more[i - Len(buffer)]
      BY <1>2, <1>4, <1>5, <2>3
    <3>3. more[i - Len(buffer)] = consumed + (i - Len(buffer))
      BY <1>5, <3>1
    <3>4. QED
      BY <1>2, <1>4, <3>2, <3>3
  <2>4. i <= Len(buffer) \/ i > Len(buffer)
    BY <1>2, <1>4
  <2>5. QED
    BY <2>2, <2>3, <2>4
<1>8. /\ fin_read' \in BOOLEAN
      /\ fin_read' <=> fin_arrived /\ consumed' = arrived
  BY <1>1, <1>2 DEF FinNext
<1>9. TypeOK'
  <2>1. consumed' \in 0..arrived'
    BY <1>1, <1>2, <1>4
  <2>2. Len(buffer') <= capacity'
    BY <1>1, <1>2, <1>3, <1>4, <1>6, ExtraSpaceType
  <2>3. fin_read' => fin_arrived' /\ consumed' = arrived'
    BY <1>1, <1>8
  <2>4. pc' \in {"idle", "OnCanRead", "copy", "deliver"}
    BY <1>1
  <2>5. QED
    BY <1>1, <1>6, <1>8, <2>1, <2>2, <2>3, <2>4 DEF Inductive, TypeOK
<1>10. PhaseInv'
  BY <1>1 DEF Inductive, PhaseInv
<1>11. BufferInv'
  <2>1. Len(buffer') <= consumed'
    BY <1>1, <1>2, <1>3, <1>4, <1>6
  <2>2. capacity' = Len(buffer') + (arrived' - consumed') + ExtraSpace
    BY <1>1, <1>2, <1>3, <1>4, <1>6, ExtraSpaceType
  <2>3. QED
    BY <1>1, <1>6, <1>7, <1>8, <2>1, <2>2 DEF BufferInv
<1>12. DeliveredInv'
  <2>1. side = "client"
    BY <1>1 DEF Inductive, PhaseInv
  <2>2. QED
    BY <1>1, <1>6, <2>1 DEF Inductive, DeliveredInv, Consecutive
<1>13. NothingStranded' /\ EmptyReadIsFin'
  <2>1. ~fin_read
    BY <1>1 DEF Inductive, PhaseInv
  <2>2. QED
    BY <1>1, <2>1 DEF Inductive, NothingStranded, EmptyReadIsFin
<1>14. QED
  BY <1>9, <1>10, <1>11, <1>12, <1>13 DEF Inductive

\* The loop ends when everything is copied, never for lack of room.
LEMMA CopyEndsStep ==
  ASSUME Inductive, CopyEnds
  PROVE  Inductive'
<1>1. /\ pc = "copy" /\ Room = 0 /\ pc' = "deliver"
      /\ UNCHANGED <<side, arrived, fin_arrived, consumed, fin_read, handler,
                     heard, buffer, capacity, delivered, empty_reads>>
  BY DEF CopyEnds, net, taken, given
<1>2. /\ arrived \in Nat /\ consumed \in Nat /\ consumed <= arrived
      /\ ReadableBytes = arrived - consumed
      /\ Len(buffer) \in Nat
  BY LengthType DEF Inductive, TypeOK, ReadableBytes
<1>3. capacity = Len(buffer) + (arrived - consumed) + ExtraSpace
  BY <1>1 DEF Inductive, BufferInv
<1>4. consumed = arrived
  <2>1. Region \in Nat /\ (Region = 0 => ReadableBytes = 0)
    BY RegionFacts DEF Inductive
  <2>2. QED
    BY <1>1, <1>2, <1>3, <2>1, ExtraSpaceType DEF Room, MinOf
<1>5. ~fin_arrived /\ ~fin_read
  BY <1>1, <1>4 DEF Inductive, PhaseInv, BufferInv
<1>6. TypeOK'
  BY <1>1 DEF Inductive, TypeOK
<1>7. PhaseInv'
  BY <1>1 DEF Inductive, PhaseInv
<1>8. BufferInv'
  BY <1>1, <1>4, <1>5 DEF Inductive, BufferInv
<1>9. DeliveredInv'
  BY <1>1 DEF Inductive, DeliveredInv, Consecutive
<1>10. NothingStranded' /\ EmptyReadIsFin'
  BY <1>1 DEF Inductive, NothingStranded, EmptyReadIsFin
<1>11. QED
  BY <1>6, <1>7, <1>8, <1>9, <1>10 DEF Inductive

\* The buffer continues what was delivered before; it is never empty when the
\* FIN came with it.
LEMMA DeliverStep ==
  ASSUME Inductive, DeliverBuffer
  PROVE  Inductive'
<1>1. /\ pc = "deliver" /\ pc' = "idle"
      /\ buffer' = <<>> /\ capacity' = 0
      /\ IF handler /\ (buffer # <<>> \/ fin_read)
         THEN Deliver(buffer) ELSE UNCHANGED given
      /\ UNCHANGED <<side, arrived, fin_arrived, consumed, fin_read, handler,
                     heard>>
  BY DEF DeliverBuffer, net, taken
<1>2. /\ consumed \in Nat /\ buffer \in Seq(1..Length) /\ Len(buffer) \in Nat
      /\ delivered \in Seq(1..Length)
  BY LengthType DEF Inductive, TypeOK
<1>3. /\ \A i \in 1..Len(buffer) : buffer[i] = consumed - Len(buffer) + i
      /\ Len(buffer) <= consumed
      /\ consumed = arrived /\ (fin_read <=> fin_arrived)
      /\ fin_read => buffer # <<>>
  BY <1>1 DEF Inductive, BufferInv
<1>4. side = "client"
  BY <1>1 DEF Inductive, PhaseInv
<1>5. /\ Consecutive(delivered)
      /\ delivered # <<>> =>
           handler /\ delivered[Len(delivered)] = consumed - Len(buffer)
  BY DEF Inductive, DeliveredInv
<1>6. /\ delivered' \in Seq(1..Length) /\ Consecutive(delivered)'
      /\ delivered' # <<>> => handler /\ delivered'[Len(delivered')] = consumed
      /\ empty_reads' = empty_reads
  <2>1. CASE handler /\ buffer # <<>>
    <3>1. delivered' = delivered \o buffer /\ empty_reads' = empty_reads
      BY <1>1, <2>1 DEF Deliver
    <3>2. PICK from \in Nat : from = consumed - Len(buffer)
      <4>1. consumed - Len(buffer) \in Nat
        BY <1>2, <1>3
      <4>2. QED
        BY <4>1
    <3>3. /\ \A i \in 1..Len(buffer) : buffer[i] = from + i
          /\ delivered # <<>> => delivered[Len(delivered)] = from
          /\ from + Len(buffer) = consumed
          /\ buffer # <<>> /\ Consecutive(delivered)
          /\ buffer \in Seq(1..Length) /\ delivered \in Seq(1..Length)
      BY <1>2, <1>3, <1>5, <2>1, <3>2
    <3>4. /\ delivered \o buffer \in Seq(1..Length)
          /\ Consecutive(delivered \o buffer)
          /\ delivered \o buffer # <<>>
          /\ (delivered \o buffer)[Len(delivered \o buffer)] = from + Len(buffer)
          /\ (delivered \o buffer)[1] =
               IF delivered = <<>> THEN from + 1 ELSE delivered[1]
      BY <3>3, Join
    <3>5. QED
      BY <2>1, <3>1, <3>3, <3>4 DEF Consecutive
  <2>2. CASE ~handler \/ buffer = <<>>
    <3>1. delivered' = delivered /\ empty_reads' = empty_reads
      BY <1>1, <1>3, <2>2 DEF given
    <3>2. delivered # <<>> => Len(buffer) = 0
      BY <1>5, <2>2
    <3>3. QED
      BY <1>2, <1>5, <3>1, <3>2 DEF Consecutive
  <2>3. QED
    BY <2>1, <2>2
<1>7. TypeOK'
  <2>1. /\ buffer' \in Seq(1..Length) /\ Len(buffer') <= capacity'
        /\ capacity' \in 0..(Length + ExtraSpace)
    BY <1>1, LengthType, ExtraSpaceType
  <2>2. QED
    BY <1>1, <1>6, <2>1 DEF Inductive, TypeOK
<1>8. PhaseInv'
  BY <1>1 DEF Inductive, PhaseInv
<1>9. BufferInv'
  BY <1>1, <1>2 DEF BufferInv
<1>10. DeliveredInv'
  BY <1>1, <1>2, <1>4, <1>6 DEF DeliveredInv
<1>11. NothingStranded'
  <2>1. fin_read = fin_arrived
    BY <1>3 DEF Inductive, TypeOK
  <2>2. QED
    BY <1>1, <1>3, <2>1 DEF NothingStranded
<1>12. EmptyReadIsFin'
  BY <1>1, <1>6 DEF Inductive, EmptyReadIsFin
<1>13. QED
  BY <1>7, <1>8, <1>9, <1>10, <1>11, <1>12 DEF Inductive

-----------------------------------------------------------------------------
(* The theorems                                                            *)

\* Every step keeps the inductive invariant.
LEMMA NextInductive == Inductive /\ [Next]_vars => Inductive'
<1>1. SUFFICES ASSUME Inductive, [Next]_vars PROVE Inductive'
  OBVIOUS
<1>2. CASE UNCHANGED vars
  BY <1>1, <1>2
  DEF Inductive, TypeOK, PhaseInv, BufferInv, DeliveredInv, Consecutive,
      NothingStranded, EmptyReadIsFin, vars, net, taken, given
<1>3. CASE OnCanRead
  BY <1>1, <1>3, ReadStep, NobodyReadsStep, FinOnlyStep, StartCopyStep, CopyStep,
     CopyEndsStep, DeliverStep DEF OnCanRead
<1>4. CASE \E n \in 0..Length, fin \in BOOLEAN : DataArrives(n, fin)
  BY <1>1, <1>4, ArriveStep
<1>5. CASE onStreamRead
  BY <1>1, <1>5, RegisterStep
<1>6. QED
  BY <1>1, <1>2, <1>3, <1>4, <1>5 DEF Next

\* The invariant of reading a stream.
THEOREM InductiveInvariant == Spec => []Inductive
<1>1. QED
  BY InitInductive, NextInductive, PTL DEF Spec

\* Every variable has its type; the client's buffer never overflows.
THEOREM TypeCorrect == Spec => []TypeOK
<1>1. Inductive => TypeOK
  BY DEF Inductive
<1>2. QED
  BY <1>1, InductiveInvariant, PTL

\* OnCanRead gives the application the bytes in order, each of them once, up
\* to the last that was taken; on the server, from the first of the stream.
THEOREM DeliversInOrder == Spec => []BytesInOrder
<1>1. Inductive => BytesInOrder
  <2>1. SUFFICES ASSUME Inductive PROVE BytesInOrder
    OBVIOUS
  <2>2. Consecutive(delivered)
    BY <2>1 DEF Inductive, DeliveredInv
  <2>3. pc = "idle" /\ delivered # <<>> => Last(delivered) = consumed
    <3>1. pc = "idle" => Len(buffer) = 0
      BY <2>1 DEF Inductive, PhaseInv
    <3>2. consumed \in Nat
      BY <2>1, LengthType DEF Inductive, TypeOK
    <3>3. QED
      BY <2>1, <3>1, <3>2 DEF Inductive, DeliveredInv, Last
  <2>4. side = "server" /\ delivered # <<>> => delivered[1] = 1
    BY <2>1 DEF Inductive, DeliveredInv
  <2>5. QED
    BY <2>2, <2>3, <2>4 DEF BytesInOrder, Consecutive
<1>2. QED
  BY <1>1, InductiveInvariant, PTL

\* OnCanRead leaves no byte and no FIN behind that nothing would announce
\* again, except on a server that had no callback when they came.
THEOREM TakesEverything == Spec => []NothingStranded
<1>1. Inductive => NothingStranded
  BY DEF Inductive
<1>2. QED
  BY <1>1, InductiveInvariant, PTL

\* The read callback is called without a byte at most once, and for the FIN.
THEOREM EmptyReadMeansFin == Spec => []EmptyReadIsFin
<1>1. Inductive => EmptyReadIsFin
  BY DEF Inductive
<1>2. QED
  BY <1>1, InductiveInvariant, PTL

-----------------------------------------------------------------------------
(* OnCanRead amounts to one read                                           *)

\* The client's callback is never due with an empty buffer: the FIN alone goes
\* another way.  Without this a call of OnCanRead could end in no callback.
CopyInv ==
  /\ pc = "copy" => buffer # <<>> \/ consumed < arrived
  /\ pc = "deliver" => buffer # <<>>

\* The copy loop is entered for bytes, and does not end before it has some.
LEMMA CopyInvStep == Inductive /\ CopyInv /\ [Next]_vars => CopyInv'
<1>1. SUFFICES ASSUME Inductive, CopyInv, [Next]_vars PROVE CopyInv'
  OBVIOUS
<1>2. /\ arrived \in Nat /\ consumed \in Nat /\ consumed <= arrived
      /\ buffer \in Seq(1..Length) /\ Len(buffer) \in Nat
      /\ fin_arrived \in BOOLEAN
  BY <1>1, LengthType DEF Inductive, TypeOK
<1>3. /\ Region \in Nat /\ (Region = 0 => arrived - consumed = 0)
  BY <1>1, RegionFacts DEF Inductive, ReadableBytes
<1>4. CASE StartCopy
  <2>1. /\ pc = "OnCanRead" /\ pc' = "copy"
        /\ ~(Region = 0 /\ FinNext(0))
        /\ UNCHANGED <<arrived, consumed>>
    BY <1>4 DEF StartCopy, net, taken
  <2>2. arrived > consumed \/ fin_arrived
    BY <1>1, <2>1 DEF Inductive, PhaseInv
  <2>3. consumed < arrived
    <3>1. ASSUME arrived = consumed PROVE FALSE
      <4>1. Region = 0
        BY <1>1, <1>2, <1>3, <3>1, RegionFacts DEF Inductive, ReadableBytes
      <4>2. FinNext(0)
        BY <1>2, <2>2, <3>1 DEF FinNext
      <4>3. QED
        BY <2>1, <4>1, <4>2
    <3>2. QED
      BY <1>2, <3>1
  <2>4. QED
    BY <2>1, <2>3 DEF CopyInv
<1>5. CASE CopyRegion
  <2>1. buffer' # <<>>
    BY <1>1, <1>5, RoundFacts
  <2>2. QED
    BY <2>1 DEF CopyInv
<1>6. CASE CopyEnds
  <2>1. pc = "copy" /\ Room = 0 /\ pc' = "deliver" /\ buffer' = buffer
    BY <1>6 DEF CopyEnds
  <2>2. capacity = Len(buffer) + (arrived - consumed) + ExtraSpace
    BY <1>1, <2>1 DEF Inductive, BufferInv
  <2>3. consumed = arrived
    <3>1. ASSUME consumed < arrived PROVE FALSE
      <4>1. capacity - Len(buffer) > 0 /\ Region > 0
        BY <1>2, <1>3, <2>2, <3>1, ExtraSpaceType
      <4>2. QED
        BY <2>1, <4>1 DEF Room, MinOf
    <3>2. QED
      BY <1>2, <3>1
  <2>4. QED
    BY <1>1, <1>2, <2>1, <2>3 DEF CopyInv
<1>7. CASE UNCHANGED vars
  BY <1>1, <1>7 DEF CopyInv, vars, net, taken
<1>8. CASE \/ Read \/ NobodyReads \/ ReadFinOnly \/ DeliverBuffer \/ onStreamRead
           \/ \E n \in 0..Length, fin \in BOOLEAN : DataArrives(n, fin)
  <2>1. pc' \in {"idle", "OnCanRead"}
    BY <1>8 DEF Read, NobodyReads, ReadFinOnly, DeliverBuffer, onStreamRead,
                DataArrives
  <2>2. QED
    BY <2>1 DEF CopyInv
<1>9. QED
  BY <1>1, <1>4, <1>5, <1>6, <1>7, <1>8 DEF Next, OnCanRead

\* What counts as taken.
LEMMA TakenFacts ==
  ASSUME Inductive
  PROVE  /\ arrived \in Nat /\ consumed \in Nat /\ consumed <= arrived
         /\ Len(buffer) \in Nat /\ consumed - Len(buffer) \in Nat
         /\ pc \in {"idle", "OnCanRead"} => consumed - Len(buffer) = consumed
<1>1. arrived \in Nat /\ consumed \in Nat /\ consumed <= arrived
      /\ Len(buffer) \in Nat
  BY LengthType DEF Inductive, TypeOK
<1>2. Len(buffer) <= consumed
  BY DEF Inductive, BufferInv
<1>3. pc \in {"idle", "OnCanRead"} => Len(buffer) = 0
  BY DEF Inductive, PhaseInv
<1>4. QED
  BY <1>1, <1>2, <1>3

\* A call of OnCanRead that returns with everything taken is TakesAll.
LEMMA AllTaken ==
  ASSUME Inductive, pc # "idle", pc' = "idle",
         consumed' - Len(buffer') = arrived, fin_read' = fin_arrived,
         UNCHANGED <<side, arrived, fin_arrived, handler>>
  PROVE  Atomic!TakesAll
<1>1. (pc # "idle") = TRUE /\ (pc' # "idle") = FALSE
  OBVIOUS
<1>2. fin_arrived \in BOOLEAN
  BY DEF Inductive, TypeOK
<1>3. (pc' = "idle" /\ fin_read') = fin_arrived
  <2>1. CASE fin_arrived = TRUE
    BY <2>1
  <2>2. CASE fin_arrived = FALSE
    BY <2>2
  <2>3. QED
    BY <1>2, <2>1, <2>2
<1>4. QED
  BY <1>1, <1>3, Zenon DEF Atomic!TakesAll

\* Arrivals and the registration of a callback are those of AtomicRead.
LEMMA OutsideRefines ==
  ASSUME Inductive,
         onStreamRead \/ \E n \in 0..Length, fin \in BOOLEAN : DataArrives(n, fin)
  PROVE  Atomic!Next
<1>1. CASE onStreamRead
  <2>1. Atomic!Registers
    BY <1>1 DEF onStreamRead, Atomic!Registers, net, taken, given
  <2>2. QED
    BY <2>1 DEF Atomic!Next
<1>2. CASE \E n \in 0..Length, fin \in BOOLEAN : DataArrives(n, fin)
  <2>1. PICK n \in 0..Length : \E fin \in BOOLEAN : DataArrives(n, fin)
    BY <1>2
  <2>2. PICK fin \in BOOLEAN : DataArrives(n, fin)
    BY <2>1
  <2>3. ~fin_read
    BY <2>2 DEF DataArrives, Inductive, TypeOK
  <2>4. Atomic!Arrives(n, fin)
    BY <2>2, <2>3 DEF DataArrives, Atomic!Arrives, taken, given
  <2>5. QED
    BY <2>4 DEF Atomic!Next
<1>3. QED
  BY <1>1, <1>2

\* The server reads everything, or leaves it, at once.
LEMMA ServerRefines ==
  ASSUME Inductive, Read \/ NobodyReads
  PROVE  Atomic!Next
<1>1. /\ arrived \in Nat /\ consumed \in Nat /\ consumed <= arrived
      /\ consumed - Len(buffer) = consumed /\ buffer' = buffer
      /\ pc = "OnCanRead" /\ pc' = "idle"
      /\ ~fin_read
  <2>1. pc = "OnCanRead" /\ pc' = "idle" /\ buffer' = buffer
    BY DEF Read, NobodyReads
  <2>2. ~fin_read
    BY <2>1 DEF Inductive, PhaseInv
  <2>3. QED
    BY <2>1, <2>2, TakenFacts
<1>2. CASE Read
  <2>1. /\ handler /\ consumed' = consumed + (arrived - consumed)
        /\ fin_read' = FinNext(arrived - consumed)
        /\ Deliver(Bytes(consumed, arrived - consumed))
        /\ UNCHANGED <<side, arrived, fin_arrived, handler>>
    BY <1>2 DEF Read, Take, ReadableBytes, net
  <2>2. /\ consumed' = arrived /\ Len(buffer) = 0
        /\ consumed' - Len(buffer') = arrived
    BY <1>1, <2>1, TakenFacts
  <2>3. fin_read' = fin_arrived
    BY <1>1, <2>1 DEF FinNext, Inductive, TypeOK
  <2>4. Bytes(consumed, arrived - consumed) = <<>> <=> arrived = consumed
    <3>1. arrived <= Length /\ arrived - consumed \in Nat
          /\ consumed + (arrived - consumed) <= Length
      BY <1>1, LengthType DEF Inductive, TypeOK
    <3>2. Bytes(consumed, arrived - consumed) = <<>> <=> arrived - consumed = 0
      BY <1>1, <3>1, BytesFacts
    <3>3. QED
      BY <1>1, <3>2
  <2>5. Atomic!TakesAll
    BY <1>1, <2>1, <2>2, <2>3, AllTaken
  <2>6. Atomic!Delivers
    BY <1>1, <2>1, <2>4, <2>5 DEF Atomic!Delivers, Deliver, Bytes
  <2>7. QED
    BY <2>6 DEF Atomic!Next
<1>3. CASE NobodyReads
  <2>1. Atomic!Keeps
    BY <1>1, <1>3 DEF NobodyReads, Atomic!Keeps, net, taken, given
  <2>2. QED
    BY <2>1 DEF Atomic!Next
<1>4. QED
  BY <1>2, <1>3

\* The client, for the FIN alone.
LEMMA FinRefines ==
  ASSUME Inductive, ReadFinOnly
  PROVE  Atomic!Next
<1>1. /\ pc = "OnCanRead" /\ pc' = "idle" /\ side = "client"
      /\ fin_arrived /\ consumed + 0 = arrived /\ consumed' = consumed + 0
      /\ fin_read' = FinNext(0) /\ buffer' = buffer
      /\ IF handler THEN Deliver(<<>>) ELSE UNCHANGED given
      /\ UNCHANGED <<side, arrived, fin_arrived, handler>>
  BY DEF ReadFinOnly, Take, FinNext, net
<1>2. /\ consumed = arrived /\ consumed' = arrived
      /\ consumed - Len(buffer) = arrived /\ consumed' - Len(buffer') = arrived
  BY <1>1, TakenFacts
<1>3. ~fin_read /\ fin_read' = fin_arrived
  BY <1>1 DEF Inductive, PhaseInv, TypeOK, FinNext
<1>4. Atomic!TakesAll
  BY <1>1, <1>2, <1>3, AllTaken
<1>5. CASE handler
  <2>1. empty_reads' = empty_reads + 1 /\ UNCHANGED delivered
    BY <1>1, <1>5 DEF Deliver
  <2>2. Atomic!Delivers
    BY <1>2, <1>4, <1>5, <2>1 DEF Atomic!Delivers
  <2>3. QED
    BY <2>2 DEF Atomic!Next
<1>6. CASE ~handler
  <2>1. Atomic!Drops
    BY <1>1, <1>4, <1>6 DEF Atomic!Drops, given
  <2>2. QED
    BY <2>1 DEF Atomic!Next
<1>7. QED
  BY <1>5, <1>6

\* No step of the copy loop shows.
LEMMA CopyRefines ==
  ASSUME Inductive, StartCopy \/ CopyRegion \/ CopyEnds
  PROVE  UNCHANGED <<side, arrived, fin_arrived, pc # "idle",
                     consumed - Len(buffer), pc = "idle" /\ fin_read,
                     handler, delivered, empty_reads>>
<1>1. /\ pc \in {"OnCanRead", "copy"} /\ pc' \in {"copy", "deliver"}
      /\ UNCHANGED <<side, arrived, fin_arrived, handler, delivered, empty_reads>>
  BY DEF StartCopy, CopyRegion, CopyEnds, net, given
<1>2. consumed' - Len(buffer') = consumed - Len(buffer)
  <2>1. CASE StartCopy
    <3>1. pc = "OnCanRead" /\ buffer' = <<>> /\ consumed' = consumed
      BY <2>1 DEF StartCopy, taken
    <3>2. buffer = <<>>
      BY <3>1 DEF Inductive, PhaseInv
    <3>3. QED
      BY <3>1, <3>2
  <2>2. CASE CopyRegion
    BY <2>2, RoundFacts
  <2>3. CASE CopyEnds
    BY <2>3 DEF CopyEnds, taken
  <2>4. QED
    BY <2>1, <2>2, <2>3
<1>3. QED
  BY <1>1, <1>2

\* When the callback is called with the buffer, everything happens at once.
LEMMA DeliverRefines ==
  ASSUME Inductive, CopyInv, DeliverBuffer
  PROVE  Atomic!Next
<1>1. /\ pc = "deliver" /\ pc' = "idle" /\ buffer' = <<>>
      /\ IF handler /\ (buffer # <<>> \/ fin_read)
         THEN Deliver(buffer) ELSE UNCHANGED given
      /\ UNCHANGED <<side, arrived, fin_arrived, consumed, fin_read, handler>>
  BY DEF DeliverBuffer, net, taken
<1>2. /\ side = "client" /\ consumed = arrived /\ buffer # <<>>
      /\ fin_read = fin_arrived
  BY <1>1, Zenon DEF Inductive, PhaseInv, BufferInv, CopyInv, TypeOK
<1>3. /\ arrived \in Nat /\ Len(buffer) \in Nat /\ consumed - Len(buffer) \in Nat
      /\ buffer \in Seq(1..Length)
      /\ \A i \in 1..Len(buffer) : buffer[i] = consumed - Len(buffer) + i
  BY TakenFacts DEF Inductive, TypeOK, BufferInv
<1>4. consumed' - Len(buffer') = arrived
  BY <1>1, <1>2, <1>3
<1>5. Atomic!TakesAll
  BY <1>1, <1>2, <1>4, AllTaken
<1>6. CASE handler
  <2>1. delivered' = delivered \o buffer /\ empty_reads' = empty_reads
    BY <1>1, <1>2, <1>6 DEF Deliver
  <2>2. PICK from \in Nat : from = consumed - Len(buffer)
    BY <1>3
  <2>3. arrived - from = Len(buffer) /\ arrived # from /\ from <= arrived
    BY <1>2, <1>3, <2>2
  <2>4. buffer = [i \in 1..arrived - from |-> from + i]
    BY <1>3, <2>2, <2>3
  <2>5. Atomic!Delivers
    BY <1>5, <1>6, <2>1, <2>2, <2>3, <2>4 DEF Atomic!Delivers
  <2>6. QED
    BY <2>5 DEF Atomic!Next
<1>7. CASE ~handler
  <2>1. Atomic!Drops
    BY <1>1, <1>2, <1>5, <1>7 DEF Atomic!Drops, given
  <2>2. QED
    BY <2>1 DEF Atomic!Next
<1>8. QED
  BY <1>6, <1>7

\* OnCanRead of either side, with its copy loop, its blocks and its buffer, is
\* for the application one read of everything that has arrived: for any stream,
\* any blocks and any spare room.
THEOREM ReadsAtOnce == Spec => ImplementsAtomicRead
<1>1. Init => CopyInv
  BY DEF Init, CopyInv
<1>2. Init => Atomic!Init
  <2>1. SUFFICES ASSUME Init PROVE Atomic!Init
    OBVIOUS
  <2>2. consumed - Len(buffer) = 0
    <3>1. consumed = 0 /\ Len(buffer) = 0
      BY <2>1 DEF Init
    <3>2. QED
      BY <3>1
  <2>3. /\ (pc # "idle") = FALSE /\ (pc = "idle" /\ fin_read) = FALSE
        /\ arrived = 0 /\ fin_arrived = FALSE /\ handler = FALSE
        /\ side \in {"server", "client"} /\ delivered = <<>> /\ empty_reads = 0
    BY <2>1 DEF Init
  <2>4. QED
    BY <2>2, <2>3, Zenon DEF Atomic!Init
<1>3. Inductive /\ CopyInv /\ [Next]_vars =>
        [Atomic!Next]_<<side, arrived, fin_arrived, pc # "idle",
                        consumed - Len(buffer), pc = "idle" /\ fin_read,
                        handler, delivered, empty_reads>>
  <2>1. SUFFICES ASSUME Inductive, CopyInv, [Next]_vars
                 PROVE  \/ Atomic!Next
                        \/ UNCHANGED <<side, arrived, fin_arrived, pc # "idle",
                                       consumed - Len(buffer),
                                       pc = "idle" /\ fin_read,
                                       handler, delivered, empty_reads>>
    OBVIOUS
  <2>2. CASE UNCHANGED vars
    BY <2>2 DEF vars, net, taken, given
  <2>3. CASE Read \/ NobodyReads
    BY <2>1, <2>3, ServerRefines
  <2>4. CASE ReadFinOnly
    BY <2>1, <2>4, FinRefines
  <2>5. CASE StartCopy \/ CopyRegion \/ CopyEnds
    BY <2>1, <2>5, CopyRefines
  <2>6. CASE DeliverBuffer
    BY <2>1, <2>6, DeliverRefines
  <2>7. CASE onStreamRead \/ \E n \in 0..Length, fin \in BOOLEAN : DataArrives(n, fin)
    BY <2>1, <2>7, OutsideRefines
  <2>8. QED
    BY <2>1, <2>2, <2>3, <2>4, <2>5, <2>6, <2>7 DEF Next, OnCanRead
<1>4. QED
  BY <1>1, <1>2, <1>3, CopyInvStep, InductiveInvariant, PTL
  DEF Spec, ImplementsAtomicRead, Atomic!Spec
=============================================================================
