----------------------------- MODULE StreamRead -----------------------------
(***************************************************************************)
(* How the bytes of an incoming stream reach the application: OnCanRead of *)
(* the server's StreamWrapper and of the client's ClientStreamVisitor.     *)
(*                                                                         *)
(* A byte is its position in the stream.  The QUIC stream is external: it  *)
(* keeps what has arrived in blocks, shows one block at a time to          *)
(* PeekNextReadableRegion, hands out everything to Read, and calls         *)
(* OnCanRead when bytes or the FIN arrive and at no other time.            *)
(* The application registers its callback at any moment, and no more than  *)
(* once.                                                                   *)
(***************************************************************************)
EXTENDS Naturals, Sequences, SequencesExt

CONSTANTS
  Length,     \* bound: bytes of the stream
  BlockSize,  \* bytes of one block of the QUIC stream's buffer
  ExtraSpace  \* what the client's buffer has beyond ReadableBytes

ASSUME LengthType == Length \in Nat
ASSUME BlockSizeType == BlockSize \in Nat \ {0}
ASSUME ExtraSpaceType == ExtraSpace \in Nat

VARIABLES
  side,           \* "server" or "client": whose OnCanRead it is
  arrived,        \* bytes that have arrived
  fin_arrived,    \* has the FIN
  consumed,       \* bytes taken from the QUIC stream
  fin_read,       \* was the FIN taken with them
  handler,        \* is a read callback registered
  heard,          \* was it, when OnCanRead was called last
  pc,             \* where OnCanRead is
  buffer,         \* the client's buffer
  capacity,       \* and its size
  delivered,      \* the bytes the read callback was given
  empty_reads     \* calls of the read callback without a byte

net == <<arrived, fin_arrived>>
taken == <<consumed, fin_read>>
given == <<delivered, empty_reads>>
vars == <<side, net, taken, handler, heard, pc, buffer, capacity, given>>

-----------------------------------------------------------------------------
MinOf(a, b) == IF a < b THEN a ELSE b
Bytes(from, n) == [i \in 1..n |-> from + i]

ReadableBytes == arrived - consumed
\* PeekNextReadableRegion: what is left of the first block.
Region == MinOf(ReadableBytes, BlockSize - (consumed % BlockSize))
FinNext(n) == fin_arrived /\ consumed + n = arrived

\* The QUIC stream gives up n bytes, and the FIN if that was the last of them.
Take(n) ==
  /\ consumed' = consumed + n
  /\ fin_read' = FinNext(n)

Deliver(bytes) ==
  IF bytes = <<>>
  THEN empty_reads' = empty_reads + 1 /\ UNCHANGED delivered
  ELSE delivered' = delivered \o bytes /\ UNCHANGED empty_reads

-----------------------------------------------------------------------------
Init ==
  /\ side \in {"server", "client"}
  /\ arrived = 0 /\ fin_arrived = FALSE
  /\ consumed = 0 /\ fin_read = FALSE
  /\ handler = FALSE /\ heard = FALSE
  /\ pc = "idle"
  /\ buffer = <<>> /\ capacity = 0
  /\ delivered = <<>> /\ empty_reads = 0

\* Bytes arrive, or the FIN, or both, and the visitor is called.
DataArrives(n, fin) ==
  /\ pc = "idle" /\ ~fin_arrived
  /\ n > 0 \/ fin
  /\ arrived + n <= Length
  /\ arrived' = arrived + n /\ fin_arrived' = fin
  /\ heard' = handler
  /\ pc' = "OnCanRead"
  /\ UNCHANGED <<side, taken, handler, buffer, capacity, given>>

onStreamRead ==
  /\ pc = "idle" /\ ~handler
  /\ handler' = TRUE
  /\ UNCHANGED <<side, net, taken, heard, pc, buffer, capacity, given>>

-----------------------------------------------------------------------------
(* The server: nothing is read while no callback is registered             *)

\* Mutant of Read: the wrapper reads until a read gives nothing.
Read_UntilEmpty ==
  /\ side = "server" /\ pc = "OnCanRead" /\ handler
  /\ Take(ReadableBytes)
  /\ Deliver(Bytes(consumed, ReadableBytes))
  /\ pc' = IF ReadableBytes = 0 THEN "idle" ELSE "OnCanRead"
  /\ UNCHANGED <<side, net, handler, heard, buffer, capacity>>

Read ==
  /\ side = "server" /\ pc = "OnCanRead" /\ handler
  /\ Take(ReadableBytes)
  /\ Deliver(Bytes(consumed, ReadableBytes))
  /\ pc' = "idle"
  /\ UNCHANGED <<side, net, handler, heard, buffer, capacity>>

NobodyReads ==
  /\ side = "server" /\ pc = "OnCanRead" /\ ~handler
  /\ pc' = "idle"
  /\ UNCHANGED <<side, net, taken, handler, heard, buffer, capacity, given>>

-----------------------------------------------------------------------------
(* The client: everything is taken, and lost while no callback is there    *)

\* A FIN with no byte before it.
ReadFinOnly ==
  /\ side = "client" /\ pc = "OnCanRead"
  /\ Region = 0 /\ FinNext(0)
  /\ Take(0)
  /\ IF handler THEN Deliver(<<>>) ELSE UNCHANGED given
  /\ pc' = "idle"
  /\ UNCHANGED <<side, net, handler, heard, buffer, capacity>>

StartCopy ==
  /\ side = "client" /\ pc = "OnCanRead"
  /\ ~(Region = 0 /\ FinNext(0))
  /\ buffer' = <<>> /\ capacity' = ReadableBytes + ExtraSpace
  /\ pc' = "copy"
  /\ UNCHANGED <<side, net, taken, handler, heard, given>>

Room == MinOf(capacity - Len(buffer), Region)

\* Mutant of CopyRegion: each block is copied to the start of the buffer.
CopyRegion_Overwrites ==
  /\ pc = "copy" /\ Room > 0
  /\ buffer' = Bytes(consumed, Room)
  /\ Take(Room)
  /\ pc' = IF fin_read' THEN "deliver" ELSE "copy"
  /\ UNCHANGED <<side, net, handler, heard, capacity, given>>

\* Mutant of CopyRegion: no loop over the blocks.
CopyRegion_Once ==
  /\ pc = "copy" /\ Room > 0
  /\ buffer' = buffer \o Bytes(consumed, Room)
  /\ Take(Room)
  /\ pc' = "deliver"
  /\ UNCHANGED <<side, net, handler, heard, capacity, given>>

\* Mutant of CopyRegion: the block is skipped, not what arrived of it.
CopyRegion_SkipsBlock ==
  /\ pc = "copy" /\ Room > 0
  /\ buffer' = buffer \o Bytes(consumed, Room)
  /\ Take(BlockSize)
  /\ pc' = IF fin_read' THEN "deliver" ELSE "copy"
  /\ UNCHANGED <<side, net, handler, heard, capacity, given>>

\* Mutant of CopyRegion: the callback is called with each block.
CopyRegion_CallsPerBlock ==
  /\ pc = "copy" /\ Room > 0
  /\ Take(Room)
  /\ IF handler THEN Deliver(Bytes(consumed, Room)) ELSE UNCHANGED given
  /\ pc' = IF fin_read' THEN "deliver" ELSE "copy"
  /\ UNCHANGED <<side, net, handler, heard, buffer, capacity>>

\* One round of the loop, which a FIN ends.
CopyRegion ==
  /\ pc = "copy" /\ Room > 0
  /\ buffer' = buffer \o Bytes(consumed, Room)
  /\ Take(Room)
  /\ pc' = IF fin_read' THEN "deliver" ELSE "copy"
  /\ UNCHANGED <<side, net, handler, heard, capacity, given>>

\* No more data, or no more room.
CopyEnds ==
  /\ pc = "copy" /\ Room = 0
  /\ pc' = "deliver"
  /\ UNCHANGED <<side, net, taken, handler, heard, buffer, capacity, given>>

\* The callback gets the whole buffer; FIN or not, it cannot tell.
DeliverBuffer ==
  /\ pc = "deliver"
  /\ IF handler /\ (buffer # <<>> \/ fin_read)
     THEN Deliver(buffer) ELSE UNCHANGED given
  /\ buffer' = <<>> /\ capacity' = 0
  /\ pc' = "idle"
  /\ UNCHANGED <<side, net, taken, handler, heard>>

-----------------------------------------------------------------------------
OnCanRead ==
  \/ Read \/ NobodyReads
  \/ ReadFinOnly \/ StartCopy \/ CopyRegion \/ CopyEnds \/ DeliverBuffer

Next ==
  \/ OnCanRead
  \/ \E n \in 0..Length, fin \in BOOLEAN : DataArrives(n, fin)
  \/ onStreamRead

Spec == Init /\ [][Next]_vars

-----------------------------------------------------------------------------
\* Every variable has its type, and no more is taken than has arrived.
TypeOK ==
  /\ side \in {"server", "client"}
  /\ arrived \in 0..Length /\ consumed \in 0..arrived
  /\ fin_arrived \in BOOLEAN /\ fin_read \in BOOLEAN
  /\ fin_read => fin_arrived /\ consumed = arrived
  /\ handler \in BOOLEAN /\ heard \in BOOLEAN
  /\ pc \in {"idle", "OnCanRead", "copy", "deliver"}
  /\ buffer \in Seq(1..Length) /\ Len(buffer) <= capacity
  /\ capacity \in 0..(Length + ExtraSpace)
  /\ delivered \in Seq(1..Length)
  /\ empty_reads \in Nat

\* The read callback gets the bytes in order, none twice and none left out
\* between two it gets, up to the last that was taken: how the blocks and the
\* arrivals cut the stream makes no difference.  The server's begin with the
\* first byte of the stream.
BytesInOrder ==
  /\ \A i \in 1..(Len(delivered) - 1) : delivered[i + 1] = delivered[i] + 1
  /\ pc = "idle" /\ delivered # <<>> => Last(delivered) = consumed
  /\ side = "server" /\ delivered # <<>> => delivered[1] = 1

\* Bytes and a FIN that have arrived are taken before OnCanRead returns, as
\* nothing announces them again; the server's wait on if no callback was
\* registered when they came.
NothingStranded ==
  pc = "idle" =>
    \/ consumed = arrived /\ fin_read = fin_arrived
    \/ side = "server" /\ ~heard

\* An empty read means the FIN, once.
EmptyReadIsFin == empty_reads <= 1 /\ (empty_reads = 1 => fin_read)

-----------------------------------------------------------------------------
\* The steps of OnCanRead amount to one: while the client copies blocks, what
\* it has in its buffer still counts as not taken.
Atomic == INSTANCE AtomicRead
            WITH due <- pc # "idle", taken <- consumed - Len(buffer),
                 fin_taken <- pc = "idle" /\ fin_read

\* OnCanRead keeps the promises of AtomicRead: block by block, it reads all that
\* has arrived, and calls back once.
ImplementsAtomicRead == Atomic!Spec
=============================================================================
