-------------------------- MODULE QuicServer_proofs --------------------------
(***************************************************************************)
(* Proofs about the server's socket: for any number of clients, any limit  *)
(* of new sessions, any size of a read and both kinds of event loop, no    *)
(* socket event creates too many sessions, and the thread never waits      *)
(* while a packet or a kept CHLO has no event to announce it.              *)
(***************************************************************************)
EXTENDS QuicServer, TLAPS

\* The sessions created in this socket event and those that may still be
\* created share one allowance.
AllowanceInv == fresh + allowed <= MaxSessions

\* Edge-triggered: packets whose edge was reported are those the read loop has
\* still to fetch, so the loop is not over.
EdgeInv ==
  edgeTriggered /\ received # <<>> /\ "readable" \notin registered =>
    \/ pc = "chlos"
    \/ pc \in {"read", "dispatch"} /\ moreToRead

\* Otherwise: the socket is armed outside the readable branch.
ArmedInv ==
  ~edgeTriggered /\ pc \in {"wait", "write"} => "readable" \in registered

\* Outside the readable branch, kept CHLOs have their artificial event.
ChloInv ==
  pc \in {"wait", "write"} /\ buffered # <<>> => "readable" \in artificial

Inductive == TypeOK /\ AllowanceInv /\ EdgeInv /\ ArmedInv /\ ChloInv

USE DEF Steps, Events

-----------------------------------------------------------------------------
(* What a read leaves behind                                               *)

\* A read that leaves packets in the socket was a full one.
LEMMA FullRead ==
  ASSUME NEW q \in Seq(Conns), NEW n, n = MinOf(Batch, Len(q))
  PROVE  /\ SubSeq(q, 1, n) \in Seq(Conns)
         /\ SubSeq(q, n + 1, Len(q)) \in Seq(Conns)
         /\ Len(SubSeq(q, n + 1, Len(q))) <= Len(q)
         /\ SubSeq(q, n + 1, Len(q)) # <<>> => n = Batch
<1>1. n \in Nat /\ n <= Len(q)
  BY BatchType DEF MinOf
<1>2. SubSeq(q, 1, n) \in Seq(Conns)
  BY <1>1
<1>3. /\ SubSeq(q, n + 1, Len(q)) \in Seq(Conns)
      /\ Len(SubSeq(q, n + 1, Len(q))) = Len(q) - n
  BY <1>1
<1>4. SubSeq(q, n + 1, Len(q)) # <<>> => n = Batch
  <2>1. CASE Batch < Len(q)
    BY <2>1 DEF MinOf
  <2>2. CASE ~(Batch < Len(q))
    <3>1. n = Len(q)
      BY <2>2 DEF MinOf
    <3>2. QED
      BY <1>3, <3>1
  <2>3. QED
    BY <2>1, <2>2
<1>5. QED
  BY <1>1, <1>2, <1>3, <1>4

-----------------------------------------------------------------------------
(* One lemma per actor                                                     *)

\* The inductive invariant holds at the start.
LEMMA InitInductive == Init => Inductive
<1>1. SUFFICES ASSUME Init PROVE Inductive
  OBVIOUS
<1>2. TypeOK
  <2>1. sent \in [Conns -> 0..MaxSends]
    BY <1>1, BoundsType DEF Init
  <2>2. /\ received \in Seq(Conns) /\ Len(received) <= MaxQueue
        /\ batch \in Seq(Conns) /\ buffered \in Seq(Conns)
    BY <1>1, BoundsType DEF Init
  <2>3. /\ allowed \in 0..MaxSessions /\ fresh \in Nat
        /\ pending \in 0..MaxPending
    BY <1>1, MaxSessionsType, BoundsType DEF Init
  <2>4. registered \in SUBSET Events /\ events \in SUBSET Events
    BY <1>1 DEF Init
  <2>5. /\ moreToRead \in BOOLEAN /\ sndFull \in BOOLEAN
        /\ edgeTriggered \in BOOLEAN /\ artificial \in SUBSET {"readable"}
        /\ sessions \in SUBSET Conns
    BY <1>1 DEF Init
  <2>6. pc \in Steps /\ batch = <<>>
    BY <1>1 DEF Init
  <2>7. QED
    BY <2>1, <2>2, <2>3, <2>4, <2>5, <2>6 DEF TypeOK
<1>3. AllowanceInv
  BY <1>1, MaxSessionsType DEF Init, AllowanceInv
<1>4. EdgeInv /\ ArmedInv /\ ChloInv
  BY <1>1 DEF Init, EdgeInv, ArmedInv, ChloInv
<1>5. QED
  BY <1>2, <1>3, <1>4 DEF Inductive

\* A packet that arrives brings an edge.
LEMMA PacketStep ==
  ASSUME Inductive, NEW c \in Conns, PacketArrives(c)
  PROVE  Inductive'
<1>1. TypeOK'
  BY BoundsType
  DEF Inductive, TypeOK, PacketArrives, Edge, dispatcher, writing
<1>2. AllowanceInv' /\ ArmedInv' /\ ChloInv'
  BY DEF Inductive, AllowanceInv, ArmedInv, ChloInv, PacketArrives, Edge,
         dispatcher
<1>3. EdgeInv'
  BY DEF EdgeInv, PacketArrives, Edge
<1>4. QED
  BY <1>1, <1>2, <1>3 DEF Inductive

\* The send buffer disturbs nothing that the readable branch relies on.
LEMMA SendBufferStep ==
  ASSUME Inductive, SendBufferDrains \/ WriteBlocks
  PROVE  Inductive'
<1>1. CASE SendBufferDrains
  <2>1. TypeOK'
    BY <1>1 DEF Inductive, TypeOK, SendBufferDrains, Edge, reading, dispatcher
  <2>2. AllowanceInv' /\ EdgeInv' /\ ArmedInv' /\ ChloInv'
    BY <1>1
    DEF Inductive, AllowanceInv, EdgeInv, ArmedInv, ChloInv,
        SendBufferDrains, Edge, reading, dispatcher
  <2>3. QED
    BY <2>1, <2>2 DEF Inductive
<1>2. CASE WriteBlocks
  <2>1. TypeOK'
    BY <1>2, BoundsType
    DEF Inductive, TypeOK, WriteBlocks, loop, reading, dispatcher
  <2>2. AllowanceInv' /\ EdgeInv' /\ ArmedInv' /\ ChloInv'
    BY <1>2
    DEF Inductive, AllowanceInv, EdgeInv, ArmedInv, ChloInv,
        WriteBlocks, loop, reading, dispatcher
  <2>3. QED
    BY <2>1, <2>2 DEF Inductive
<1>3. QED
  BY <1>1, <1>2

\* The loop reports events: a readable one opens the readable branch with the
\* full allowance; without one there is nothing to read and no CHLO kept.
LEMMA WaitStep ==
  ASSUME Inductive, WaitForEvents
  PROVE  Inductive'
<1>1. Ready \subseteq Events
  BY DEF Inductive, TypeOK, Ready
<1>2. CASE "readable" \in Ready
  <2>1. /\ pc' = "chlos" /\ allowed' = MaxSessions /\ fresh' = 0
        /\ events' = Ready /\ artificial' = {}
        /\ registered' = registered \ Ready
    BY <1>2 DEF WaitForEvents
  <2>2. TypeOK'
    BY <1>1, <2>1, MaxSessionsType
    DEF Inductive, TypeOK, WaitForEvents, reading, writing
  <2>3. AllowanceInv'
    BY <2>1, MaxSessionsType DEF AllowanceInv
  <2>4. EdgeInv' /\ ArmedInv' /\ ChloInv'
    BY <2>1 DEF EdgeInv, ArmedInv, ChloInv
  <2>5. QED
    BY <2>2, <2>3, <2>4 DEF Inductive
<1>3. CASE "readable" \notin Ready
  <2>1. /\ pc' = "write" /\ events' = Ready /\ artificial' = {}
        /\ registered' = registered \ Ready
        /\ UNCHANGED <<edgeTriggered, reading, dispatcher, writing>>
    BY <1>3 DEF WaitForEvents, dispatcher
  <2>2. pc = "wait"
    BY DEF WaitForEvents
  <2>3. TypeOK'
    BY <1>1, <2>1, <2>2 DEF Inductive, TypeOK, reading, dispatcher, writing
  <2>4. AllowanceInv'
    BY <2>1 DEF Inductive, AllowanceInv, dispatcher
  <2>5. EdgeInv'
    BY <1>3, <2>1, <2>2 DEF Inductive, EdgeInv, Ready, reading
  <2>6. ArmedInv'
    BY <1>3, <2>1, <2>2 DEF Inductive, ArmedInv
  <2>7. ChloInv'
    BY <1>3, <2>1, <2>2 DEF Inductive, ChloInv, Ready, dispatcher
  <2>8. QED
    BY <2>3, <2>4, <2>5, <2>6, <2>7 DEF Inductive
<1>4. QED
  BY <1>2, <1>3

\* A session uses up a part of the allowance, wherever its CHLO comes from.
LEMMA CreateEffect ==
  ASSUME Inductive, NEW c \in Conns, allowed > 0, Create(c)
  PROVE  /\ allowed' \in 0..MaxSessions /\ fresh' \in Nat
         /\ sessions' \in SUBSET Conns
         /\ AllowanceInv'
<1>1. /\ allowed \in Nat /\ allowed <= MaxSessions /\ fresh \in Nat
      /\ fresh + allowed <= MaxSessions
  BY MaxSessionsType DEF Inductive, TypeOK, AllowanceInv
<1>2. allowed' = allowed - 1 /\ fresh' = fresh + 1
  BY DEF Create
<1>3. sessions' \in SUBSET Conns
  BY DEF Create, Inductive, TypeOK
<1>4. QED
  BY <1>1, <1>2, <1>3, MaxSessionsType DEF AllowanceInv

\* ProcessBufferedChlos.
LEMMA ChlosStep ==
  ASSUME Inductive, ProcessBufferedChlo \/ BufferedChlosProcessed
  PROVE  Inductive'
<1>1. CASE ProcessBufferedChlo
  <2>1. buffered \in Seq(Conns) /\ buffered # <<>>
    BY <1>1 DEF ProcessBufferedChlo, Inductive, TypeOK
  <2>2. Head(buffered) \in Conns /\ Tail(buffered) \in Seq(Conns)
    BY <2>1
  <2>3. /\ allowed' \in 0..MaxSessions /\ fresh' \in Nat
        /\ sessions' \in SUBSET Conns
        /\ AllowanceInv'
    BY <1>1, <2>2, CreateEffect DEF ProcessBufferedChlo
  <2>4. TypeOK'
    BY <1>1, <2>2, <2>3
    DEF Inductive, TypeOK, ProcessBufferedChlo, loop, reading, writing
  <2>5. EdgeInv' /\ ArmedInv' /\ ChloInv'
    BY <1>1 DEF EdgeInv, ArmedInv, ChloInv, ProcessBufferedChlo
  <2>6. QED
    BY <2>3, <2>4, <2>5 DEF Inductive
<1>2. CASE BufferedChlosProcessed
  <2>1. TypeOK'
    BY <1>2
    DEF Inductive, TypeOK, BufferedChlosProcessed, loop, dispatcher, writing
  <2>2. AllowanceInv'
    BY <1>2 DEF Inductive, AllowanceInv, BufferedChlosProcessed, dispatcher
  <2>3. EdgeInv' /\ ArmedInv' /\ ChloInv'
    BY <1>2 DEF EdgeInv, ArmedInv, ChloInv, BufferedChlosProcessed
  <2>4. QED
    BY <2>1, <2>2, <2>3 DEF Inductive
<1>3. QED
  BY <1>1, <1>2

\* The read loop goes on as long as the socket may hold packets that no edge
\* announces.
LEMMA ReadStep ==
  ASSUME Inductive, ReadPackets
  PROVE  Inductive'
<1> DEFINE n == MinOf(Batch, Len(received))
<1>1. received \in Seq(Conns) /\ Len(received) <= MaxQueue
  BY DEF Inductive, TypeOK
<1>2. /\ batch' = SubSeq(received, 1, n)
      /\ received' = SubSeq(received, n + 1, Len(received))
      /\ moreToRead' = (n = Batch)
      /\ pc' = "dispatch"
      /\ UNCHANGED <<loop, sent, dispatcher, writing>>
  BY DEF ReadPackets
<1>3. /\ batch' \in Seq(Conns) /\ received' \in Seq(Conns)
      /\ Len(received') <= Len(received)
      /\ received' # <<>> => n = Batch
  BY <1>1, <1>2, FullRead
<1>4. Len(received') <= MaxQueue
  BY <1>1, <1>3, BoundsType
<1>5. moreToRead' \in BOOLEAN /\ (received' # <<>> => moreToRead')
  BY <1>2, <1>3
<1>6. TypeOK'
  BY <1>2, <1>3, <1>4, <1>5 DEF Inductive, TypeOK, loop, dispatcher, writing
<1>7. AllowanceInv'
  BY <1>2 DEF Inductive, AllowanceInv, dispatcher
<1>8. EdgeInv' /\ ArmedInv' /\ ChloInv'
  BY <1>2, <1>5 DEF EdgeInv, ArmedInv, ChloInv
<1>9. QED
  BY <1>6, <1>7, <1>8 DEF Inductive

\* A packet is dispatched: to a session, to a new session, or to the kept ones.
LEMMA DispatchStep ==
  ASSUME Inductive, Dispatch
  PROVE  Inductive'
<1>1. pc = "dispatch" /\ batch \in Seq(Conns) /\ batch # <<>>
      /\ buffered \in Seq(Conns)
  BY DEF Dispatch, Inductive, TypeOK
<1>2. Head(batch) \in Conns /\ Tail(batch) \in Seq(Conns)
  BY <1>1
<1>3. /\ allowed' \in 0..MaxSessions /\ fresh' \in Nat
      /\ sessions' \in SUBSET Conns /\ buffered' \in Seq(Conns)
      /\ AllowanceInv'
  <2>1. CASE UNCHANGED dispatcher
    BY <2>1 DEF dispatcher, Inductive, TypeOK, AllowanceInv
  <2>2. CASE allowed > 0 /\ Create(Head(batch)) /\ UNCHANGED buffered
    BY <1>1, <1>2, <2>2, CreateEffect
  <2>3. CASE /\ buffered' = Append(buffered, Head(batch))
             /\ UNCHANGED <<allowed, sessions, fresh>>
    BY <1>1, <1>2, <2>3 DEF Inductive, TypeOK, AllowanceInv
  <2>4. QED
    BY <2>1, <2>2, <2>3 DEF Dispatch
<1>4. /\ batch' = Tail(batch)
      /\ UNCHANGED <<pc, loop, sent, received, moreToRead, writing>>
  BY DEF Dispatch
<1>5. TypeOK'
  BY <1>1, <1>2, <1>3, <1>4 DEF Inductive, TypeOK, loop, writing
<1>6. EdgeInv' /\ ArmedInv' /\ ChloInv'
  BY <1>1, <1>4 DEF Inductive, EdgeInv, ArmedInv, ChloInv, loop
<1>7. QED
  BY <1>3, <1>5, <1>6 DEF Inductive

\* The branches of OnSocketEvent end: the read loop after a read that was not
\* full, the readable branch by asking for what is left.
LEMMA EndStep ==
  ASSUME Inductive, BatchDispatched \/ RearmReadable
  PROVE  Inductive'
<1>1. CASE BatchDispatched
  <2>1. pc = "dispatch" /\ pc' = IF moreToRead THEN "read" ELSE "rearm"
    BY <1>1 DEF BatchDispatched
  <2>2. UNCHANGED <<loop, reading, dispatcher, writing>>
    BY <1>1 DEF BatchDispatched
  <2>3. TypeOK'
    BY <1>1, <2>1, <2>2
    DEF Inductive, TypeOK, BatchDispatched, loop, reading, dispatcher, writing
  <2>4. AllowanceInv'
    BY <2>2 DEF Inductive, AllowanceInv, dispatcher
  <2>5. EdgeInv' /\ ArmedInv' /\ ChloInv'
    BY <2>1, <2>2 DEF Inductive, EdgeInv, ArmedInv, ChloInv, loop, reading
  <2>6. QED
    BY <2>3, <2>4, <2>5 DEF Inductive
<1>2. CASE RearmReadable
  <2>1. TypeOK'
    BY <1>2
    DEF Inductive, TypeOK, RearmReadable, RearmSocket, reading, dispatcher,
        writing
  <2>2. AllowanceInv'
    BY <1>2 DEF Inductive, AllowanceInv, RearmReadable, dispatcher
  <2>3. EdgeInv'
    BY <1>2 DEF Inductive, EdgeInv, RearmReadable, reading
  <2>4. ArmedInv' /\ ChloInv'
    BY <1>2 DEF ArmedInv, ChloInv, RearmReadable, RearmSocket, dispatcher
  <2>5. QED
    BY <2>1, <2>2, <2>3, <2>4 DEF Inductive
<1>3. QED
  BY <1>1, <1>2

\* The writable branch leaves the socket armed for reading as it was.
LEMMA WriteStep ==
  ASSUME Inductive, OnCanWrite
  PROVE  Inductive'
<1>1. /\ pc = "write" /\ pc' = "wait" /\ events' = {}
      /\ UNCHANGED <<edgeTriggered, artificial, reading, dispatcher>>
  BY DEF OnCanWrite
<1>2. pending \in 0..MaxPending /\ sndFull \in BOOLEAN
  BY DEF Inductive, TypeOK
<1>3. pending' \in 0..MaxPending
  BY <1>2, BoundsType DEF OnCanWrite
<1>4. sndFull' \in BOOLEAN
  BY <1>2 DEF OnCanWrite
<1>5. registered' \in SUBSET Events /\ registered \subseteq registered'
  BY DEF OnCanWrite, RearmSocket, Inductive, TypeOK
<1>6. TypeOK'
  BY <1>1, <1>3, <1>4, <1>5 DEF Inductive, TypeOK, reading, dispatcher
<1>7. AllowanceInv'
  BY <1>1 DEF Inductive, AllowanceInv, dispatcher
<1>8. EdgeInv' /\ ArmedInv' /\ ChloInv'
  BY <1>1, <1>5
  DEF Inductive, EdgeInv, ArmedInv, ChloInv, reading, dispatcher
<1>9. QED
  BY <1>6, <1>7, <1>8 DEF Inductive

\* Every step keeps the inductive invariant.
LEMMA NextInductive == Inductive /\ [Next]_vars => Inductive'
<1>1. SUFFICES ASSUME Inductive, [Next]_vars PROVE Inductive'
  OBVIOUS
<1>2. CASE UNCHANGED vars
  BY <1>1, <1>2
  DEF Inductive, TypeOK, AllowanceInv, EdgeInv, ArmedInv, ChloInv, vars, loop,
      reading, dispatcher, writing
<1>3. CASE OnSocketEvent
  BY <1>1, <1>3, WaitStep, ChlosStep, ReadStep, DispatchStep, EndStep, WriteStep
  DEF OnSocketEvent
<1>4. CASE \E c \in Conns : PacketArrives(c)
  BY <1>1, <1>4, PacketStep
<1>5. CASE SendBufferDrains \/ WriteBlocks
  BY <1>1, <1>5, SendBufferStep
<1>6. QED
  BY <1>1, <1>2, <1>3, <1>4, <1>5 DEF Next

-----------------------------------------------------------------------------
(* The theorems                                                            *)

\* The invariant of the socket and its event loop.
THEOREM InductiveInvariant == Spec => []Inductive
<1>1. QED
  BY InitInductive, NextInductive, PTL DEF Spec

\* Every variable of OnSocketEvent and of what it talks to has its type.
THEOREM TypeCorrect == Spec => []TypeOK
<1>1. Inductive => TypeOK
  BY DEF Inductive
<1>2. QED
  BY <1>1, InductiveInvariant, PTL

\* OnSocketEvent creates at most MaxSessions sessions in one call, from kept
\* and from new CHLOs together (ProcessBufferedChlos is called once per event).
THEOREM AtMostMaxSessions == Spec => []SessionLimit
<1>1. Inductive => SessionLimit
  BY MaxSessionsType DEF Inductive, TypeOK, AllowanceInv, SessionLimit
<1>2. QED
  BY <1>1, InductiveInvariant, PTL

\* OnSocketEvent returns with no packet in the socket that the loop will not
\* report, whether the loop is edge-triggered or has to be armed again.
THEOREM PacketsAreReported == Spec => []NoStrandedPacket
<1>1. Inductive => NoStrandedPacket
  BY DEF Inductive, EdgeInv, ArmedInv, NoStrandedPacket, Ready
<1>2. QED
  BY <1>1, InductiveInvariant, PTL

\* OnSocketEvent returns with no CHLO kept that has no artificial event.
THEOREM ChlosAreReported == Spec => []NoStrandedChlo
<1>1. Inductive => NoStrandedChlo
  BY DEF Inductive, ChloInv, NoStrandedChlo, Ready
<1>2. QED
  BY <1>1, InductiveInvariant, PTL
=============================================================================
