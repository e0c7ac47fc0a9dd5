----------------------------- MODULE QuicServer -----------------------------
(***************************************************************************)
(* The server's socket and its event loop: QuicServer::OnSocketEvent of    *)
(* web_transport_server_core.cc, step by step, against packets that arrive *)
(* at any moment and a send buffer that fills and drains.                  *)
(*                                                                         *)
(* The event loop, the dispatcher and the kernel's socket are external and *)
(* modelled from how OnSocketEvent uses them:                              *)
(*   - an edge-triggered loop reports an event when it comes up;           *)
(*   - one that is not takes the events it reports out of the registration,*)
(*     which is why the code arms the socket again;                        *)
(*   - ProcessBufferedChlos gives the dispatcher its allowance of new      *)
(*     sessions and spends it on buffered CHLOs first; what is left serves *)
(*     CHLOs read from the socket until the next call;                     *)
(*   - one read returns at most Batch packets, and asks to be called again *)
(*     exactly if it returned that many;                                   *)
(*   - a writer that was blocked sends nothing until OnCanWrite.           *)
(***************************************************************************)
EXTENDS Naturals, Sequences, FiniteSets

CONSTANTS
  Conns,           \* the clients; a packet is named by its client
  MaxSessions,     \* max_sessions_to_create_per_socket_event_
  Batch,           \* packets one read returns at most
  MaxSends,        \* bound: packets a client sends
  MaxQueue,        \* bound: packets the socket's receive buffer holds
  MaxPending       \* bound: writes waiting for the socket

ASSUME MaxSessionsType == MaxSessions \in Nat \ {0}
ASSUME BatchType == Batch \in Nat \ {0}
ASSUME BoundsType == MaxSends \in Nat /\ MaxQueue \in Nat /\ MaxPending \in Nat

VARIABLES
  edgeTriggered,  \* does the event loop support edge-triggered events
  sent,        \* packets each client has sent
  pc,          \* where the thread is
  events,      \* the events OnSocketEvent was called with
  received,    \* the socket's receive buffer
  batch,       \* packets read and not yet dispatched
  moreToRead,  \* more_to_read
  sndFull,     \* is the socket's send buffer full
  registered,  \* events armed, or the edges not yet reported
  artificial,  \* events of ArtificiallyNotifyEvent
  allowed,     \* sessions the dispatcher may still create
  buffered,    \* CHLOs the dispatcher keeps for later
  sessions,    \* clients that have a session
  fresh,       \* sessions created in this socket event
  pending      \* writes that wait for OnCanWrite

dispatcher == <<allowed, buffered, sessions, fresh>>
loop == <<edgeTriggered, registered, artificial, events>>
reading == <<sent, received, batch, moreToRead>>
writing == <<sndFull, pending>>
vars == <<pc, loop, reading, dispatcher, writing>>

-----------------------------------------------------------------------------
Events == {"readable", "writable"}
Steps == {"wait", "chlos", "read", "dispatch", "rearm", "write"}

InSeq(c, q) == \E i \in 1..Len(q) : q[i] = c
MinOf(a, b) == IF a < b THEN a ELSE b

\* The events the loop would report now.
Ready ==
  artificial \cup
  IF edgeTriggered THEN registered
  ELSE registered \cap ((IF received # <<>> THEN {"readable"} ELSE {}) \cup
                        (IF sndFull THEN {} ELSE {"writable"}))

\* An event that comes up is an edge to report.
Edge(e) ==
  registered' = IF edgeTriggered THEN registered \cup {e} ELSE registered

RearmSocket(e) == registered \cup {e}

-----------------------------------------------------------------------------
\* CreateUDPSocketAndListen registers the socket for both events.
Init ==
  /\ edgeTriggered \in BOOLEAN
  /\ pc = "wait"
  /\ events = {}
  /\ sent = [c \in Conns |-> 0]
  /\ received = <<>> /\ batch = <<>> /\ moreToRead = FALSE
  /\ sndFull = FALSE /\ pending = 0
  /\ registered = IF edgeTriggered THEN {"writable"} ELSE Events
  /\ artificial = {}
  /\ allowed = 0 /\ buffered = <<>>
  /\ sessions = {} /\ fresh = 0

-----------------------------------------------------------------------------
(* The kernel and the clients                                              *)

PacketArrives(c) ==
  /\ sent[c] < MaxSends /\ Len(received) < MaxQueue
  /\ sent' = [sent EXCEPT ![c] = @ + 1]
  /\ received' = Append(received, c)
  /\ Edge("readable")
  /\ UNCHANGED <<edgeTriggered, pc, artificial, events, batch, moreToRead,
                 dispatcher, writing>>

SendBufferDrains ==
  /\ sndFull
  /\ sndFull' = FALSE
  /\ Edge("writable")
  /\ UNCHANGED <<edgeTriggered, pc, artificial, events, reading,
                 dispatcher, pending>>

\* A session writes, from an alarm or while a packet is dispatched, and the
\* send buffer fills: what could not be sent waits.
WriteBlocks ==
  /\ pc \in {"wait", "dispatch"} /\ sessions # {}
  /\ pending = 0 /\ ~sndFull
  /\ sndFull' = TRUE
  /\ pending' \in 1..MaxPending
  /\ UNCHANGED <<pc, loop, reading, dispatcher>>

-----------------------------------------------------------------------------
(* OnSocketEvent                                                           *)

\* WaitForEvents: the loop takes the ready events and calls OnSocketEvent.
WaitForEvents ==
  /\ pc = "wait" /\ Ready # {}
  /\ events' = Ready
  /\ artificial' = {}
  /\ registered' = registered \ Ready
  /\ IF "readable" \in Ready
     THEN pc' = "chlos" /\ allowed' = MaxSessions /\ fresh' = 0
     ELSE pc' = "write" /\ UNCHANGED <<allowed, fresh>>
  /\ UNCHANGED <<edgeTriggered, reading, buffered, sessions, writing>>

Create(c) ==
  /\ sessions' = sessions \cup {c}
  /\ fresh' = fresh + 1
  /\ allowed' = allowed - 1

\* ProcessBufferedChlos, one CHLO at a time.
ProcessBufferedChlo ==
  /\ pc = "chlos" /\ allowed > 0 /\ buffered # <<>>
  /\ Create(Head(buffered))
  /\ buffered' = Tail(buffered)
  /\ UNCHANGED <<pc, loop, reading, writing>>

BufferedChlosProcessed ==
  /\ pc = "chlos" /\ (allowed = 0 \/ buffered = <<>>)
  /\ pc' = "read" /\ moreToRead' = TRUE
  /\ UNCHANGED <<loop, sent, received, batch, dispatcher, writing>>

\* Mutant of ReadPackets: a full read is taken for the last one.
ReadPackets_Once ==
  /\ pc = "read" /\ moreToRead
  /\ LET n == MinOf(Batch, Len(received))
     IN /\ batch' = SubSeq(received, 1, n)
        /\ received' = SubSeq(received, n + 1, Len(received))
        /\ moreToRead' = FALSE
  /\ pc' = "dispatch"
  /\ UNCHANGED <<loop, sent, dispatcher, writing>>

\* One round of the read loop: ReadAndDispatchPackets ...
ReadPackets ==
  /\ pc = "read" /\ moreToRead
  /\ LET n == MinOf(Batch, Len(received))
     IN /\ batch' = SubSeq(received, 1, n)
        /\ received' = SubSeq(received, n + 1, Len(received))
        /\ moreToRead' = (n = Batch)
  /\ pc' = "dispatch"
  /\ UNCHANGED <<loop, sent, dispatcher, writing>>

\* ... and the dispatch of each packet it read.  The first packet of a client
\* is its CHLO; one whose session cannot be created now is kept.
Dispatch ==
  /\ pc = "dispatch" /\ batch # <<>>
  /\ LET c == Head(batch)
         known == c \in sessions \/ InSeq(c, buffered)
     IN \/ known /\ UNCHANGED dispatcher
        \/ ~known /\ allowed > 0 /\ Create(c) /\ UNCHANGED buffered
        \/ ~known /\ allowed = 0 /\ buffered' = Append(buffered, c)
           /\ UNCHANGED <<allowed, sessions, fresh>>
  /\ batch' = Tail(batch)
  /\ UNCHANGED <<pc, loop, sent, received, moreToRead, writing>>

\* Mutant of BatchDispatched: every round of the read loop starts with
\* ProcessBufferedChlos.
BatchDispatched_ChlosInLoop ==
  /\ pc = "dispatch" /\ batch = <<>>
  /\ IF moreToRead THEN pc' = "chlos" /\ allowed' = MaxSessions
                   ELSE pc' = "rearm" /\ UNCHANGED allowed
  /\ UNCHANGED <<loop, reading, buffered, sessions, fresh, writing>>

\* Mutant of BatchDispatched: a round ends before its packets are dispatched.
BatchDispatched_Early ==
  /\ pc = "dispatch"
  /\ pc' = IF moreToRead THEN "read" ELSE "rearm"
  /\ UNCHANGED <<loop, reading, dispatcher, writing>>

BatchDispatched ==
  /\ pc = "dispatch" /\ batch = <<>>
  /\ pc' = IF moreToRead THEN "read" ELSE "rearm"
  /\ UNCHANGED <<loop, reading, dispatcher, writing>>

\* Mutant of RearmReadable: buffered CHLOs do not ask for another event.
RearmReadable_NoArtificial ==
  /\ pc = "rearm"
  /\ registered' = IF edgeTriggered THEN registered
                   ELSE RearmSocket("readable")
  /\ pc' = IF "writable" \in events THEN "write" ELSE "wait"
  /\ UNCHANGED <<edgeTriggered, artificial, events, reading,
                 dispatcher, writing>>

\* Mutant of RearmReadable: the loop is taken for an edge-triggered one.
RearmReadable_NoRearm ==
  /\ pc = "rearm"
  /\ artificial' = IF buffered # <<>> THEN artificial \cup {"readable"}
                   ELSE artificial
  /\ pc' = IF "writable" \in events THEN "write" ELSE "wait"
  /\ UNCHANGED <<edgeTriggered, registered, events, reading,
                 dispatcher, writing>>

\* The end of the readable branch.
RearmReadable ==
  /\ pc = "rearm"
  /\ artificial' = IF buffered # <<>> THEN artificial \cup {"readable"}
                   ELSE artificial
  /\ registered' = IF edgeTriggered THEN registered
                   ELSE RearmSocket("readable")
  /\ pc' = IF "writable" \in events THEN "write" ELSE "wait"
  /\ UNCHANGED <<edgeTriggered, events, reading, dispatcher, writing>>

\* Mutant of OnCanWrite: the dispatcher is not told that it may write.
OnCanWrite_NotTold ==
  /\ pc = "write"
  /\ pc' = "wait" /\ events' = {}
  /\ UNCHANGED <<edgeTriggered, registered, artificial, reading,
                 dispatcher, writing>>

\* The writable branch: the dispatcher sends what it can, which is nothing if
\* the readable branch has filled the buffer since the event was taken.
OnCanWrite ==
  /\ pc = "write"
  /\ pending' \in IF sndFull \/ pending = 0 THEN {pending} ELSE 0..(pending - 1)
  /\ sndFull' = (sndFull \/ pending' > 0)
  /\ registered' = IF ~edgeTriggered /\ pending' > 0
                   THEN RearmSocket("writable") ELSE registered
  /\ pc' = "wait" /\ events' = {}
  /\ UNCHANGED <<edgeTriggered, artificial, reading, dispatcher>>

-----------------------------------------------------------------------------
OnSocketEvent ==
  \/ WaitForEvents
  \/ ProcessBufferedChlo
  \/ BufferedChlosProcessed
  \/ ReadPackets
  \/ Dispatch
  \/ BatchDispatched
  \/ RearmReadable
  \/ OnCanWrite

Next ==
  \/ OnSocketEvent
  \/ \E c \in Conns : PacketArrives(c)
  \/ SendBufferDrains
  \/ WriteBlocks

Spec == Init /\ [][Next]_vars

\* HandleEventsForever keeps the thread going, and a full send buffer drains.
FairSpec == Spec /\ WF_vars(OnSocketEvent) /\ WF_vars(SendBufferDrains)

-----------------------------------------------------------------------------
\* Every variable has its type.
TypeOK ==
  /\ edgeTriggered \in BOOLEAN
  /\ sent \in [Conns -> 0..MaxSends]
  /\ pc \in Steps
  /\ events \in SUBSET Events
  /\ received \in Seq(Conns) /\ Len(received) <= MaxQueue
  /\ batch \in Seq(Conns)
  /\ moreToRead \in BOOLEAN
  /\ pc \notin {"read", "dispatch"} => batch = <<>>
  /\ sndFull \in BOOLEAN
  /\ registered \in SUBSET Events
  /\ artificial \in SUBSET {"readable"}
  /\ allowed \in 0..MaxSessions
  /\ buffered \in Seq(Conns)
  /\ sessions \in SUBSET Conns
  /\ fresh \in Nat
  /\ pending \in 0..MaxPending

\* When the thread waits, a packet in the socket and a CHLO kept for later
\* each have an event that will be reported for them.
NoStrandedPacket == pc = "wait" /\ received # <<>> => "readable" \in Ready
NoStrandedChlo == pc = "wait" /\ buffered # <<>> => "readable" \in Ready

\* One socket event creates no more sessions than it may, whichever of the
\* buffered CHLOs and the packets read in it they come from.
SessionLimit == fresh <= MaxSessions

\* A client whose packet reached the socket gets its session.
EveryClientServed ==
  \A c \in Conns : InSeq(c, received) ~> c \in sessions

\* Writes that wait are sent once the socket can take them, with whichever
\* event loop the build has; and with an edge-triggered one.
PendingWritesResume == (pending > 0) ~> (pending = 0)
EdgeWritesResume == (edgeTriggered /\ pending > 0) ~> (pending = 0)
=============================================================================
