----------------------------- MODULE MediaRelay -----------------------------
(* The two web examples that show live video.  An RTP source, external,     *)
(* sends to one UDP socket; the server's interval callbacks, one for each   *)
(* viewer, read that socket and pass the packet on, framed on a stream      *)
(* (src/examples/media_bidirectional_stream_js) or as a datagram            *)
(* (src/examples/media_datagrams_js); each viewer's page puts pictures      *)
(* together from the packets it gets and gives them to its decoder.         *)
(*                                                                          *)
(* A packet is its number in the order of the source.  The bytes of a       *)
(* stream are counted; what they say is known by where each frame ends: a   *)
(* frame that is looked for where none begins is made of other bytes, and   *)
(* is no packet, which is written 0.                                        *)
(*                                                                          *)
(* The library between the two, whose sessions, streams and alarms other    *)
(* modules describe, is here: an interval that fires while its owner        *)
(* exists, a Write that takes all of the data or, when too much waits,      *)
(* none, a stream that keeps its bytes in order, and datagrams that do not  *)
(* arrive or overtake each other.                                           *)
EXTENDS Naturals, Sequences, SequencesExt

CONSTANTS
  Viewers,
  MaxPackets,    \* bound: packets the source sends
  MaxParts,      \* bound: packets of one picture
  SocketRoom,    \* packets that wait in the UDP socket; more are dropped
  WriteLimit,    \* bytes that wait on a stream when Write begins to refuse
  Header,        \* bytes of the header of Frame (13 in the code)
  SeqSpace,      \* RTP sequence numbers are 0..SeqSpace-1 (2^16 in the code)
  FirstSeq       \* the one before that of the first packet

\* A sequence number is not used again in one behaviour.
ASSUME ConstantsAssumption ==
  /\ MaxPackets \in Nat /\ MaxParts \in Nat \ {0} /\ SocketRoom \in Nat \ {0}
  /\ WriteLimit \in Nat \ {0} /\ Header \in Nat \ {0}
  /\ SeqSpace \in Nat /\ MaxPackets < SeqSpace /\ FirstSeq \in 0..SeqSpace - 1

VARIABLES
  transport,  \* which of the two examples runs
  source,     \* history: the packets sent, [frame, part, tail, empty]
  udp,        \* the UDP socket: numbers of packets
  viewer,     \* has a viewer its stream or session, and so its interval
  written,    \* history: the packets passed on to each viewer
  ends,       \* stream: where on it each frame ends that Write took
  net,        \* datagram: the packets under way to a viewer
  arrived,    \* stream: the bytes the page has read
  taken,      \*   and those it has made frames of
  parsing,    \* stream: the page is in its loop over the others
  got,        \* history: the packets a page has read
  last,       \* datagram: <<lastSequenceNumber>>, or <<>> for null
  picture,    \* vp8FrameBuffer or currentFramePackets
  decoded     \* the pictures given to the decoder

server_vars == <<transport, source, udp, viewer, written, ends, net>>
page_vars == <<arrived, taken, parsing, got, last, picture, decoded>>
vars == <<transport, source, udp, viewer, written, ends, net,
          arrived, taken, parsing, got, last, picture, decoded>>

Init ==
  /\ transport \in {"stream", "datagram"}
  /\ source = <<>> /\ udp = <<>>
  /\ viewer = [v \in Viewers |-> "none"]
  /\ written = [v \in Viewers |-> <<>>]
  /\ ends = [v \in Viewers |-> <<>>] /\ net = [v \in Viewers |-> <<>>]
  /\ arrived = [v \in Viewers |-> 0] /\ taken = [v \in Viewers |-> 0]
  /\ parsing = [v \in Viewers |-> FALSE]
  /\ got = [v \in Viewers |-> <<>>] /\ last = [v \in Viewers |-> <<>>]
  /\ picture = [v \in Viewers |-> <<>>] /\ decoded = [v \in Viewers |-> <<>>]

-----------------------------------------------------------------------------
(* The source: pictures cut into packets, the first with the S bit of VP8,  *)
(* the last with the marker of RTP.  It may send a packet without a payload *)
(* in between, for padding, which has a sequence number as well.            *)
Sent == Len(source)
Part == IF Sent = 0 \/ source[Sent].tail THEN 1 ELSE source[Sent].part + 1
Picture == IF Sent = 0 THEN 1
           ELSE IF source[Sent].tail THEN source[Sent].frame + 1
           ELSE source[Sent].frame

Sends(pkt) ==
  /\ Sent < MaxPackets
  /\ source' = Append(source, pkt)
  /\ udp' = IF Len(udp) < SocketRoom THEN Append(udp, Sent + 1) ELSE udp
  /\ UNCHANGED <<transport, viewer, written, ends, net>> /\ UNCHANGED page_vars

SourceSends(tail) ==
  /\ Part = MaxParts => tail
  /\ Sends([frame |-> Picture, part |-> Part, tail |-> tail, empty |-> FALSE])

SourcePads ==
  Sends([frame |-> Picture, part |-> Part - 1, tail |-> FALSE, empty |-> TRUE])

IsHead(k) == source[k].part = 1 /\ ~source[k].empty
IsTail(k) == source[k].tail

SequenceNumber(k) ==
  IF FirstSeq + k < SeqSpace THEN FirstSeq + k ELSE FirstSeq + k - SeqSpace

\* Mutant of NextSequenceNumber: no wrap-around.
NextSequenceNumber_NoWrap(s) == s + 1

NextSequenceNumber(s) == IF s + 1 = SeqSpace THEN 0 ELSE s + 1

-----------------------------------------------------------------------------
(* The server.                                                              *)

\* A page connects: onSession, or onBidirectionalStream, sets its interval.
Joins(v) ==
  /\ viewer[v] = "none"
  /\ viewer' = [viewer EXCEPT ![v] = "there"]
  /\ UNCHANGED <<transport, source, udp, written, ends, net>>
  /\ UNCHANGED page_vars

\* Its interval goes with its stream or session, and nothing reaches it more.
Leaves(v) ==
  /\ viewer[v] = "there"
  /\ viewer' = [viewer EXCEPT ![v] = "gone"]
  /\ UNCHANGED <<transport, source, udp, written, ends, net>>
  /\ UNCHANGED page_vars

\* The packets of a picture but the last have two bytes.
Size(k) == IF IsTail(k) THEN 1 ELSE 2

\* Frame::serialize: type, time and size, then the packet.
Serialized(k) == Header + Size(k)

Total(v) == IF ends[v] = <<>> THEN 0 ELSE Last(ends[v])

\* Mutant of Send: what there is room for is written, the rest is not.
Send_Cut(v, k) ==
  LET room == WriteLimit + Header - (Total(v) - arrived[v])
  IN IF Header < room
     THEN /\ ends' = [ends EXCEPT ![v] = Append(@, Total(v) +
                        IF room < Serialized(k) THEN room ELSE Serialized(k))]
          /\ written' = [written EXCEPT ![v] = Append(@, k)]
     ELSE UNCHANGED <<ends, written>>

\* StreamWrapper::Send ignores that Write refused.
Send(v, k) ==
  IF Total(v) - arrived[v] < WriteLimit
  THEN /\ ends' = [ends EXCEPT ![v] = Append(@, Total(v) + Serialized(k))]
       /\ written' = [written EXCEPT ![v] = Append(@, k)]
  ELSE UNCHANGED <<ends, written>>

SendDatagram(v, k) ==
  /\ net' = [net EXCEPT ![v] = Append(@, k)]
  /\ written' = [written EXCEPT ![v] = Append(@, k)]

\* The interval callback: one packet, if there is one, goes to this viewer.
OnInterval(v) ==
  /\ viewer[v] = "there" /\ udp # <<>>
  /\ udp' = Tail(udp)
  /\ \/ transport = "stream" /\ Send(v, Head(udp)) /\ UNCHANGED net
     \/ transport = "datagram" /\ SendDatagram(v, Head(udp)) /\ UNCHANGED ends
  /\ UNCHANGED <<transport, source, viewer>> /\ UNCHANGED page_vars

-----------------------------------------------------------------------------
(* The page that reads a stream.                                            *)

\* reader.read: the next bytes, as many as it likes.
ReadStream(v, n) ==
  /\ viewer[v] = "there" /\ ~parsing[v] /\ arrived[v] + n <= Total(v)
  /\ arrived' = [arrived EXCEPT ![v] = @ + n]
  /\ parsing' = [parsing EXCEPT ![v] = TRUE]
  /\ UNCHANGED <<taken, got, last, picture, decoded>>
  /\ UNCHANGED server_vars

\* The frame that begins behind the bytes taken, and the size its header has.
Start(v, n) == IF n = 1 THEN 0 ELSE ends[v][n - 1]

Here(v) == {n \in DOMAIN ends[v] : Start(v, n) = taken[v]}

Packet(v) == IF Here(v) = {} THEN 0
             ELSE written[v][CHOOSE n \in Here(v) : TRUE]

SizeHere(v) == IF Packet(v) = 0 THEN 0 ELSE Size(Packet(v))

\* Mutant of FrameIsThere: another byte must follow the frame.
FrameIsThere_Strict(v) ==
  /\ taken[v] + Header <= arrived[v]
  /\ taken[v] + Header + SizeHere(v) < arrived[v]

\* Mutant of FrameIsThere: the header is enough.
FrameIsThere_HeaderOnly(v) == taken[v] + Header <= arrived[v]

FrameIsThere(v) ==
  /\ taken[v] + Header <= arrived[v]
  /\ taken[v] + Header + SizeHere(v) <= arrived[v]

\* The packet is appended to the picture; the marker completes it.
Collect(v, k) ==
  IF IsTail(k)
  THEN /\ decoded' = [decoded EXCEPT ![v] = Append(@, Append(picture[v], k))]
       /\ picture' = [picture EXCEPT ![v] = <<>>]
  ELSE /\ picture' = [picture EXCEPT ![v] = Append(@, k)]
       /\ UNCHANGED decoded

Carries(k) == k # 0 /\ ~source[k].empty

\* One turn of the loop: the frame at the front is taken; one without a packet,
\* or with a packet that has no payload, is passed over.
TakeFrame(v) ==
  /\ parsing[v] /\ FrameIsThere(v)
  /\ taken' = [taken EXCEPT ![v] = @ + Header + SizeHere(v)]
  /\ got' = [got EXCEPT ![v] = Append(@, Packet(v))]
  /\ IF Carries(Packet(v)) THEN Collect(v, Packet(v))
     ELSE UNCHANGED <<picture, decoded>>
  /\ UNCHANGED <<arrived, parsing, last>> /\ UNCHANGED server_vars

\* The rest waits for more bytes.
LoopEnds(v) ==
  /\ parsing[v] /\ ~FrameIsThere(v)
  /\ parsing' = [parsing EXCEPT ![v] = FALSE]
  /\ UNCHANGED <<arrived, taken, got, last, picture, decoded>>
  /\ UNCHANGED server_vars

-----------------------------------------------------------------------------
(* The page that reads datagrams.                                           *)
Lose(v) ==
  /\ \E i \in DOMAIN net[v] : net' = [net EXCEPT ![v] = RemoveAt(@, i)]
  /\ UNCHANGED <<transport, source, udp, viewer, written, ends>>
  /\ UNCHANGED page_vars

Gap(v, k) == last[v] # <<>> /\ SequenceNumber(k) # NextSequenceNumber(last[v][1])

\* Mutant of Kept: a gap is noted, and nothing dropped.
Kept_Always(v, k) == picture[v]

\* A packet out of sequence that does not begin a picture drops the packets
\* that were collected.
Kept(v, k) == IF Gap(v, k) /\ ~IsHead(k) THEN <<>> ELSE picture[v]

\* One that begins a picture gives the decoder what there is of the one before.
Flushed(v, k) == IF IsHead(k) /\ Kept(v, k) # <<>> THEN <<Kept(v, k)>> ELSE <<>>

processRTPPacket(v, k) ==
  LET now == Append(IF IsHead(k) THEN <<>> ELSE Kept(v, k), k)
  IN /\ last' = [last EXCEPT ![v] = <<SequenceNumber(k)>>]
     /\ decoded' = [decoded EXCEPT ![v] =
                      @ \o Flushed(v, k) \o IF IsTail(k) THEN <<now>> ELSE <<>>]
     /\ picture' = [picture EXCEPT ![v] = IF IsTail(k) THEN <<>> ELSE now]

\* A packet without a payload is not even noted as the last.
ReadDatagram(v, i) ==
  /\ viewer[v] = "there" /\ i \in DOMAIN net[v]
  /\ net' = [net EXCEPT ![v] = RemoveAt(@, i)]
  /\ LET k == net[v][i]
     IN /\ got' = [got EXCEPT ![v] = Append(@, k)]
        /\ IF ~Carries(k) THEN UNCHANGED <<last, picture, decoded>>
           ELSE processRTPPacket(v, k)
  /\ UNCHANGED <<transport, source, udp, viewer, written, ends>>
  /\ UNCHANGED <<arrived, taken, parsing>>

-----------------------------------------------------------------------------
Next ==
  \/ \E tail \in BOOLEAN : SourceSends(tail)
  \/ SourcePads
  \/ \E v \in Viewers :
       \/ Joins(v) \/ Leaves(v) \/ OnInterval(v)
       \/ \E n \in 1..Total(v) : ReadStream(v, n)
       \/ TakeFrame(v) \/ LoopEnds(v)
       \/ Lose(v)
       \/ \E i \in DOMAIN net[v] : ReadDatagram(v, i)

Spec == Init /\ [][Next]_vars

\* The page's script goes on while there is something to read.
Fairness ==
  \A v \in Viewers :
    /\ WF_vars(\E n \in 1..Total(v) : ReadStream(v, n))
    /\ WF_vars(TakeFrame(v)) /\ WF_vars(LoopEnds(v))

FairSpec == Spec /\ Fairness

-----------------------------------------------------------------------------
\* Every variable has its type.
Numbers == 1..Len(source)

TypeOK ==
  /\ transport \in {"stream", "datagram"}
  /\ source \in Seq([frame : Nat, part : 0..MaxParts,
                      tail : BOOLEAN, empty : BOOLEAN])
  /\ Len(source) <= MaxPackets
  /\ udp \in Seq(Numbers) /\ Len(udp) <= SocketRoom
  /\ viewer \in [Viewers -> {"none", "there", "gone"}]
  /\ written \in [Viewers -> Seq(Numbers)]
  /\ ends \in [Viewers -> Seq(Nat)]
  /\ net \in [Viewers -> Seq(Numbers)]
  /\ arrived \in [Viewers -> Nat] /\ taken \in [Viewers -> Nat]
  /\ \A v \in Viewers : taken[v] <= arrived[v] /\ arrived[v] <= Total(v)
  /\ parsing \in [Viewers -> BOOLEAN]
  /\ got \in [Viewers -> Seq(Numbers)]
  /\ last \in [Viewers -> {<<>>} \cup {<<s>> : s \in 0..SeqSpace - 1}]
  /\ picture \in [Viewers -> Seq(Numbers)]
  /\ decoded \in [Viewers -> Seq(Seq(Numbers))]

\* A page makes of the bytes of a stream the packets that were written, in
\* their order, wherever the bytes are cut and whatever Write refused.
StreamInSync ==
  transport = "stream" => \A v \in Viewers : IsPrefix(got[v], written[v])

\* However datagrams are lost and reordered, a picture that goes to the decoder
\* is made of consecutive packets of one picture of the source.
Consecutive(p) ==
  \A i \in 1..Len(p) - 1 : /\ p[i + 1] = p[i] + 1
                           /\ source[p[i + 1]].frame = source[p[i]].frame

PicturesAreNotMixed ==
  transport = "datagram" =>
    \A v \in Viewers : \A i \in DOMAIN decoded[v] : Consecutive(decoded[v][i])

\* A picture all of whose packets a page reads one after the other is decoded
\* whole; on a stream if the packet before them was the last of its picture,
\* by datagrams whatever was before.
WholeUpTo(v, i) ==
  LET k == got[v][i]
      n == source[k].part
  IN /\ Carries(k) /\ IsTail(k) /\ n <= i
     /\ \A j \in 1..n : /\ got[v][i - n + j] = k - n + j
                       /\ Carries(k - n + j)
     /\ transport = "stream" /\ n < i => IsTail(got[v][i - n])

WholePicturesAreDecoded ==
  \A v \in Viewers : \A i \in DOMAIN got[v] : WholeUpTo(v, i) =>
    LET k == got[v][i]
        whole == [j \in 1..source[k].part |-> k - source[k].part + j]
    IN Contains(decoded[v], whole)

\* Every packet that Write took is taken from the stream by the page, without
\* another that follows it, unless the viewer leaves.
WrittenIsRead ==
  \A v \in Viewers : \A n \in 1..MaxPackets :
    (transport = "stream" /\ Len(written[v]) >= n)
      ~> (Len(got[v]) >= n \/ viewer[v] = "gone")

\* A picture whose first packets the page dropped, because one after them was
\* missing, is discarded: its other packets do not go to the decoder.
IncompleteIsDiscarded ==
  transport = "datagram" => \A v \in Viewers : \A i \in DOMAIN decoded[v] :
    LET p == decoded[v][i] IN
    (\E j, m \in DOMAIN got[v] :
       /\ j < m /\ got[v][m] = p[1]
       /\ IsHead(got[v][j])
       /\ source[got[v][j]].frame = source[p[1]].frame)
      => IsHead(p[1])
=============================================================================
