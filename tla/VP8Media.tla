------------------------------ MODULE VP8Media ------------------------------
(* VP8 video in the media_stream example: VP8Payloader cuts a frame into    *)
(* RTP payloads (vp8_rtp_packetizer.cc), RTPPacket and VP8Packet take a     *)
(* packet apart (rtp_packet.cc, vp8_packet.cc).  The header of RTP between  *)
(* them, and the descriptors of other senders, are external.  Bytes are     *)
(* numbers below 256; positions count from 1.                               *)
EXTENDS Naturals, Sequences, SequencesExt

CONSTANTS
  VP8Mtus,        \* what the application passes as mtu
  VP8Frames,      \* the frames it passes
  PictureIds,     \* what it gives to SetPictureID
  MaxVP8Calls     \* bound: calls of VP8Payloader and packets of others

ASSUME VP8Assumption ==
  /\ VP8Mtus \subseteq Nat /\ VP8Frames \subseteq Seq(Nat)
  /\ PictureIds \subseteq Nat /\ MaxVP8Calls \in Nat \ {0}

VARIABLES
  enable_picture_id_,
  picture_id_,
  vp8_calls,   \* the calls made so far
  vp8_sent     \* history: [bytes: a payload of RTP, and what it was made
               \* of: call, mtu, s, id, data]

vp8_vars == <<enable_picture_id_, picture_id_, vp8_calls, vp8_sent>>

VP8Init ==
  /\ enable_picture_id_ = FALSE /\ picture_id_ = 0
  /\ vp8_calls = 0 /\ vp8_sent = <<>>

-----------------------------------------------------------------------------
(* VP8Payloader.                                                            *)
\* An application that sets the id between frames has the ids it asked for, so
\* it is set before the first.
EnablePictureID(enable) ==
  /\ vp8_sent = <<>>
  /\ enable_picture_id_' = enable
  /\ UNCHANGED <<picture_id_, vp8_calls, vp8_sent>>

SetPictureID(id) ==
  /\ vp8_sent = <<>>
  /\ picture_id_' = id % 32768
  /\ UNCHANGED <<enable_picture_id_, vp8_calls, vp8_sent>>

\* Mutant of using_header_size: 128 is taken for a short picture id.
using_header_size_Inclusive ==
  IF ~enable_picture_id_ \/ picture_id_ = 0 THEN 1
  ELSE IF picture_id_ <= 128 THEN 3 ELSE 4

\* The first byte, and the bits and bytes of a picture id that is not 0.
using_header_size ==
  IF ~enable_picture_id_ \/ picture_id_ = 0 THEN 1
  ELSE IF picture_id_ < 128 THEN 3 ELSE 4

\* S is 16, X, I and M are 128.
Descriptor(s) ==
  CASE using_header_size = 1 -> <<16 * s>>
    [] using_header_size = 3 -> <<16 * s + 128, 128, picture_id_ % 128>>
    [] using_header_size = 4 ->
         <<16 * s + 128, 128, 128 + picture_id_ \div 256, picture_id_ % 256>>

VP8Fragments(mtu, frame) ==
  LET size == mtu - using_header_size
      start(k) == (k - 1) * size + 1
      end(k) == IF k * size <= Len(frame) THEN k * size ELSE Len(frame)
  IN [k \in 1..(Len(frame) + size - 1) \div size |->
        LET s == IF k = 1 THEN 1 ELSE 0
            data == SubSeq(frame, start(k), end(k))
        IN [call |-> vp8_calls + 1, mtu |-> mtu, s |-> s, data |-> data,
            id |-> IF enable_picture_id_ THEN picture_id_ ELSE 0,
            bytes |-> Descriptor(s) \o data]]

\* No frame, or no room for a byte of it: nothing is made, and the picture id
\* stays.
VP8Payload(mtu, frame) ==
  /\ vp8_calls < MaxVP8Calls
  /\ vp8_calls' = vp8_calls + 1
  /\ IF frame # <<>> /\ mtu > using_header_size
     THEN /\ vp8_sent' = vp8_sent \o VP8Fragments(mtu, frame)
          /\ picture_id_' = (picture_id_ + 1) % 32768
     ELSE UNCHANGED <<vp8_sent, picture_id_>>
  /\ UNCHANGED enable_picture_id_

\* Another sender's descriptor may have a TL0PICIDX (L is 64) and a TID or a
\* KEYIDX (T is 32, K is 16), and an id in the short or the long form.  It sends
\* instead of this one.
OtherDescriptor(s, i, l, t, k, id) ==
  <<16 * s + 128, 128 * i + 64 * l + 32 * t + 16 * k>>
    \o (IF i = 0 THEN <<>>
        ELSE IF id < 128 THEN <<id>> ELSE <<128 + id \div 256, id % 256>>)
    \o (IF l = 1 THEN <<200>> ELSE <<>>)
    \o (IF t = 1 \/ k = 1 THEN <<100>> ELSE <<>>)

OtherSends(s, i, l, t, k, id) ==
  /\ vp8_calls = 0 /\ id < 32768
  /\ vp8_calls' = MaxVP8Calls
  /\ vp8_sent' = <<[call |-> 1, mtu |-> 9, s |-> s, data |-> <<5, 6>>,
                    id |-> IF i = 1 THEN id ELSE 0,
                    bytes |-> OtherDescriptor(s, i, l, t, k, id) \o <<5, 6>>]>>
  /\ UNCHANGED <<enable_picture_id_, picture_id_>>

VP8Next ==
  \/ \E enable \in BOOLEAN : EnablePictureID(enable)
  \/ \E id \in PictureIds : SetPictureID(id)
  \/ \E mtu \in VP8Mtus, frame \in VP8Frames : VP8Payload(mtu, frame)
  \/ \E s, i, l, t, k \in 0..1, id \in PictureIds : OtherSends(s, i, l, t, k, id)

-----------------------------------------------------------------------------
(* RTPPacket::Unmarshal.                                                    *)
Failure == [ok |-> FALSE, payload |-> <<>>]

CsrcEnd(b) == 12 + 4 * (b[1] % 16)
HasExtension(b) == (b[1] \div 16) % 2 = 1
ExtensionEnd(b) ==
  IF HasExtension(b)
  THEN CsrcEnd(b) + 4 + 4 * (256 * b[CsrcEnd(b) + 3] + b[CsrcEnd(b) + 4])
  ELSE CsrcEnd(b)

HasPadding(b) == (b[1] \div 32) % 2 = 1 /\ ExtensionEnd(b) < Len(b)

RtpUnmarshal(b) ==
  IF \/ Len(b) < 12 \/ Len(b) < CsrcEnd(b)
     \/ HasExtension(b) /\ Len(b) < CsrcEnd(b) + 4
     \/ Len(b) < ExtensionEnd(b)
  THEN Failure
  ELSE LET padding == IF HasPadding(b) THEN b[Len(b)] ELSE 0
       IN IF HasPadding(b) /\ (padding = 0 \/ padding > Len(b) - ExtensionEnd(b))
          THEN Failure
          ELSE [ok |-> TRUE, payload |-> SubSeq(b, ExtensionEnd(b) + 1,
                                                   Len(b) - padding)]

-----------------------------------------------------------------------------
(* VP8Packet::Unmarshal.                                                    *)
Bit(byte, weight) == (byte \div weight) % 2

\* The optional bytes: those of the picture id, and where each field begins.
XByte(p) == IF Bit(p[1], 128) = 1 THEN p[2] ELSE 0
IdAt(p) == 2 + Bit(p[1], 128)
IdLength(p) == IF Bit(XByte(p), 128) = 0 THEN 0
               ELSE IF p[IdAt(p)] >= 128 THEN 2 ELSE 1

PayloadAt(p) ==
  IdAt(p) + IdLength(p) + Bit(XByte(p), 64)
    + IF Bit(XByte(p), 32) = 1 \/ Bit(XByte(p), 16) = 1 THEN 1 ELSE 0

PictureID(p) ==
  CASE IdLength(p) = 0 -> 0
    [] IdLength(p) = 1 -> p[IdAt(p)]
    [] IdLength(p) = 2 -> 256 * (p[IdAt(p)] - 128) + p[IdAt(p) + 1]

\* A byte of the descriptor is not there: each is asked for before it is read.
IsShort(p) ==
  \/ p = <<>>
  \/ Bit(p[1], 128) = 1 /\ Len(p) < 2
  \/ Bit(XByte(p), 128) = 1 /\ Len(p) < IdAt(p)
  \/ Len(p) < PayloadAt(p) - 1

NotVP8 == [ok |-> FALSE, s |-> 0, id |-> 0, data |-> <<>>]

VP8Unmarshal(p) ==
  IF IsShort(p) THEN NotVP8
  ELSE [ok |-> TRUE, s |-> Bit(p[1], 16), id |-> PictureID(p),
        data |-> SubSeq(p, PayloadAt(p), Len(p))]

-----------------------------------------------------------------------------
\* A sender of RTP may add a source, an extension and padding.
RtpHeaders == [csrcs : 0..1, words : 0..2, pad : 0..2]

RtpPacket(h, payload) ==
  LET fixed == <<128 + (IF h.pad > 0 THEN 32 ELSE 0)
                     + (IF h.words > 0 THEN 16 ELSE 0) + h.csrcs>>
      zeros(n) == [i \in 1..n |-> 0]
  IN fixed \o zeros(11 + 4 * h.csrcs)
       \o (IF h.words > 0 THEN <<190, 222, 0, h.words>> \o zeros(4 * h.words)
           ELSE <<>>)
       \o payload
       \o (IF h.pad > 0 THEN zeros(h.pad - 1) \o <<h.pad>> ELSE <<>>)

\* Whatever headers a packet travels in, its reader gets out of it the bytes,
\* the start bit and the picture id that went into it, and no payload is
\* larger than the mtu.
ReadBack ==
  \A n \in DOMAIN vp8_sent : \A h \in RtpHeaders :
    LET pkt == vp8_sent[n]
        rtp == RtpUnmarshal(RtpPacket(h, pkt.bytes))
    IN /\ rtp.ok
       /\ VP8Unmarshal(rtp.payload) =
            [ok |-> TRUE, s |-> pkt.s, id |-> pkt.id, data |-> pkt.data]
       /\ Len(pkt.bytes) <= pkt.mtu

\* Of a payload whose end is missing the reader gets what is there of the data,
\* with the right start bit and picture id; or it is refused, if not all of
\* the descriptor is there.
Truncated(pkt, n) ==
  LET header == Len(pkt.bytes) - Len(pkt.data)
  IN IF n < header THEN NotVP8
     ELSE [ok |-> TRUE, s |-> pkt.s, id |-> pkt.id,
           data |-> SubSeq(pkt.data, 1, n - header)]

CutIsNoticed ==
  \A i \in DOMAIN vp8_sent : \A n \in 0..Len(vp8_sent[i].bytes) :
    VP8Unmarshal(SubSeq(vp8_sent[i].bytes, 1, n)) = Truncated(vp8_sent[i], n)

\* A reader can tell frames apart: of the packets of one call only the first
\* has the start bit, and with picture ids they have the same one, and those of
\* another call another, also when 15 bits are at their end, unless there were
\* as many calls between them as there are ids.
FramesAreTold ==
  \A n, m \in DOMAIN vp8_sent : n < m =>
    LET a == VP8Unmarshal(vp8_sent[n].bytes)
        b == VP8Unmarshal(vp8_sent[m].bytes)
    IN IF vp8_sent[n].call = vp8_sent[m].call THEN a.id = b.id /\ b.s = 0
       ELSE enable_picture_id_ /\ vp8_sent[m].call < vp8_sent[n].call + 32768
              => a.id # b.id

\* What VP8Payloader makes, RTPPacket and VP8Packet understand.
VP8IsUnderstood == ReadBack /\ CutIsNoticed /\ FramesAreTold
=============================================================================
