------------------------- MODULE MediaStream_proofs -------------------------
(* Proofs about the VP8 half of MediaStream and about its composition.      *)
EXTENDS MediaStream, SequenceTheorems, TLAPS

-----------------------------------------------------------------------------
\* What is proved of the H.264 path holds in the composition with VP8: each of
\* its steps is one of H264Media, or leaves the variables of H.264 alone.
LEMMA MediaUsesH264 == MediaSpec => Spec
<1>1. MediaInit => Init
  BY DEF MediaInit
<1>2. [MediaNext]_<<vars, vp8_vars, codec>> => [Next]_vars
  BY DEF MediaNext
<1> QED BY <1>1, <1>2, PTL DEF MediaSpec, Spec

-----------------------------------------------------------------------------
(* Sequences that are put together and taken apart again.                   *)

\* What is before, between and behind, in a sequence put together of three.
LEMMA Parts ==
  ASSUME NEW S, NEW x \in Seq(S), NEW y \in Seq(S), NEW z \in Seq(S)
  PROVE  /\ x \o y \o z \in Seq(S)
         /\ Len(x \o y \o z) = Len(x) + Len(y) + Len(z)
         /\ \A i \in 1..Len(x) : (x \o y \o z)[i] = x[i]
         /\ \A i \in 1..Len(y) : (x \o y \o z)[Len(x) + i] = y[i]
         /\ \A i \in 1..Len(z) : (x \o y \o z)[Len(x) + Len(y) + i] = z[i]
         /\ SubSeq(x \o y \o z, Len(x) + 1, Len(x) + Len(y)) = y
<1>1. PICK xy : xy = x \o y
  OBVIOUS
<1>2. /\ xy \in Seq(S) /\ Len(xy) = Len(x) + Len(y)
      /\ Len(x) \in Nat /\ Len(y) \in Nat /\ Len(z) \in Nat
      /\ \A i \in 1..Len(x) + Len(y) :
           xy[i] = IF i <= Len(x) THEN x[i] ELSE y[i - Len(x)]
  BY <1>1, ConcatProperties, LenProperties
<1>3. PICK all : all = xy \o z
  OBVIOUS
<1>4. /\ all \in Seq(S) /\ Len(all) = Len(xy) + Len(z)
      /\ \A i \in 1..Len(xy) + Len(z) :
           all[i] = IF i <= Len(xy) THEN xy[i] ELSE z[i - Len(xy)]
  <2>1. xy \in Seq(S)
    BY <1>2
  <2>2. /\ xy \o z \in Seq(S) /\ Len(xy \o z) = Len(xy) + Len(z)
        /\ \A i \in 1..Len(xy) + Len(z) :
             (xy \o z)[i] = IF i <= Len(xy) THEN xy[i] ELSE z[i - Len(xy)]
    BY <2>1, ConcatProperties, Zenon
  <2> QED BY <1>3, <2>2
<1>5. \A i \in 1..Len(x) : all[i] = x[i]
  BY <1>2, <1>4
<1>6. ASSUME NEW i \in 1..Len(y) PROVE all[Len(x) + i] = y[i]
  <2>1. Len(x) + i \in 1..Len(x) + Len(y) /\ (Len(x) + i) - Len(x) = i
        /\ ~(Len(x) + i <= Len(x))
    BY <1>2
  <2> QED BY <1>2, <1>4, <2>1
<1>7. ASSUME NEW i \in 1..Len(z) PROVE all[Len(x) + Len(y) + i] = z[i]
  <2>1. /\ Len(xy) + i \in 1..Len(xy) + Len(z) /\ (Len(xy) + i) - Len(xy) = i
        /\ ~(Len(xy) + i <= Len(xy)) /\ Len(x) + Len(y) + i = Len(xy) + i
    BY <1>2
  <2> QED BY <1>4, <2>1
<1>8. SubSeq(all, Len(x) + 1, Len(x) + Len(y)) = y
  <2>1. PICK m, n : m = Len(x) + 1 /\ n = Len(x) + Len(y)
    OBVIOUS
  <2>2. /\ m \in Nat /\ n \in Nat /\ \A i \in m..n : i \in 1..Len(all)
        /\ (IF m <= n THEN n - m + 1 ELSE 0) = Len(y)
    BY <1>2, <1>4, <2>1
  <2>3. \A i \in m..n : all[i] \in S
    BY <1>4, <2>2, ElementOfSeq
  <2>4. /\ SubSeq(all, m, n) \in Seq(S)
        /\ Len(SubSeq(all, m, n)) = Len(y)
        /\ \A i \in 1..Len(y) : SubSeq(all, m, n)[i] = all[m + i - 1]
    BY <2>2, <2>3, SubSeqProperties
  <2>5. \A i \in 1..Len(y) : m + i - 1 = Len(x) + i
    BY <1>2, <2>1
  <2>6. \A i \in 1..Len(y) : SubSeq(all, m, n)[i] = y[i]
    BY <1>6, <2>4, <2>5
  <2> QED BY <2>1, <2>4, <2>6, SeqEqual
<1> QED BY <1>1, <1>2, <1>3, <1>4, <1>5, <1>6, <1>7, <1>8

-----------------------------------------------------------------------------
(* The inductive invariant of the VP8 half.                                 *)

\* Picture ids have fifteen bits.
FifteenBits == {x \in Nat : x < 32768}

Packet == [call : Nat, mtu : Nat, s : 0..1, data : Seq(Nat), id : FifteenBits,
           bytes : Seq(Nat)]

VP8Type ==
  /\ enable_picture_id_ \in BOOLEAN /\ picture_id_ \in FifteenBits
  /\ vp8_calls \in 0..MaxVP8Calls
  /\ vp8_sent \in Seq(Packet)

\* Its reader gets out of a payload what it was made of.
Readable(pkt) ==
  /\ pkt.bytes # <<>> /\ Len(pkt.bytes) <= pkt.mtu
  /\ VP8Unmarshal(pkt.bytes) =
       [ok |-> TRUE, s |-> pkt.s, id |-> pkt.id, data |-> pkt.data]

AllReadable == \A n \in 1..Len(vp8_sent) : Readable(vp8_sent[n])

\* Calls follow each other; one call has one id and one start bit.
InOrder(a, b) ==
  /\ a.call <= b.call
  /\ a.call = b.call => a.id = b.id /\ b.s = 0

CallsInOrder ==
  /\ \A n \in 1..Len(vp8_sent) : vp8_sent[n].call \in 1..vp8_calls
  /\ \A n, m \in 1..Len(vp8_sent) : n < m => InOrder(vp8_sent[n], vp8_sent[m])

\* An id that comes at least one and at most span after another, in a circle.
Follows(id, next, span) == \E d \in 1..span : next = (id + d) % 32768

\* From call to call the id advances at most by one, and the next id is one
\* after the last that was used.
IdsAdvance ==
  enable_picture_id_ =>
    /\ \A n, m \in 1..Len(vp8_sent) :
         vp8_sent[n].call < vp8_sent[m].call =>
           Follows(vp8_sent[n].id, vp8_sent[m].id,
                   vp8_sent[m].call - vp8_sent[n].call)
    /\ vp8_calls < MaxVP8Calls =>
         \A n \in 1..Len(vp8_sent) :
           Follows(vp8_sent[n].id, picture_id_, (vp8_calls - vp8_sent[n].call) + 1)

VP8Inv == VP8Type /\ AllReadable /\ CallsInOrder /\ IdsAdvance

-----------------------------------------------------------------------------
(* RTP: a payload in any header is taken out of it again.                   *)

\* What the external sender writes before a payload and behind it.
Zeros(n) == [i \in 1..n |-> 0]
Extension(w) == IF w > 0 THEN <<190, 222, 0, w>> \o Zeros(4 * w) ELSE <<>>
Leader(h) ==
  <<128 + (IF h.pad > 0 THEN 32 ELSE 0) + (IF h.words > 0 THEN 16 ELSE 0) + h.csrcs>>
    \o Zeros(11 + 4 * h.csrcs) \o Extension(h.words)
Trailer(pad) == IF pad > 0 THEN Zeros(pad - 1) \o <<pad>> ELSE <<>>

\* The words of a header extension follow its profile and its length.
LEMMA ExtensionIs ==
  ASSUME NEW w \in 0..2
  PROVE  /\ Extension(w) \in Seq(Nat)
         /\ Len(Extension(w)) = IF w > 0 THEN 4 + 4 * w ELSE 0
         /\ w > 0 => Extension(w)[3] = 0 /\ Extension(w)[4] = w
<1>1. CASE w = 0
  BY <1>1 DEF Extension
<1>2. CASE w > 0
  <2>1. PICK x, y : x = <<190, 222, 0, w>> /\ y = Zeros(4 * w)
    OBVIOUS
  <2>2. x \in Seq(Nat) /\ Len(x) = 4 /\ x[3] = 0 /\ x[4] = w
    BY <2>1
  <2>3. y \in Seq(Nat) /\ Len(y) = 4 * w
    BY <2>1 DEF Zeros
  <2>4. /\ x \o y \in Seq(Nat) /\ Len(x \o y) = Len(x) + Len(y)
        /\ \A i \in 1..Len(x) + Len(y) :
             (x \o y)[i] = IF i <= Len(x) THEN x[i] ELSE y[i - Len(x)]
    BY <2>2, <2>3, ConcatProperties, Zenon
  <2>5. (x \o y)[3] = x[3] /\ (x \o y)[4] = x[4] /\ Len(x \o y) = 4 + 4 * w
    BY <2>2, <2>3, <2>4
  <2>6. Extension(w) = x \o y
    BY <1>2, <2>1 DEF Extension
  <2> QED BY <1>2, <2>2, <2>4, <2>5, <2>6
<1> QED BY <1>1, <1>2

\* What is before a payload: its first byte tells what there is, and the length
\* of an extension is where its reader looks for it.
LEMMA FrontIs ==
  ASSUME NEW h \in RtpHeaders
  PROVE  /\ Leader(h) \in Seq(Nat)
         /\ Len(Leader(h)) = 12 + 4 * h.csrcs
                              + (IF h.words > 0 THEN 4 + 4 * h.words ELSE 0)
         /\ Leader(h)[1] = 128 + (IF h.pad > 0 THEN 32 ELSE 0)
                            + (IF h.words > 0 THEN 16 ELSE 0) + h.csrcs
         /\ h.words > 0 => /\ Leader(h)[12 + 4 * h.csrcs + 3] = 0
                           /\ Leader(h)[12 + 4 * h.csrcs + 4] = h.words
<1>0. PICK c, w, pd : c = h.csrcs /\ w = h.words /\ pd = h.pad
  OBVIOUS
<1>1. c \in 0..1 /\ w \in 0..2 /\ pd \in 0..2
  BY <1>0 DEF RtpHeaders
<1>2. PICK first : first = 128 + (IF pd > 0 THEN 32 ELSE 0)
                             + (IF w > 0 THEN 16 ELSE 0) + c
  OBVIOUS
<1>3. PICK x, y, z :
        x = <<first>> /\ y = Zeros(11 + 4 * c) /\ z = Extension(w)
  OBVIOUS
<1>4. x \in Seq(Nat) /\ Len(x) = 1 /\ x[1] = first
  BY <1>1, <1>2, <1>3
<1>5. y \in Seq(Nat) /\ Len(y) = 11 + 4 * c
  BY <1>1, <1>3 DEF Zeros
<1>6. /\ z \in Seq(Nat)
      /\ Len(z) = IF w > 0 THEN 4 + 4 * w ELSE 0
      /\ w > 0 => z[3] = 0 /\ z[4] = w
  BY <1>1, <1>3, ExtensionIs
<1>7. PICK all : all = x \o y \o z
  OBVIOUS
<1>8. /\ all \in Seq(Nat) /\ Len(all) = Len(x) + Len(y) + Len(z)
      /\ \A i \in 1..Len(x) : all[i] = x[i]
      /\ \A i \in 1..Len(z) : all[Len(x) + Len(y) + i] = z[i]
  <2>1. x \in Seq(Nat) /\ y \in Seq(Nat) /\ z \in Seq(Nat)
    BY <1>4, <1>5, <1>6
  <2>2. /\ x \o y \o z \in Seq(Nat)
        /\ Len(x \o y \o z) = Len(x) + Len(y) + Len(z)
        /\ \A i \in 1..Len(x) : (x \o y \o z)[i] = x[i]
        /\ \A i \in 1..Len(z) : (x \o y \o z)[Len(x) + Len(y) + i] = z[i]
    BY <2>1, Parts
  <2> QED BY <1>7, <2>2
<1>9. Leader(h) = all
  BY <1>0, <1>2, <1>3, <1>7, Zenon DEF Leader
<1>10. Len(all) = 12 + 4 * c + (IF w > 0 THEN 4 + 4 * w ELSE 0)
  BY <1>1, <1>4, <1>5, <1>6, <1>8
<1>11. all[1] = first
  BY <1>4, <1>8
<1>12. ASSUME w > 0
       PROVE  all[12 + 4 * c + 3] = 0 /\ all[12 + 4 * c + 4] = w
  <2>1. /\ 3 \in 1..Len(z) /\ 4 \in 1..Len(z)
        /\ Len(x) + Len(y) + 3 = 12 + 4 * c + 3
        /\ Len(x) + Len(y) + 4 = 12 + 4 * c + 4
    BY <1>1, <1>4, <1>5, <1>6, <1>12
  <2>2. all[Len(x) + Len(y) + 3] = z[3] /\ all[Len(x) + Len(y) + 4] = z[4]
    BY <1>8, <2>1, Zenon
  <2> QED BY <1>6, <1>12, <2>1, <2>2
<1> QED BY <1>0, <1>2, <1>8, <1>9, <1>10, <1>11, <1>12

\* What is behind a payload: padding whose last byte is its length.
LEMMA TrailerIs ==
  ASSUME NEW pad \in 0..2
  PROVE  /\ Trailer(pad) \in Seq(Nat) /\ Len(Trailer(pad)) = pad
         /\ pad > 0 => Trailer(pad)[pad] = pad
<1>1. CASE pad = 0
  BY <1>1 DEF Trailer
<1>2. CASE pad > 0
  <2>1. PICK x, y : x = Zeros(pad - 1) /\ y = <<pad>>
    OBVIOUS
  <2>2. x \in Seq(Nat) /\ Len(x) = pad - 1
    BY <1>2, <2>1 DEF Zeros
  <2>3. y \in Seq(Nat) /\ Len(y) = 1 /\ y[1] = pad
    BY <2>1
  <2>4. /\ x \o y \in Seq(Nat) /\ Len(x \o y) = Len(x) + Len(y)
        /\ \A i \in 1..Len(x) + Len(y) :
             (x \o y)[i] = IF i <= Len(x) THEN x[i] ELSE y[i - Len(x)]
    BY <2>2, <2>3, ConcatProperties, Zenon
  <2>5. Len(x \o y) = pad /\ (x \o y)[pad] = pad
    <3>1. pad \in 1..Len(x) + Len(y) /\ ~(pad <= Len(x)) /\ pad - Len(x) = 1
      BY <1>2, <2>2, <2>3
    <3> QED BY <1>2, <2>2, <2>3, <2>4, <3>1
  <2>6. Trailer(pad) = x \o y
    BY <1>2, <2>1 DEF Trailer
  <2> QED BY <2>4, <2>5, <2>6
<1> QED BY <1>1, <1>2

\* RTPPacket::Unmarshal gets the payload out of every header.
LEMMA RtpReadsBack ==
  ASSUME NEW h \in RtpHeaders, NEW p \in Seq(Nat), p # <<>>
  PROVE  RtpUnmarshal(RtpPacket(h, p)) = [ok |-> TRUE, payload |-> p]
<1>0. PICK c, w, pd : c = h.csrcs /\ w = h.words /\ pd = h.pad
  OBVIOUS
<1>1. c \in 0..1 /\ w \in 0..2 /\ pd \in 0..2
  BY <1>0 DEF RtpHeaders
<1>2. PICK x, z : x = Leader(h) /\ z = Trailer(pd)
  OBVIOUS
<1>3. /\ x \in Seq(Nat)
      /\ Len(x) = 12 + 4 * c + (IF w > 0 THEN 4 + 4 * w ELSE 0)
      /\ x[1] = 128 + (IF pd > 0 THEN 32 ELSE 0)
                  + (IF w > 0 THEN 16 ELSE 0) + c
      /\ w > 0 => /\ x[12 + 4 * c + 3] = 0
                        /\ x[12 + 4 * c + 4] = w
  BY <1>0, <1>2, FrontIs
<1>4. z \in Seq(Nat) /\ Len(z) = pd /\ (pd > 0 => z[pd] = pd)
  BY <1>1, <1>2, TrailerIs
<1>5. PICK b : b = x \o p \o z
  OBVIOUS
<1>6. /\ b \in Seq(Nat) /\ Len(b) = Len(x) + Len(p) + Len(z)
      /\ \A i \in 1..Len(x) : b[i] = x[i]
      /\ \A i \in 1..Len(z) : b[Len(x) + Len(p) + i] = z[i]
      /\ SubSeq(b, Len(x) + 1, Len(x) + Len(p)) = p
  <2>1. x \in Seq(Nat) /\ z \in Seq(Nat)
    BY <1>3, <1>4
  <2>2. /\ x \o p \o z \in Seq(Nat)
        /\ Len(x \o p \o z) = Len(x) + Len(p) + Len(z)
        /\ \A i \in 1..Len(x) : (x \o p \o z)[i] = x[i]
        /\ \A i \in 1..Len(z) : (x \o p \o z)[Len(x) + Len(p) + i] = z[i]
        /\ SubSeq(x \o p \o z, Len(x) + 1, Len(x) + Len(p)) = p
    BY <2>1, Parts
  <2> QED BY <1>5, <2>2
<1>7. RtpPacket(h, p) = b
  BY <1>0, <1>2, <1>5, Zenon DEF RtpPacket, Leader, Trailer, Extension, Zeros
<1>8. Len(p) \in Nat \ {0} /\ Len(x) \in Nat \ {0}
  BY <1>1, <1>3, LenProperties, EmptySeq
<1>9. PICK first : first = b[1]
  OBVIOUS
<1>20. PICK padded, extended \in 0..1 :
         /\ first = 128 + 32 * padded + 16 * extended + c
         /\ (padded = 1 <=> pd > 0) /\ (extended = 1 <=> w > 0)
  <2>1. first = x[1]
    BY <1>6, <1>8, <1>9
  <2>2. PICK padded, extended :
          padded = (IF pd > 0 THEN 1 ELSE 0) /\ extended = (IF w > 0 THEN 1 ELSE 0)
    OBVIOUS
  <2>3. padded \in 0..1 /\ extended \in 0..1
    BY <2>2
  <2>4. /\ first = 128 + 32 * padded + 16 * extended + c
        /\ (padded = 1 <=> pd > 0) /\ (extended = 1 <=> w > 0)
    BY <1>1, <1>3, <2>1, <2>2
  <2> QED BY <2>3, <2>4
<1>21. /\ first % 16 = c /\ (first \div 16) % 2 = extended
       /\ (first \div 32) % 2 = padded
  BY <1>1, <1>20
<1>10. CsrcEnd(b) = 12 + 4 * c
  BY <1>1, <1>9, <1>21 DEF CsrcEnd
<1>11. HasExtension(b) <=> w > 0
  BY <1>9, <1>20, <1>21 DEF HasExtension
<1>12. ExtensionEnd(b) = Len(x)
  <2>1. CASE w = 0
    BY <1>1, <1>3, <1>10, <1>11, <2>1 DEF ExtensionEnd
  <2>2. CASE w > 0
    <3>1. b[CsrcEnd(b) + 3] = 0 /\ b[CsrcEnd(b) + 4] = w
      BY <1>1, <1>3, <1>6, <1>10, <2>2
    <3> QED BY <1>1, <1>3, <1>10, <1>11, <2>2, <3>1 DEF ExtensionEnd
  <2> QED BY <1>1, <2>1, <2>2
<1>13. HasPadding(b) <=> pd > 0
  <2>1. Len(b) = Len(x) + Len(p) + pd
    BY <1>4, <1>6
  <2>2. pd > 0 => ExtensionEnd(b) < Len(b)
    BY <1>1, <1>8, <1>12, <2>1
  <2> QED BY <1>9, <1>20, <1>21, <2>2 DEF HasPadding
<1>14. pd > 0 => b[Len(b)] = pd
  BY <1>1, <1>4, <1>6, <1>8
<1>15. /\ ~(Len(b) < 12) /\ ~(Len(b) < CsrcEnd(b))
       /\ HasExtension(b) => ~(Len(b) < CsrcEnd(b) + 4)
       /\ ~(Len(b) < ExtensionEnd(b))
  <2>1. Len(b) = Len(x) + Len(p) + pd /\ Len(b) \in Nat /\ Len(b) >= Len(x)
    BY <1>1, <1>4, <1>6, <1>8
  <2>2. Len(x) >= 12 + 4 * c /\ (w > 0 => Len(x) >= 12 + 4 * c + 4)
    BY <1>1, <1>3
  <2> QED BY <1>1, <1>8, <1>10, <1>11, <1>12, <2>1, <2>2
<1>16. PICK padding : padding = IF HasPadding(b) THEN b[Len(b)] ELSE 0
  OBVIOUS
<1>17. padding = pd
  BY <1>1, <1>13, <1>14, <1>16
<1>18. ~(HasPadding(b) /\ (padding = 0 \/ padding > Len(b) - ExtensionEnd(b)))
  BY <1>1, <1>4, <1>6, <1>8, <1>12, <1>13, <1>17
<1>19. SubSeq(b, ExtensionEnd(b) + 1, Len(b) - padding) = p
  <2>1. Len(b) - padding = Len(x) + Len(p)
    BY <1>1, <1>4, <1>6, <1>8, <1>17
  <2> QED BY <1>6, <1>12, <2>1, Zenon
<1>22. RtpUnmarshal(b) = [ok |-> TRUE, payload |-> p]
  BY <1>15, <1>16, <1>18, <1>19, Zenon DEF RtpUnmarshal
<1> QED BY <1>7, <1>22

-----------------------------------------------------------------------------
(* The descriptor of VP8: what a reader gets out of it.                     *)

\* What is before and behind, in a sequence put together of two.
LEMMA Halves ==
  ASSUME NEW d \in Seq(Nat), NEW data \in Seq(Nat)
  PROVE  /\ d \o data \in Seq(Nat)
         /\ Len(d \o data) = Len(d) + Len(data)
         /\ \A i \in 1..Len(d) : (d \o data)[i] = d[i]
         /\ SubSeq(d \o data, Len(d) + 1, Len(d) + Len(data)) = data
<1>1. /\ d \o data \in Seq(Nat) /\ Len(d \o data) = Len(d) + Len(data)
      /\ \A i \in 1..Len(d) + Len(data) :
           (d \o data)[i] = IF i <= Len(d) THEN d[i] ELSE data[i - Len(d)]
  BY ConcatProperties, Zenon
<1>2. Len(d) \in Nat /\ Len(data) \in Nat
  BY LenProperties
<1>3. \A i \in 1..Len(d) : (d \o data)[i] = d[i]
  BY <1>1, <1>2
<1>4. d \o data \o <<>> = d \o data
  BY <1>1, ConcatEmptySeq
<1>5. <<>> \in Seq(Nat)
  OBVIOUS
<1>6. SubSeq(d \o data \o <<>>, Len(d) + 1, Len(d) + Len(data)) = data
  BY <1>5, Parts
<1>7. SubSeq(d \o data, Len(d) + 1, Len(d) + Len(data)) = data
  BY <1>4, <1>6
<1> QED BY <1>1, <1>3, <1>7

\* VP8Packet::Unmarshal reads the descriptors that VP8Payloader writes, in
\* which a picture id has no byte, one or two.
LEMMA OwnReadsBack ==
  ASSUME enable_picture_id_ \in BOOLEAN, picture_id_ \in FifteenBits,
         NEW s \in 0..1, NEW data \in Seq(Nat)
  PROVE  /\ Descriptor(s) \o data \in Seq(Nat)
         /\ Len(Descriptor(s) \o data) = using_header_size + Len(data)
         /\ VP8Unmarshal(Descriptor(s) \o data) =
              [ok |-> TRUE, s |-> s,
               id |-> IF enable_picture_id_ THEN picture_id_ ELSE 0, data |-> data]
<1>0. PICK d : d = Descriptor(s)
  OBVIOUS
<1>1. PICK p : p = d \o data
  OBVIOUS
<1>2. PICK id : id = IF enable_picture_id_ THEN picture_id_ ELSE 0
  OBVIOUS
<1>3. id \in Nat /\ id < 32768
  BY <1>2 DEF FifteenBits
<1>4. SUFFICES /\ p \in Seq(Nat) /\ Len(p) = using_header_size + Len(data)
               /\ VP8Unmarshal(p) = [ok |-> TRUE, s |-> s, id |-> id, data |-> data]
  BY <1>0, <1>1, <1>2, Zenon
<1>5. ASSUME d \in Seq(Nat)
      PROVE  /\ p \in Seq(Nat) /\ Len(p) = Len(d) + Len(data)
             /\ \A i \in 1..Len(d) : p[i] = d[i]
             /\ SubSeq(p, Len(d) + 1, Len(p)) = data
  <2>1. /\ d \o data \in Seq(Nat) /\ Len(d \o data) = Len(d) + Len(data)
        /\ \A i \in 1..Len(d) : (d \o data)[i] = d[i]
        /\ SubSeq(d \o data, Len(d) + 1, Len(d) + Len(data)) = data
    BY <1>5, Halves, Zenon
  <2> QED BY <1>1, <2>1
<1>6. CASE id = 0
  <2>1. using_header_size = 1
    BY <1>2, <1>6 DEF using_header_size
  <2>2. d = <<16 * s>>
    BY <1>0, <2>1 DEF Descriptor
  <2>3. d \in Seq(Nat) /\ Len(d) = 1 /\ d[1] = 16 * s
    BY <2>2
  <2>4. p[1] = 16 * s
    BY <1>5, <2>3
  <2>5. Bit(p[1], 128) = 0 /\ Bit(p[1], 16) = s
    BY <2>4 DEF Bit
  <2>6. XByte(p) = 0 /\ IdAt(p) = 2
    BY <2>5 DEF XByte, IdAt
  <2>7. Bit(0, 128) = 0 /\ Bit(0, 64) = 0 /\ Bit(0, 32) = 0 /\ Bit(0, 16) = 0
    BY DEF Bit
  <2>8. IdLength(p) = 0
    BY <2>6, <2>7 DEF IdLength
  <2>9. PayloadAt(p) = Len(d) + 1
    BY <2>3, <2>6, <2>7, <2>8 DEF PayloadAt
  <2>10. PictureID(p) = id
    BY <1>6, <2>8 DEF PictureID
  <2>11. SubSeq(p, PayloadAt(p), Len(p)) = data
    BY <1>5, <2>3, <2>9
  <2>12. VP8Unmarshal(p) = [ok |-> TRUE, s |-> s, id |-> id, data |-> data]
    <3>1. Len(p) = 1 + Len(data) /\ Len(data) \in Nat
      BY <1>5, <2>3, LenProperties
    <3>2. p # <<>>
      BY <3>1
    <3>3. ~(Len(p) < PayloadAt(p) - 1)
      BY <2>3, <2>9, <3>1
    <3>4. Bit(p[1], 128) # 1 /\ Bit(XByte(p), 128) # 1
      BY <2>5, <2>6, <2>7
    <3>5. ~IsShort(p)
      BY <3>2, <3>3, <3>4, Zenon DEF IsShort
    <3> QED BY <2>5, <2>10, <2>11, <3>5 DEF VP8Unmarshal
  <2> QED BY <1>5, <2>1, <2>3, <2>12
<1>7. /\ Bit(128, 128) = 1 /\ Bit(128, 64) = 0
      /\ Bit(128, 32) = 0 /\ Bit(128, 16) = 0
  BY DEF Bit
<1>8. ASSUME d \in Seq(Nat), Len(d) \in 3..4, d[1] = 16 * s + 128, d[2] = 128
      PROVE  /\ IdLength(p) = IF d[3] >= 128 THEN 2 ELSE 1
             /\ IdAt(p) = 3 /\ PayloadAt(p) = 3 + IdLength(p)
             /\ Bit(p[1], 16) = s /\ p[3] = d[3] /\ (Len(d) = 4 => p[4] = d[4])
             /\ PayloadAt(p) = Len(d) + 1 => ~IsShort(p)
  <2>1. p[1] = 16 * s + 128 /\ p[2] = 128 /\ p[3] = d[3] /\ (Len(d) = 4 => p[4] = d[4])
    <3>1. 1 \in 1..Len(d) /\ 2 \in 1..Len(d) /\ 3 \in 1..Len(d)
      <4>1. PICK n : n = Len(d)
        OBVIOUS
      <4>2. n \in 3..4
        BY <1>8, <4>1
      <4> QED BY <4>1, <4>2
    <3>2. Len(d) = 4 => 4 \in 1..Len(d)
      OBVIOUS
    <3>3. \A i \in 1..Len(d) : p[i] = d[i]
      BY <1>5, <1>8
    <3> QED BY <1>8, <3>1, <3>2, <3>3
  <2>2. Bit(p[1], 128) = 1 /\ Bit(p[1], 16) = s
    BY <2>1 DEF Bit
  <2>3. XByte(p) = 128 /\ IdAt(p) = 3
    BY <2>1, <2>2 DEF XByte, IdAt
  <2>4. IdLength(p) = IF d[3] >= 128 THEN 2 ELSE 1
    BY <1>7, <2>1, <2>3 DEF IdLength
  <2>5. PayloadAt(p) = 3 + IdLength(p)
    BY <1>7, <2>3, <2>4 DEF PayloadAt
  <2>6. ASSUME PayloadAt(p) = Len(d) + 1 PROVE ~IsShort(p)
    <3>1. Len(p) = Len(d) + Len(data) /\ Len(data) \in Nat /\ Len(d) \in 3..4
      BY <1>5, <1>8, LenProperties
    <3>2. PICK m, n : m = Len(d) /\ n = Len(data)
      OBVIOUS
    <3>3. m \in 3..4 /\ n \in Nat /\ Len(p) = m + n
      BY <3>1, <3>2
    <3>4. m + n # 0 /\ ~(m + n < 2) /\ ~(m + n < 3) /\ ~(m + n < (m + 1) - 1)
      BY <3>3
    <3>5. p # <<>>
      BY <3>3, <3>4
    <3>6. ~(Len(p) < 2) /\ ~(Len(p) < IdAt(p)) /\ ~(Len(p) < PayloadAt(p) - 1)
      BY <2>3, <2>6, <3>2, <3>3, <3>4
    <3> QED BY <3>5, <3>6, Zenon DEF IsShort
  <2> QED BY <2>1, <2>2, <2>3, <2>4, <2>5, <2>6
<1>9. CASE id # 0 /\ id < 128
  <2>1. enable_picture_id_ /\ picture_id_ = id
    BY <1>2, <1>9
  <2>2. using_header_size = 3 /\ id % 128 = id
    <3>1. id % 128 = id
      BY <1>3, <1>9
    <3>2. using_header_size = 3
      BY <1>9, <2>1 DEF using_header_size
    <3> QED BY <3>1, <3>2
  <2>3. d = <<16 * s + 128, 128, id>>
    BY <1>0, <2>1, <2>2 DEF Descriptor
  <2>4. d \in Seq(Nat) /\ Len(d) = 3 /\ d[1] = 16 * s + 128 /\ d[2] = 128 /\ d[3] = id
    BY <1>3, <2>3
  <2>5. /\ IdLength(p) = 1 /\ IdAt(p) = 3 /\ PayloadAt(p) = 4
        /\ Bit(p[1], 16) = s /\ p[3] = id /\ ~IsShort(p)
    BY <1>3, <1>8, <1>9, <2>4
  <2>6. PictureID(p) = id
    BY <2>5 DEF PictureID
  <2>7. SubSeq(p, PayloadAt(p), Len(p)) = data
    BY <1>5, <2>4, <2>5
  <2>8. VP8Unmarshal(p) = [ok |-> TRUE, s |-> s, id |-> id, data |-> data]
    BY <2>5, <2>6, <2>7 DEF VP8Unmarshal
  <2> QED BY <1>5, <2>2, <2>4, <2>8
<1>10. CASE id >= 128
  <2>1. enable_picture_id_ /\ picture_id_ = id
    BY <1>2, <1>10
  <2>2. using_header_size = 4
    BY <1>3, <1>10, <2>1 DEF using_header_size
  <2>3. PICK high : high = id \div 256
    OBVIOUS
  <2>4. PICK low : low = id % 256
    OBVIOUS
  <2>5. high \in Nat /\ low \in Nat /\ 256 * high + low = id
    BY <1>3, <2>3, <2>4
  <2>6. d = <<16 * s + 128, 128, 128 + high, low>>
    BY <1>0, <2>1, <2>2, <2>3, <2>4 DEF Descriptor
  <2>7. /\ d \in Seq(Nat) /\ Len(d) = 4 /\ d[1] = 16 * s + 128 /\ d[2] = 128
        /\ d[3] = 128 + high /\ d[4] = low
    BY <2>5, <2>6
  <2>8. /\ IdLength(p) = 2 /\ IdAt(p) = 3 /\ PayloadAt(p) = 5
        /\ Bit(p[1], 16) = s /\ p[3] = 128 + high /\ p[4] = low /\ ~IsShort(p)
    BY <1>8, <2>5, <2>7
  <2>9. PictureID(p) = id
    <3>1. PictureID(p) = 256 * (p[3] - 128) + p[4]
      BY <2>8 DEF PictureID
    <3> QED BY <2>5, <2>8, <3>1
  <2>10. SubSeq(p, PayloadAt(p), Len(p)) = data
    BY <1>5, <2>7, <2>8
  <2>11. VP8Unmarshal(p) = [ok |-> TRUE, s |-> s, id |-> id, data |-> data]
    BY <2>8, <2>9, <2>10 DEF VP8Unmarshal
  <2> QED BY <1>5, <2>2, <2>7, <2>11
<1> QED BY <1>3, <1>6, <1>9, <1>10

\* A bit is a bit, and the fields of a descriptor lie behind one another.
LEMMA DescriptorIs ==
  ASSUME NEW p \in Seq(Nat), ~IsShort(p)
  PROVE  /\ IdAt(p) \in {2, 3} /\ IdLength(p) \in {0, 1, 2}
         /\ PayloadAt(p) \in Nat /\ PayloadAt(p) >= IdAt(p) + IdLength(p)
         /\ PayloadAt(p) - 1 <= Len(p)
         /\ 1 \in 1..PayloadAt(p) - 1
         /\ Bit(p[1], 128) = 1 => IdAt(p) = 3 /\ 2 \in 1..PayloadAt(p) - 1
         /\ Bit(XByte(p), 128) = 1 => IdLength(p) >= 1
<1>1. \A x \in Nat : /\ Bit(x, 128) \in {0, 1} /\ Bit(x, 64) \in {0, 1}
  BY DEF Bit
<1>2. Len(p) \in Nat /\ Len(p) >= 1 /\ p[1] \in Nat
  <2>1. p # <<>>
    BY DEF IsShort
  <2> QED BY <2>1, EmptySeq, ElementOfSeq
<1>3. Bit(p[1], 128) \in {0, 1}
  BY <1>1, <1>2
<1>4. XByte(p) \in Nat
  <2>1. CASE Bit(p[1], 128) = 1
    <3>1. 2 \in 1..Len(p)
      BY <1>2, <2>1 DEF IsShort
    <3> QED BY <2>1, <3>1, ElementOfSeq DEF XByte
  <2>2. CASE Bit(p[1], 128) # 1
    BY <2>2 DEF XByte
  <2> QED BY <2>1, <2>2
<1>5. Bit(XByte(p), 128) \in {0, 1} /\ Bit(XByte(p), 64) \in {0, 1}
  BY <1>1, <1>4
<1>6. IdAt(p) = IF Bit(p[1], 128) = 1 THEN 3 ELSE 2
  BY <1>3 DEF IdAt
<1>7. IdLength(p) \in {0, 1, 2} /\ (Bit(XByte(p), 128) = 1 => IdLength(p) >= 1)
  BY <1>5 DEF IdLength
<1>8. PICK one : one = IF Bit(XByte(p), 32) = 1 \/ Bit(XByte(p), 16) = 1 THEN 1 ELSE 0
  OBVIOUS
<1>9. PayloadAt(p) = IdAt(p) + IdLength(p) + Bit(XByte(p), 64) + one
  BY <1>8 DEF PayloadAt
<1>10. one \in {0, 1}
  BY <1>8
<1>11. PayloadAt(p) \in Nat /\ PayloadAt(p) >= IdAt(p) + IdLength(p)
  BY <1>5, <1>6, <1>7, <1>9, <1>10
<1>12. PayloadAt(p) - 1 <= Len(p)
  BY <1>2, <1>11 DEF IsShort
<1> QED BY <1>3, <1>6, <1>7, <1>11, <1>12

\* A payload without its end is refused, or it is taken apart as the whole is.
LEMMA CutReads ==
  ASSUME NEW p \in Seq(Nat), NEW s, NEW id, NEW data \in Seq(Nat),
         VP8Unmarshal(p) = [ok |-> TRUE, s |-> s, id |-> id, data |-> data],
         NEW n \in 0..Len(p)
  PROVE  VP8Unmarshal(SubSeq(p, 1, n)) =
           IF n < Len(p) - Len(data) THEN NotVP8
           ELSE [ok |-> TRUE, s |-> s, id |-> id,
                 data |-> SubSeq(data, 1, n - (Len(p) - Len(data)))]
<1>1. ~IsShort(p)
  <2>1. NotVP8.ok = FALSE /\ VP8Unmarshal(p).ok = TRUE
    BY DEF NotVP8
  <2> QED BY <2>1 DEF VP8Unmarshal
<1>2. /\ s = Bit(p[1], 16) /\ id = PictureID(p)
      /\ data = SubSeq(p, PayloadAt(p), Len(p))
  BY <1>1 DEF VP8Unmarshal
<1>3. PICK at : at = PayloadAt(p)
  OBVIOUS
<1>4. /\ IdAt(p) \in {2, 3} /\ IdLength(p) \in {0, 1, 2}
      /\ at \in Nat /\ at >= IdAt(p) + IdLength(p) /\ at - 1 <= Len(p)
      /\ at >= 2
      /\ Bit(p[1], 128) = 1 => IdAt(p) = 3 /\ at >= 3
      /\ Bit(XByte(p), 128) = 1 => IdLength(p) >= 1
  <2>1. /\ IdAt(p) \in {2, 3} /\ IdLength(p) \in {0, 1, 2}
        /\ PayloadAt(p) \in Nat /\ PayloadAt(p) >= IdAt(p) + IdLength(p)
        /\ PayloadAt(p) - 1 <= Len(p)
        /\ Bit(p[1], 128) = 1 => IdAt(p) = 3
        /\ Bit(XByte(p), 128) = 1 => IdLength(p) >= 1
    BY <1>1, DescriptorIs
  <2> QED BY <1>3, <2>1
<1>5. Len(p) \in Nat /\ n \in Nat /\ n <= Len(p)
  OBVIOUS
<1>6. Len(data) = Len(p) - at + 1
  <2>1. data = SubSeq(p, at, Len(p))
    BY <1>2, <1>3
  <2>2. \A i \in at..Len(p) : p[i] \in Nat
    BY <1>4, <1>5, ElementOfSeq
  <2>3. at \in Int /\ Len(p) \in Int
    BY <1>4, <1>5
  <2>4. Len(SubSeq(p, at, Len(p))) = IF at <= Len(p) THEN Len(p) - at + 1 ELSE 0
    BY <2>2, <2>3, SubSeqProperties
  <2> QED BY <1>4, <1>5, <2>1, <2>4
<1>7. PICK c : c = SubSeq(p, 1, n)
  OBVIOUS
<1>8. c \in Seq(Nat) /\ Len(c) = n /\ \A i \in 1..n : c[i] = p[i]
  <2>1. \A i \in 1..n : p[i] \in Nat
    BY <1>5, ElementOfSeq
  <2>2. 1 \in Int /\ n \in Int
    BY <1>5
  <2>3. /\ SubSeq(p, 1, n) \in Seq(Nat)
        /\ Len(SubSeq(p, 1, n)) = IF 1 <= n THEN n - 1 + 1 ELSE 0
        /\ \A i \in 1..n - 1 + 1 : SubSeq(p, 1, n)[i] = p[1 + i - 1]
    BY <2>1, <2>2, SubSeqProperties
  <2>4. \A i \in 1..n : i \in 1..n - 1 + 1 /\ 1 + i - 1 = i
    BY <1>5
  <2> QED BY <1>5, <1>7, <2>3, <2>4
\* What is asked of the cut is asked of the whole, where the cut has it.
<1>9. n >= 1 => c[1] = p[1]
  BY <1>5, <1>8
<1>10. n >= 1 => IdAt(c) = IdAt(p)
  BY <1>9 DEF IdAt
<1>11. n >= 1 /\ (Bit(p[1], 128) = 1 => n >= 2) => XByte(c) = XByte(p)
  BY <1>5, <1>8, <1>9 DEF XByte
<1>12. ASSUME n >= 1, Bit(p[1], 128) = 1 => n >= 2,
              Bit(XByte(p), 128) = 1 => n >= IdAt(p)
       PROVE  IdLength(c) = IdLength(p) /\ PayloadAt(c) = at
  <2>1. XByte(c) = XByte(p) /\ IdAt(c) = IdAt(p)
    BY <1>10, <1>11, <1>12
  <2>2. Bit(XByte(p), 128) = 1 => c[IdAt(p)] = p[IdAt(p)]
    <3>1. \A i \in 1..n : c[i] = p[i]
      BY <1>8
    <3>2. Bit(XByte(p), 128) = 1 => n >= IdAt(p)
      BY <1>12
    <3>3. IdAt(p) \in Nat /\ IdAt(p) >= 1
      BY <1>4
    <3>4. Bit(XByte(p), 128) = 1 => IdAt(p) \in 1..n
      BY <1>5, <3>2, <3>3
    <3> QED BY <3>1, <3>4
  <2>3. Bit(XByte(p), 128) \in {0, 1}
    <3>1. \A x \in Nat : Bit(x, 128) \in {0, 1}
      BY DEF Bit
    <3>2. XByte(p) \in Nat
      <4>1. Bit(p[1], 128) = 1 => p[2] \in Nat
        BY <1>5, <1>12, ElementOfSeq
      <4> QED BY <4>1 DEF XByte
    <3> QED BY <3>1, <3>2
  <2>4. IdLength(c) = IdLength(p)
    BY <2>1, <2>2, <2>3 DEF IdLength
  <2> QED BY <1>3, <2>1, <2>4 DEF PayloadAt
<1>13. CASE n < at - 1
  <2>1. IsShort(c)
    <3> SUFFICES ASSUME ~IsShort(c) PROVE FALSE
      OBVIOUS
    <3>1. n >= 1
      <4>1. c # <<>>
        BY DEF IsShort
      <4> QED BY <1>5, <1>8, <4>1, EmptySeq
    <3>2. Bit(p[1], 128) = 1 => n >= 2
      BY <1>5, <1>8, <1>9, <3>1 DEF IsShort
    <3>3. Bit(XByte(p), 128) = 1 => n >= IdAt(p)
      <4>1. XByte(c) = XByte(p) /\ IdAt(c) = IdAt(p) /\ Len(c) = n
        BY <1>8, <1>10, <1>11, <3>1, <3>2
      <4>2. IdAt(p) \in Nat
        BY <1>4
      <4> QED BY <1>5, <4>1, <4>2 DEF IsShort
    <3>4. PayloadAt(c) = at
      BY <1>12, <3>1, <3>2, <3>3
    <3> QED BY <1>4, <1>5, <1>8, <1>13, <3>4 DEF IsShort
  <2>2. n < Len(p) - Len(data)
    BY <1>4, <1>5, <1>6, <1>13
  <2> QED BY <1>7, <2>1, <2>2 DEF VP8Unmarshal
<1>14. CASE ~(n < at - 1)
  <2>1. n >= 1 /\ (Bit(p[1], 128) = 1 => n >= 2)
    BY <1>4, <1>5, <1>14
  <2>2. Bit(XByte(p), 128) = 1 => n >= IdAt(p)
    BY <1>4, <1>5, <1>14
  <2>3. /\ c[1] = p[1] /\ IdAt(c) = IdAt(p) /\ XByte(c) = XByte(p)
        /\ IdLength(c) = IdLength(p) /\ PayloadAt(c) = at
    BY <1>9, <1>10, <1>11, <1>12, <2>1, <2>2
  <2>4. ~IsShort(c)
    <3>1. c # <<>>
      BY <1>8, <2>1
    <3>2. ~(Len(c) < PayloadAt(c) - 1)
      BY <1>8, <1>14, <2>3
    <3>3. /\ Bit(c[1], 128) = 1 => ~(Len(c) < 2)
          /\ Bit(XByte(c), 128) = 1 => ~(Len(c) < IdAt(c))
      BY <1>4, <1>5, <1>8, <2>1, <2>2, <2>3
    <3> QED BY <3>1, <3>2, <3>3 DEF IsShort
  <2>5. PictureID(c) = PictureID(p)
    <3>1. PICK w, len : w = IdAt(p) /\ len = IdLength(p)
      OBVIOUS
    <3>2. w \in Nat /\ w >= 1 /\ len \in {0, 1, 2} /\ w + len <= n + 1
      BY <1>4, <1>5, <1>14, <3>1
    <3>3. /\ len >= 1 => w \in 1..n
          /\ len = 2 => w + 1 \in 1..n
      BY <1>5, <3>2
    <3>4. /\ len >= 1 => c[w] = p[w]
          /\ len = 2 => c[w + 1] = p[w + 1]
      BY <1>8, <3>3
    <3>5. len = 0 \/ len = 1 \/ len = 2
      BY <3>2
    <3> QED BY <2>3, <3>1, <3>4, <3>5 DEF PictureID
  <2>6. SubSeq(c, at, n) = SubSeq(data, 1, n - (Len(p) - Len(data)))
    <3>1. PICK m : m = n - (Len(p) - Len(data))
      OBVIOUS
    <3>2. m = n - at + 1 /\ m \in Nat /\ m <= Len(data) /\ Len(data) \in Nat
      BY <1>4, <1>5, <1>6, <1>14, <3>1
    <3>3. \A i \in 1..m : data[i] = p[at + i - 1]
      <4>1. \A i \in at..Len(p) : p[i] \in Nat
        BY <1>4, <1>5, ElementOfSeq
      <4>2. at \in Int /\ Len(p) \in Int
        BY <1>4, <1>5
      <4>3. \A i \in 1..Len(p) - at + 1 : SubSeq(p, at, Len(p))[i] = p[at + i - 1]
        BY <4>1, <4>2, SubSeqProperties
      <4>4. \A i \in 1..m : i \in 1..Len(p) - at + 1
        BY <1>4, <1>5, <1>6, <3>2
      <4> QED BY <1>2, <1>3, <4>3, <4>4
    <3>4. /\ SubSeq(data, 1, m) \in Seq(Nat) /\ Len(SubSeq(data, 1, m)) = m
          /\ \A i \in 1..m : SubSeq(data, 1, m)[i] = data[i]
      <4>1. \A i \in 1..m : data[i] \in Nat
        BY <3>2, ElementOfSeq
      <4>2. 1 \in Int /\ m \in Int
        BY <3>2
      <4>3. /\ SubSeq(data, 1, m) \in Seq(Nat)
            /\ Len(SubSeq(data, 1, m)) = IF 1 <= m THEN m - 1 + 1 ELSE 0
            /\ \A i \in 1..m - 1 + 1 : SubSeq(data, 1, m)[i] = data[1 + i - 1]
        BY <4>1, <4>2, SubSeqProperties
      <4>4. \A i \in 1..m : i \in 1..m - 1 + 1 /\ 1 + i - 1 = i
        BY <3>2
      <4> QED BY <3>2, <4>3, <4>4
    <3>5. /\ SubSeq(c, at, n) \in Seq(Nat) /\ Len(SubSeq(c, at, n)) = m
          /\ \A i \in 1..m : SubSeq(c, at, n)[i] = p[at + i - 1]
      <4>1. \A i \in at..n : c[i] \in Nat
        BY <1>4, <1>5, <1>8, ElementOfSeq
      <4>2. at \in Int /\ n \in Int
        BY <1>4, <1>5
      <4>3. /\ SubSeq(c, at, n) \in Seq(Nat)
            /\ Len(SubSeq(c, at, n)) = IF at <= n THEN n - at + 1 ELSE 0
            /\ \A i \in 1..n - at + 1 : SubSeq(c, at, n)[i] = c[at + i - 1]
        BY <4>1, <4>2, SubSeqProperties
      <4>4. \A i \in 1..m : i \in 1..n - at + 1 /\ at + i - 1 \in 1..n
        BY <1>4, <1>5, <3>2
      <4>5. Len(SubSeq(c, at, n)) = m
        BY <1>4, <1>5, <3>2, <4>3
      <4>6. \A i \in 1..m : SubSeq(c, at, n)[i] = p[at + i - 1]
        BY <1>8, <4>3, <4>4
      <4> QED BY <4>3, <4>5, <4>6
    <3>6. SubSeq(c, at, n) = SubSeq(data, 1, m)
      BY <3>3, <3>4, <3>5, SeqEqual
    <3> QED BY <3>1, <3>6
  <2>7. ~(n < Len(p) - Len(data))
    BY <1>4, <1>5, <1>6, <1>14
  <2>8. VP8Unmarshal(c) = [ok |-> TRUE, s |-> s, id |-> id, data |-> SubSeq(c, at, n)]
    BY <1>2, <1>8, <2>3, <2>4, <2>5 DEF VP8Unmarshal
  <2> QED BY <1>7, <2>6, <2>7, <2>8
<1> QED BY <1>13, <1>14

\* A reader gets these out of a payload that has at most six bytes more.
ReadsAs(bytes, s, id, data) ==
  /\ bytes \in Seq(Nat) /\ Len(bytes) \in 2..6 + Len(data)
  /\ VP8Unmarshal(bytes) = [ok |-> TRUE, s |-> s, id |-> id, data |-> data]

\* And those another sender writes, with every set of optional bytes.
LEMMA OtherReadsBack ==
  ASSUME NEW s \in 0..1, NEW i \in 0..1, NEW l \in 0..1, NEW t \in 0..1,
         NEW k \in 0..1, NEW id \in FifteenBits, NEW data \in Seq(Nat)
  PROVE  ReadsAs(OtherDescriptor(s, i, l, t, k, id) \o data,
                 s, IF i = 1 THEN id ELSE 0, data)
<1>1. PICK base : base = <<16 * s + 128, 128 * i + 64 * l + 32 * t + 16 * k>>
  OBVIOUS
<1>2. PICK ids : ids = IF i = 0 THEN <<>>
                       ELSE IF id < 128 THEN <<id>>
                       ELSE <<128 + id \div 256, id % 256>>
  OBVIOUS
<1>3. PICK tl0 : tl0 = IF l = 1 THEN <<200>> ELSE <<>>
  OBVIOUS
<1>4. PICK tid : tid = IF t = 1 \/ k = 1 THEN <<100>> ELSE <<>>
  OBVIOUS
<1>5. PICK bits : bits = 128 * i + 64 * l + 32 * t + 16 * k
  OBVIOUS
<1>6. PICK one : one = IF t = 1 \/ k = 1 THEN 1 ELSE 0
  OBVIOUS
<1>7. id \in Nat /\ id < 32768
  BY DEF FifteenBits
<1>8. /\ base \in Seq(Nat) /\ Len(base) = 2
      /\ base[1] = 16 * s + 128 /\ base[2] = bits
  <2>1. bits \in Nat /\ base = <<16 * s + 128, bits>>
    BY <1>1, <1>5
  <2> QED BY <2>1
<1>9. tl0 \in Seq(Nat) /\ Len(tl0) = l
  BY <1>3
<1>10. tid \in Seq(Nat) /\ Len(tid) = one /\ one \in 0..1
  BY <1>4, <1>6
<1>11. /\ ids \in Seq(Nat) /\ Len(ids) \in 0..2 /\ (Len(ids) = 0 <=> i = 0)
       /\ i = 1 /\ id < 128 => Len(ids) = 1 /\ ids[1] = id
       /\ i = 1 /\ id >= 128 => /\ Len(ids) = 2 /\ ids[1] >= 128
                                /\ 256 * (ids[1] - 128) + ids[2] = id
  <2>1. CASE i = 0
    <3>1. ids = <<>>
      BY <1>2, <2>1
    <3> QED BY <2>1, <3>1
  <2>2. CASE i = 1 /\ id < 128
    <3>1. ids = <<id>>
      BY <1>2, <2>2
    <3> QED BY <1>7, <2>2, <3>1
  <2>3. CASE i = 1 /\ id >= 128
    <3>1. PICK high : high = id \div 256
      OBVIOUS
    <3>2. PICK low : low = id % 256
      OBVIOUS
    <3>3. high \in Nat /\ low \in Nat /\ 256 * high + low = id
      BY <1>7, <3>1, <3>2
    <3>4. ids = <<128 + high, low>>
      BY <1>2, <1>7, <2>3, <3>1, <3>2
    <3>5. /\ ids \in Seq(Nat) /\ Len(ids) = 2
          /\ ids[1] = 128 + high /\ ids[2] = low
      BY <3>3, <3>4
    <3> QED BY <2>3, <3>3, <3>5
  <2> QED BY <1>7, <2>1, <2>2, <2>3
<1>12. PICK most : most = base \o ids \o tl0
  OBVIOUS
<1>13. /\ most \in Seq(Nat) /\ Len(most) = 2 + Len(ids) + l
       /\ most[1] = base[1] /\ most[2] = base[2]
       /\ \A j \in 1..Len(ids) : most[2 + j] = ids[j]
  <2>1. base \in Seq(Nat) /\ ids \in Seq(Nat) /\ tl0 \in Seq(Nat)
    BY <1>8, <1>9, <1>11
  <2>2. /\ base \o ids \in Seq(Nat) /\ Len(base \o ids) = Len(base) + Len(ids)
        /\ \A j \in 1..Len(base) + Len(ids) :
             (base \o ids)[j] = IF j <= Len(base) THEN base[j] ELSE ids[j - Len(base)]
    BY <2>1, ConcatProperties, Zenon
  <2>3. PICK front : front = base \o ids
    OBVIOUS
  <2>4. front \in Seq(Nat)
    BY <2>2, <2>3
  <2>5. /\ front \o tl0 \in Seq(Nat) /\ Len(front \o tl0) = Len(front) + Len(tl0)
        /\ \A j \in 1..Len(front) : (front \o tl0)[j] = front[j]
    BY <2>1, <2>4, Halves, Zenon
  <2>6. most = front \o tl0
    BY <1>12, <2>3
  <2>7. Len(front) = 2 + Len(ids) /\ front[1] = base[1] /\ front[2] = base[2]
    BY <1>8, <1>11, <2>2, <2>3
  <2>8. ASSUME NEW j \in 1..Len(ids) PROVE front[2 + j] = ids[j]
    <3>1. 2 + j \in 1..Len(base) + Len(ids) /\ ~(2 + j <= Len(base))
          /\ (2 + j) - Len(base) = j
      BY <1>8, <1>11
    <3> QED BY <2>2, <2>3, <3>1
  <2>9. most[1] = front[1] /\ most[2] = front[2]
    BY <1>11, <2>5, <2>6, <2>7
  <2>10. ASSUME NEW j \in 1..Len(ids) PROVE most[2 + j] = ids[j]
    <3>1. 2 + j \in 1..Len(front)
      BY <1>11, <2>7
    <3> QED BY <2>5, <2>6, <2>8, <3>1
  <2> QED BY <1>9, <2>5, <2>6, <2>7, <2>9, <2>10
<1>14. PICK d : d = most \o tid
  OBVIOUS
<1>15. OtherDescriptor(s, i, l, t, k, id) = d
  BY <1>1, <1>2, <1>3, <1>4, <1>12, <1>14 DEF OtherDescriptor
<1>16. /\ d \in Seq(Nat) /\ Len(d) = 2 + Len(ids) + l + one
       /\ d[1] = 16 * s + 128 /\ d[2] = bits
       /\ \A j \in 1..Len(ids) : d[2 + j] = ids[j]
  <2>1. most \in Seq(Nat) /\ tid \in Seq(Nat)
    BY <1>10, <1>13
  <2>2. /\ most \o tid \in Seq(Nat) /\ Len(most \o tid) = Len(most) + Len(tid)
        /\ \A j \in 1..Len(most) : (most \o tid)[j] = most[j]
    BY <2>1, Halves, Zenon
  <2>3. \A j \in 1..Len(most) : d[j] = most[j]
    BY <1>14, <2>2
  <2>4. 1 \in 1..Len(most) /\ 2 \in 1..Len(most)
        /\ \A j \in 1..Len(ids) : 2 + j \in 1..Len(most)
    BY <1>11, <1>13
  <2> QED BY <1>8, <1>10, <1>13, <1>14, <2>2, <2>3, <2>4
<1>17. PICK p : p = d \o data
  OBVIOUS
<1>18. /\ p \in Seq(Nat) /\ Len(p) = Len(d) + Len(data)
       /\ \A j \in 1..Len(d) : p[j] = d[j]
       /\ SubSeq(p, Len(d) + 1, Len(p)) = data
  <2>0. d \in Seq(Nat)
    BY <1>16
  <2>1. /\ d \o data \in Seq(Nat) /\ Len(d \o data) = Len(d) + Len(data)
        /\ \A j \in 1..Len(d) : (d \o data)[j] = d[j]
        /\ SubSeq(d \o data, Len(d) + 1, Len(d) + Len(data)) = data
    BY <2>0, Halves, Zenon
  <2> QED BY <1>17, <2>1
<1>19. /\ p[1] = 16 * s + 128 /\ p[2] = bits
       /\ \A j \in 1..Len(ids) : p[2 + j] = ids[j]
  <2>1. 1 \in 1..Len(d) /\ 2 \in 1..Len(d)
        /\ \A j \in 1..Len(ids) : 2 + j \in 1..Len(d)
    BY <1>10, <1>11, <1>16
  <2> QED BY <1>16, <1>18, <2>1
<1>20. /\ Bit(bits, 128) = i /\ Bit(bits, 64) = l
       /\ Bit(bits, 32) = t /\ Bit(bits, 16) = k
  BY <1>5 DEF Bit
<1>21. Bit(p[1], 128) = 1 /\ Bit(p[1], 16) = s
  BY <1>19 DEF Bit
<1>22. XByte(p) = bits /\ IdAt(p) = 3
  BY <1>19, <1>21 DEF XByte, IdAt
<1>23. IdLength(p) = Len(ids)
  <2>1. CASE i = 0
    BY <1>11, <1>20, <1>22, <2>1 DEF IdLength
  <2>2. CASE i = 1
    <3>1. 1 \in 1..Len(ids)
      BY <1>11, <2>2
    <3>2. p[3] = ids[1]
      BY <1>19, <3>1
    <3>3. IdLength(p) = IF p[3] >= 128 THEN 2 ELSE 1
      BY <1>20, <1>22, <2>2 DEF IdLength
    <3> QED BY <1>7, <1>11, <2>2, <3>2, <3>3
  <2> QED BY <2>1, <2>2
<1>24. PayloadAt(p) = Len(d) + 1
  <2>1. PayloadAt(p) = 3 + Len(ids) + l + one
    BY <1>6, <1>20, <1>22, <1>23 DEF PayloadAt
  <2> QED BY <1>10, <1>11, <1>16, <2>1
<1>25. PictureID(p) = IF i = 1 THEN id ELSE 0
  <2>1. CASE i = 0
    BY <1>11, <1>23, <2>1 DEF PictureID
  <2>2. CASE i = 1 /\ id < 128
    <3>1. 1 \in 1..Len(ids) /\ Len(ids) = 1
      BY <1>11, <2>2
    <3>2. p[3] = ids[1]
      BY <1>19, <3>1
    <3> QED BY <1>11, <1>22, <1>23, <2>2, <3>1, <3>2 DEF PictureID
  <2>3. CASE i = 1 /\ id >= 128
    <3>4. Len(ids) = 2
      BY <1>11, <2>3
    <3>1. 1 \in 1..Len(ids) /\ 2 \in 1..Len(ids) /\ Len(ids) = 2
      BY <3>4
    <3>2. p[3] = ids[1] /\ p[3 + 1] = ids[2]
      BY <1>19, <3>1
    <3>3. PictureID(p) = 256 * (p[3] - 128) + p[3 + 1]
      BY <1>22, <1>23, <3>1 DEF PictureID
    <3> QED BY <1>11, <2>3, <3>2, <3>3
  <2> QED BY <1>7, <2>1, <2>2, <2>3
<1>26. VP8Unmarshal(p) = [ok |-> TRUE, s |-> s,
                           id |-> IF i = 1 THEN id ELSE 0, data |-> data]
  <2>1. SubSeq(p, PayloadAt(p), Len(p)) = data
    BY <1>18, <1>24
  <2>2. Len(data) \in Nat
    BY LenProperties
  <2>3. /\ Len(p) = 2 + Len(ids) + l + one + Len(data)
        /\ PayloadAt(p) = 3 + Len(ids) + l + one
    BY <1>10, <1>11, <1>16, <1>18, <1>24, <2>2
  <2>4. Len(p) >= 2 /\ ~(Len(p) < PayloadAt(p) - 1)
    BY <1>10, <1>11, <2>2, <2>3
  <2>5. i = 1 => ~(Len(p) < 3)
    BY <1>10, <1>11, <2>2, <2>3
  <2>6. p # <<>>
    BY <2>4
  <2>7. ~IsShort(p)
    BY <1>20, <1>22, <2>4, <2>5, <2>6 DEF IsShort
  <2> QED BY <1>21, <1>25, <2>1, <2>7 DEF VP8Unmarshal
<1>27. Len(p) \in 2..6 + Len(data)
  <2>1. Len(data) \in Nat
    BY LenProperties
  <2>2. Len(p) = 2 + Len(ids) + l + one + Len(data)
    BY <1>10, <1>11, <1>16, <1>18, <2>1
  <2>3. PICK n : n = Len(ids)
    OBVIOUS
  <2>4. n \in 0..2
    BY <1>11, <2>3
  <2>5. PICK m \in Nat : m = Len(data)
    BY <2>1
  <2>6. 2 + n + l + one + m \in 2..6 + m
    BY <1>10, <2>4
  <2> QED BY <2>2, <2>3, <2>5, <2>6
<1>28. ReadsAs(p, s, IF i = 1 THEN id ELSE 0, data)
  BY <1>18, <1>26, <1>27 DEF ReadsAs
<1> QED BY <1>15, <1>17, <1>28, Zenon

-----------------------------------------------------------------------------
(* What VP8Payloader makes of a frame.                                      *)

\* One payload of it.
VP8Fragment(mtu, frame, k) ==
  LET size == mtu - using_header_size
      s == IF k = 1 THEN 1 ELSE 0
      data == SubSeq(frame, (k - 1) * size + 1,
                     IF k * size <= Len(frame) THEN k * size ELSE Len(frame))
  IN [call |-> vp8_calls + 1, mtu |-> mtu, s |-> s, data |-> data,
      id |-> IF enable_picture_id_ THEN picture_id_ ELSE 0,
      bytes |-> Descriptor(s) \o data]

\* A reader understands it, and the mtu has room for it.
LEMMA VP8FragmentIs ==
  ASSUME enable_picture_id_ \in BOOLEAN, picture_id_ \in FifteenBits,
         vp8_calls \in Nat, NEW mtu \in Nat, mtu > using_header_size,
         NEW frame \in Seq(Nat), NEW k \in Nat \ {0}
  PROVE  /\ VP8Fragment(mtu, frame, k) \in Packet
         /\ Readable(VP8Fragment(mtu, frame, k))
         /\ VP8Fragment(mtu, frame, k).call = vp8_calls + 1
         /\ VP8Fragment(mtu, frame, k).id =
              IF enable_picture_id_ THEN picture_id_ ELSE 0
         /\ k > 1 => VP8Fragment(mtu, frame, k).s = 0
<1>1. PICK header : header = using_header_size
  OBVIOUS
<1>2. header \in {1, 3, 4}
  BY <1>1 DEF using_header_size
<1>3. PICK size : size = mtu - header
  OBVIOUS
<1>4. size \in Nat \ {0} /\ header + size = mtu
  BY <1>1, <1>2, <1>3
<1>5. PICK before : before = (k - 1) * size
  OBVIOUS
<1>6. before \in Nat /\ k * size = before + size
  <2>1. k - 1 \in Nat /\ k = (k - 1) + 1
    OBVIOUS
  <2>2. \A x, y \in Nat : x * y \in Nat /\ (x + 1) * y = x * y + y
    OBVIOUS
  <2>3. (k - 1) * size \in Nat /\ ((k - 1) + 1) * size = (k - 1) * size + size
    BY <1>4, <2>1, <2>2
  <2> QED BY <1>5, <2>1, <2>3
<1>7. PICK end : end = IF k * size <= Len(frame) THEN k * size ELSE Len(frame)
  OBVIOUS
<1>8. end \in 0..Len(frame) /\ end <= before + size
  <2>1. Len(frame) \in Nat
    OBVIOUS
  <2> QED BY <1>4, <1>6, <1>7, <2>1
<1>9. PICK data : data = SubSeq(frame, before + 1, end)
  OBVIOUS
<1>10. data \in Seq(Nat) /\ Len(data) <= size
  <2>1. before + 1 \in Int /\ end \in Int /\ Len(frame) \in Nat
    BY <1>6, <1>8
  <2>2. \A i \in before + 1..end : i \in 1..Len(frame)
    BY <1>6, <1>8
  <2>3. \A i \in before + 1..end : frame[i] \in Nat
    BY <2>2, ElementOfSeq
  <2>4. /\ SubSeq(frame, before + 1, end) \in Seq(Nat)
        /\ Len(SubSeq(frame, before + 1, end)) =
             IF before + 1 <= end THEN end - (before + 1) + 1 ELSE 0
    BY <2>1, <2>3, SubSeqProperties
  <2> QED BY <1>4, <1>6, <1>8, <1>9, <2>4
<1>11. PICK s : s = IF k = 1 THEN 1 ELSE 0
  OBVIOUS
<1>12. s \in 0..1 /\ (k > 1 => s = 0)
  BY <1>11
<1>13. PICK bytes : bytes = Descriptor(s) \o data
  OBVIOUS
<1>14. PICK id : id = IF enable_picture_id_ THEN picture_id_ ELSE 0
  OBVIOUS
<1>15. id \in FifteenBits
  BY <1>14 DEF FifteenBits
<1>16. /\ bytes \in Seq(Nat) /\ Len(bytes) = header + Len(data)
       /\ VP8Unmarshal(bytes) = [ok |-> TRUE, s |-> s, id |-> id, data |-> data]
  BY <1>1, <1>10, <1>12, <1>13, <1>14, OwnReadsBack
<1>17. VP8Fragment(mtu, frame, k) =
         [call |-> vp8_calls + 1, mtu |-> mtu, s |-> s, data |-> data,
          id |-> id, bytes |-> bytes]
  BY <1>1, <1>3, <1>5, <1>7, <1>9, <1>11, <1>13, <1>14, Zenon DEF VP8Fragment
<1>18. PICK pkt : pkt = [call |-> vp8_calls + 1, mtu |-> mtu, s |-> s,
                         data |-> data, id |-> id, bytes |-> bytes]
  OBVIOUS
<1>19. pkt \in Packet
  BY <1>10, <1>12, <1>15, <1>16, <1>18 DEF Packet
<1>20. Readable(pkt)
  <2>1. bytes # <<>> /\ Len(bytes) <= mtu
    <3>1. Len(bytes) > 0 /\ Len(bytes) <= mtu
      BY <1>2, <1>4, <1>10, <1>16
    <3> QED BY <3>1
  <2> QED BY <1>16, <1>18, <2>1 DEF Readable
<1>21. /\ pkt.call = vp8_calls + 1 /\ pkt.id = id
       /\ k > 1 => pkt.s = 0
  BY <1>12, <1>18
<1>22. VP8Fragment(mtu, frame, k) = pkt
  BY <1>17, <1>18, Zenon
<1> QED BY <1>14, <1>19, <1>20, <1>21, <1>22, Zenon

\* The payloads of a frame are readable, of one call, with one id, and the
\* start bit is the first one's.
LEMMA VP8FragmentsAre ==
  ASSUME enable_picture_id_ \in BOOLEAN, picture_id_ \in FifteenBits,
         vp8_calls \in Nat, NEW mtu \in Nat, mtu > using_header_size,
         NEW frame \in Seq(Nat)
  PROVE  /\ VP8Fragments(mtu, frame) \in Seq(Packet)
         /\ \A k \in 1..Len(VP8Fragments(mtu, frame)) :
              LET pkt == VP8Fragments(mtu, frame)[k]
              IN /\ Readable(pkt) /\ pkt.call = vp8_calls + 1
                 /\ pkt.id = IF enable_picture_id_ THEN picture_id_ ELSE 0
                 /\ k > 1 => pkt.s = 0
<1>1. PICK size : size = mtu - using_header_size
  OBVIOUS
<1>2. size \in Nat \ {0}
  BY <1>1 DEF using_header_size
<1>3. PICK count : count = (Len(frame) + size - 1) \div size
  OBVIOUS
<1>4. count \in Nat
  <2>1. \A x \in Nat, y \in Nat \ {0} : x \div y \in Nat
    OBVIOUS
  <2>2. Len(frame) + size - 1 \in Nat
    BY <1>2
  <2> QED BY <1>2, <1>3, <2>1, <2>2
<1>5. PICK F : F = [k \in 1..count |-> VP8Fragment(mtu, frame, k)]
  OBVIOUS
<1>6. VP8Fragments(mtu, frame) = F
  BY <1>1, <1>3, <1>5 DEF VP8Fragments, VP8Fragment
<1>7. ASSUME NEW k \in 1..count
      PROVE  /\ F[k] \in Packet /\ Readable(F[k]) /\ F[k].call = vp8_calls + 1
             /\ F[k].id = IF enable_picture_id_ THEN picture_id_ ELSE 0
             /\ k > 1 => F[k].s = 0
  <2>1. k \in Nat \ {0}
    BY <1>4
  <2>2. F[k] = VP8Fragment(mtu, frame, k)
    BY <1>5
  <2>3. /\ VP8Fragment(mtu, frame, k) \in Packet
        /\ Readable(VP8Fragment(mtu, frame, k))
        /\ VP8Fragment(mtu, frame, k).call = vp8_calls + 1
        /\ VP8Fragment(mtu, frame, k).id =
             IF enable_picture_id_ THEN picture_id_ ELSE 0
        /\ k > 1 => VP8Fragment(mtu, frame, k).s = 0
    BY <2>1, VP8FragmentIs
  <2> QED BY <2>2, <2>3
<1>8. F \in [1..count -> Packet]
  BY <1>5, <1>7
<1>9. F \in Seq(Packet) /\ Len(F) = count
  BY <1>4, <1>8
<1> QED BY <1>6, <1>7, <1>9, Zenon

-----------------------------------------------------------------------------
(* Ids in a circle.                                                         *)

\* Numbers below 2^15 are picture ids.
LEMMA FifteenBitsAre ==
  /\ \A x \in Nat : x < 32768 => x \in FifteenBits
  /\ \A x \in FifteenBits : x \in Nat /\ x < 32768
<1>1. ASSUME NEW x \in Nat, x < 32768 PROVE x \in FifteenBits
  BY <1>1 DEF FifteenBits
<1>2. ASSUME NEW x \in FifteenBits PROVE x \in Nat /\ x < 32768
  BY DEF FifteenBits
<1> QED BY <1>1, <1>2

\* The id after an id.
NextId(id) == (id + 1) % 32768

\* It is one, again.
LEMMA NextIdIs ==
  ASSUME NEW id \in FifteenBits
  PROVE  NextId(id) \in FifteenBits
<1>1. id \in Nat
  BY DEF FifteenBits
<1>2. \A x \in Nat : x % 32768 \in Nat /\ x % 32768 < 32768
  OBVIOUS
<1>3. PICK next : next = (id + 1) % 32768
  OBVIOUS
<1>4. next \in Nat /\ next < 32768
  BY <1>1, <1>2, <1>3
<1>5. NextId(id) = next
  BY <1>3 DEF NextId
<1> QED BY <1>4, <1>5 DEF FifteenBits

\* The next id but one is one further on.
LEMMA FollowsOneMore ==
  ASSUME NEW a \in FifteenBits, NEW b \in FifteenBits, NEW span \in Nat,
         Follows(a, b, span)
  PROVE  Follows(a, NextId(b), span + 1)
<1>1. PICK d \in 1..span : b = (a + d) % 32768
  BY DEF Follows
<1>2. a \in Nat /\ d \in Nat /\ d + 1 \in 1..span + 1
  BY DEF FifteenBits
<1>3. (b + 1) % 32768 = (a + (d + 1)) % 32768
  BY <1>1, <1>2
<1>4. \E e \in 1..span + 1 : (b + 1) % 32768 = (a + e) % 32768
  <2>1. PICK e : e = d + 1
    OBVIOUS
  <2>2. e \in 1..span + 1 /\ (b + 1) % 32768 = (a + e) % 32768
    BY <1>2, <1>3, <2>1
  <2> QED BY <2>2
<1> QED BY <1>4 DEF Follows, NextId

\* An id that came within some steps came within more of them.
LEMMA FollowsWithin ==
  ASSUME NEW a, NEW b, NEW span \in Nat, NEW more \in Nat, span <= more,
         Follows(a, b, span)
  PROVE  Follows(a, b, more)
<1>1. PICK d \in 1..span : b = (a + d) % 32768
  BY DEF Follows
<1>2. d \in 1..more
  OBVIOUS
<1> QED BY <1>1, <1>2 DEF Follows

\* Less than a turn of the circle away is another id.
LEMMA FollowsIsOther ==
  ASSUME NEW a \in FifteenBits, NEW b \in FifteenBits,
         NEW span \in FifteenBits, Follows(a, b, span)
  PROVE  a # b
<1>1. PICK d \in 1..span : b = (a + d) % 32768
  BY DEF Follows
<1>2. a \in Nat /\ a < 32768 /\ d \in Nat /\ d # 0 /\ d < 32768
  <2>1. a \in Nat /\ a < 32768 /\ span \in Nat /\ span < 32768
    BY DEF FifteenBits
  <2> QED BY <2>1
<1>3. (a + d) % 32768 # a
  <2>1. PICK sum : sum = a + d
    OBVIOUS
  <2>2. sum \in Nat /\ sum # a
    BY <1>2, <2>1
  <2>3. CASE sum < 32768
    <3>1. sum % 32768 = sum
      BY <2>2, <2>3
    <3> QED BY <2>1, <2>2, <3>1
  <2>4. CASE sum >= 32768
    <3>1. sum - 32768 \in Nat /\ sum - 32768 < 32768 /\ sum - 32768 # a
      BY <1>2, <2>1, <2>4
    <3>2. sum % 32768 = sum - 32768
      BY <2>2, <3>1
    <3> QED BY <2>1, <3>1, <3>2
  <2> QED BY <2>2, <2>3, <2>4
<1> QED BY <1>1, <1>3

-----------------------------------------------------------------------------
(* The invariant is inductive.                                              *)

\* The payloads held are packets, and their number is one.
LEMMA SentIs ==
  ASSUME VP8Type
  PROVE  /\ Len(vp8_sent) \in Nat /\ DOMAIN vp8_sent = 1..Len(vp8_sent)
         /\ \A n \in 1..Len(vp8_sent) : vp8_sent[n] \in Packet
<1>1. vp8_sent \in Seq(Packet)
  BY DEF VP8Type
<1>2. Len(vp8_sent) \in Nat /\ DOMAIN vp8_sent = 1..Len(vp8_sent)
  BY <1>1
<1> QED BY <1>1, <1>2, ElementOfSeq

\* Before anything is sent the settings may be any.
LEMMA SettingsKeep ==
  ASSUME VP8Type', vp8_sent' = <<>>
  PROVE  VP8Inv'
<1>1. \A n : n \notin 1..Len(vp8_sent')
  BY EmptySeq
<1> QED BY <1>1 DEF VP8Inv, AllReadable, CallsInOrder, IdsAdvance

\* What an application passes.
LEMMA InputsAre ==
  /\ \A mtu \in VP8Mtus : mtu \in Nat
  /\ \A frame \in VP8Frames : frame \in Seq(Nat)
  /\ MaxVP8Calls \in Nat \ {0}
  /\ \A id \in PictureIds : id \in Nat
BY VP8Assumption, Zenon

\* A call that sends.
LEMMA PayloadSent ==
  ASSUME VP8Inv, NEW mtu \in VP8Mtus, NEW frame \in VP8Frames,
         vp8_calls < MaxVP8Calls, mtu > using_header_size,
         vp8_calls' = vp8_calls + 1,
         vp8_sent' = vp8_sent \o VP8Fragments(mtu, frame),
         picture_id_' = NextId(picture_id_),
         UNCHANGED enable_picture_id_
  PROVE  VP8Inv'
<1>1. /\ enable_picture_id_ \in BOOLEAN /\ picture_id_ \in FifteenBits
      /\ vp8_calls \in Nat /\ vp8_calls <= MaxVP8Calls /\ MaxVP8Calls \in Nat
      /\ mtu \in Nat /\ frame \in Seq(Nat) /\ vp8_sent \in Seq(Packet)
  <2>1. /\ enable_picture_id_ \in BOOLEAN /\ picture_id_ \in FifteenBits
        /\ vp8_calls \in 0..MaxVP8Calls /\ vp8_sent \in Seq(Packet)
    BY Zenon DEF VP8Inv, VP8Type
  <2>2. MaxVP8Calls \in Nat /\ mtu \in Nat /\ frame \in Seq(Nat)
    BY InputsAre
  <2>3. vp8_calls \in Nat /\ vp8_calls <= MaxVP8Calls
    BY <2>1, <2>2
  <2> QED BY <2>1, <2>2, <2>3, Zenon
<1>2. PICK id : id = IF enable_picture_id_ THEN picture_id_ ELSE 0
  OBVIOUS
<1>3. PICK new : new = VP8Fragments(mtu, frame)
  OBVIOUS
<1>4. /\ new \in Seq(Packet)
      /\ \A k \in 1..Len(new) :
           /\ Readable(new[k]) /\ new[k].call = vp8_calls + 1 /\ new[k].id = id
           /\ k > 1 => new[k].s = 0
  BY <1>1, <1>2, <1>3, VP8FragmentsAre
<1>5. PICK L : L = Len(vp8_sent)
  OBVIOUS
<1>6. PICK N : N = Len(new)
  OBVIOUS
<1>7. /\ L \in Nat /\ N \in Nat
      /\ vp8_sent' \in Seq(Packet) /\ Len(vp8_sent') = L + N
      /\ \A i \in 1..L + N :
           vp8_sent'[i] = IF i <= L THEN vp8_sent[i] ELSE new[i - L]
  <2>1. /\ vp8_sent \o new \in Seq(Packet)
        /\ Len(vp8_sent \o new) = Len(vp8_sent) + Len(new)
        /\ \A i \in 1..Len(vp8_sent) + Len(new) :
             (vp8_sent \o new)[i] =
               IF i <= Len(vp8_sent) THEN vp8_sent[i] ELSE new[i - Len(vp8_sent)]
    BY <1>1, <1>4, ConcatProperties
  <2>2. Len(vp8_sent) \in Nat /\ Len(new) \in Nat
    BY <1>1, <1>4, LenProperties
  <2> QED BY <1>3, <1>5, <1>6, <2>1, <2>2
<1>8. \A n \in 1..L : vp8_sent[n] \in Packet
  BY <1>5, SentIs DEF VP8Inv
<1>9. ASSUME NEW n \in 1..L + N
      PROVE  \/ n \in 1..L /\ vp8_sent'[n] = vp8_sent[n]
             \/ /\ n \notin 1..L /\ n - L \in 1..N
                /\ vp8_sent'[n] = new[n - L]
  <2>1. n \in Nat /\ n >= 1 /\ n <= L + N
    BY <1>7
  <2>2. vp8_sent'[n] = IF n <= L THEN vp8_sent[n] ELSE new[n - L]
    BY <1>7
  <2>3. CASE n <= L
    <3>1. n \in 1..L
      BY <1>7, <2>1, <2>3
    <3> QED BY <2>2, <2>3, <3>1
  <2>4. CASE ~(n <= L)
    <3>1. n \notin 1..L /\ n - L \in 1..N
      BY <1>7, <2>1, <2>4
    <3> QED BY <2>2, <2>4, <3>1
  <2> QED BY <2>3, <2>4
<1>10. VP8Type'
  <2>1. picture_id_' \in FifteenBits
    BY <1>1, NextIdIs, Zenon
  <2>2. vp8_calls' \in 0..MaxVP8Calls
    BY <1>1
  <2>3. enable_picture_id_' \in BOOLEAN
    BY <1>1, Zenon
  <2> QED BY <1>7, <2>1, <2>2, <2>3, Zenon DEF VP8Type
<1>11. AllReadable'
  <2> SUFFICES ASSUME NEW n \in 1..L + N PROVE Readable(vp8_sent'[n])
    BY <1>7 DEF AllReadable
  <2>1. CASE n \in 1..L /\ vp8_sent'[n] = vp8_sent[n]
    BY <1>5, <2>1 DEF VP8Inv, AllReadable
  <2>2. CASE n - L \in 1..N /\ vp8_sent'[n] = new[n - L]
    <3>1. Readable(new[n - L])
      BY <1>4, <1>6, <2>2
    <3> QED BY <2>2, <3>1
  <2> QED BY <1>9, <2>1, <2>2
<1>12. \A n \in 1..L : vp8_sent[n].call \in 1..vp8_calls
  BY <1>5 DEF VP8Inv, CallsInOrder
<1>13. ASSUME NEW n \in 1..L + N, n \notin 1..L
       PROVE  vp8_sent'[n].call = vp8_calls + 1 /\ vp8_sent'[n].id = id
  <2>1. n - L \in 1..N /\ vp8_sent'[n] = new[n - L]
    BY <1>9, <1>13
  <2>2. new[n - L].call = vp8_calls + 1 /\ new[n - L].id = id
    BY <1>4, <1>6, <2>1
  <2> QED BY <2>1, <2>2
<1>14. CallsInOrder'
  <2>1. ASSUME NEW n \in 1..L + N PROVE vp8_sent'[n].call \in 1..vp8_calls + 1
    <3>1. CASE n \in 1..L
      <4>1. vp8_sent'[n] = vp8_sent[n]
        BY <1>9, <3>1
      <4> QED BY <1>1, <1>12, <3>1, <4>1
    <3>2. CASE n \notin 1..L
      <4>1. vp8_sent'[n].call = vp8_calls + 1
        BY <1>13, <3>2
      <4>2. vp8_calls + 1 \in 1..vp8_calls + 1
        BY <1>1
      <4> QED BY <4>1, <4>2
    <3> QED BY <3>1, <3>2
  <2>2. ASSUME NEW n \in 1..L + N, NEW m \in 1..L + N, n < m
        PROVE  InOrder(vp8_sent'[n], vp8_sent'[m])
    <3>1. CASE m \in 1..L
      <4>1. n \in 1..L /\ vp8_sent'[n] = vp8_sent[n] /\ vp8_sent'[m] = vp8_sent[m]
        BY <1>7, <1>9, <2>2, <3>1
      <4>2. InOrder(vp8_sent[n], vp8_sent[m])
        BY <1>5, <2>2, <3>1, <4>1 DEF VP8Inv, CallsInOrder
      <4> QED BY <4>1, <4>2
    <3>2. CASE n \in 1..L /\ m \notin 1..L
      <4>1. vp8_sent'[n] = vp8_sent[n] /\ vp8_sent[n].call \in 1..vp8_calls
        BY <1>9, <1>12, <3>2
      <4>2. vp8_sent'[m].call = vp8_calls + 1
        BY <1>13, <3>2
      <4>3. PICK x, y : x = vp8_sent'[n].call /\ y = vp8_sent'[m].call
        OBVIOUS
      <4>4. x <= y /\ x # y
        BY <1>1, <4>1, <4>2, <4>3
      <4> QED BY <4>3, <4>4 DEF InOrder
    <3>3. CASE n \notin 1..L
      <4>1. m \notin 1..L /\ m - L \in 1..N /\ m - L > 1
        BY <1>7, <2>2, <3>3
      <4>2. vp8_sent'[m] = new[m - L] /\ new[m - L].s = 0
        BY <1>4, <1>6, <1>9, <4>1
      <4>3. /\ vp8_sent'[n].call = vp8_calls + 1 /\ vp8_sent'[n].id = id
            /\ vp8_sent'[m].call = vp8_calls + 1 /\ vp8_sent'[m].id = id
        BY <1>13, <3>3, <4>1
      <4> QED BY <1>1, <4>2, <4>3 DEF InOrder
    <3> QED BY <3>1, <3>2, <3>3
  <2> QED BY <1>7, <2>1, <2>2 DEF CallsInOrder
<1>15. ASSUME enable_picture_id_ PROVE id = picture_id_
  BY <1>2, <1>15
<1>16. IdsAdvance'
  <2> SUFFICES ASSUME enable_picture_id_ PROVE IdsAdvance'
    BY DEF IdsAdvance
  <2>1. id = picture_id_ /\ id \in FifteenBits
    BY <1>1, <1>15
  <2>2. ASSUME NEW n \in 1..L
        PROVE  /\ vp8_sent[n].id \in FifteenBits /\ vp8_sent[n].call \in 1..vp8_calls
               /\ Follows(vp8_sent[n].id, id, (vp8_calls - vp8_sent[n].call) + 1)
    <3>1. vp8_sent[n].id \in FifteenBits
      BY <1>8 DEF Packet
    <3>2. Follows(vp8_sent[n].id, picture_id_, (vp8_calls - vp8_sent[n].call) + 1)
      BY <1>5 DEF VP8Inv, IdsAdvance
    <3> QED BY <1>12, <2>1, <3>1, <3>2
  <2>3. ASSUME NEW n \in 1..L + N, NEW m \in 1..L + N,
               vp8_sent'[n].call < vp8_sent'[m].call
        PROVE  Follows(vp8_sent'[n].id, vp8_sent'[m].id,
                       vp8_sent'[m].call - vp8_sent'[n].call)
    <3>1. n \in 1..L
      <4> SUFFICES ASSUME n \notin 1..L PROVE FALSE
        OBVIOUS
      <4>1. vp8_sent'[n].call = vp8_calls + 1
        BY <1>13
      <4>2. CASE m \in 1..L
        <5>1. vp8_sent'[m] = vp8_sent[m] /\ vp8_sent[m].call \in 1..vp8_calls
          BY <1>9, <1>12, <4>2
        <5> QED BY <1>1, <2>3, <4>1, <5>1
      <4>3. CASE m \notin 1..L
        <5>1. vp8_sent'[m].call = vp8_calls + 1
          BY <1>13, <4>3
        <5> QED BY <1>1, <2>3, <4>1, <5>1
      <4> QED BY <4>2, <4>3
    <3>2. vp8_sent'[n] = vp8_sent[n]
      BY <1>9, <3>1
    <3>3. CASE m \in 1..L
      <4>1. vp8_sent'[m] = vp8_sent[m]
        BY <1>9, <3>3
      <4>2. vp8_sent[n].call < vp8_sent[m].call
        BY <2>3, <3>2, <4>1
      <4>3. Follows(vp8_sent[n].id, vp8_sent[m].id,
                    vp8_sent[m].call - vp8_sent[n].call)
        BY <1>5, <3>1, <3>3, <4>2 DEF VP8Inv, IdsAdvance
      <4> QED BY <3>2, <4>1, <4>3
    <3>4. CASE m \notin 1..L
      <4>1. vp8_sent'[m].call = vp8_calls + 1 /\ vp8_sent'[m].id = id
        BY <1>13, <3>4
      <4>2. vp8_sent[n].call \in 1..vp8_calls
        BY <1>12, <3>1
      <4>3. (vp8_calls - vp8_sent[n].call) + 1 = (vp8_calls + 1) - vp8_sent[n].call
        <5>1. PICK call : call = vp8_sent[n].call
          OBVIOUS
        <5>2. call \in Nat
          BY <1>1, <4>2, <5>1
        <5>3. (vp8_calls - call) + 1 = (vp8_calls + 1) - call
          BY <1>1, <5>2
        <5> QED BY <5>1, <5>3
      <4>4. Follows(vp8_sent[n].id, id, (vp8_calls - vp8_sent[n].call) + 1)
        BY <2>2, <3>1
      <4> QED BY <3>2, <4>1, <4>3, <4>4
    <3> QED BY <3>3, <3>4
  <2>4. ASSUME NEW n \in 1..L + N
        PROVE  Follows(vp8_sent'[n].id, picture_id_',
                       ((vp8_calls + 1) - vp8_sent'[n].call) + 1)
    <3>1. CASE n \in 1..L
      <4>1. vp8_sent'[n] = vp8_sent[n]
        BY <1>9, <3>1
      <4>2. PICK call, span : /\ call = vp8_sent[n].call
                              /\ span = (vp8_calls - vp8_sent[n].call) + 1
        OBVIOUS
      <4>3. span \in Nat /\ span + 1 = ((vp8_calls + 1) - call) + 1
        <5>1. call \in 1..vp8_calls
          BY <2>2, <3>1, <4>2
        <5>2. span = (vp8_calls - call) + 1
          BY <4>2
        <5> QED BY <1>1, <5>1, <5>2
      <4>4. Follows(vp8_sent[n].id, id, span) /\ vp8_sent[n].id \in FifteenBits
        BY <2>2, <3>1, <4>2
      <4>5. Follows(vp8_sent[n].id, NextId(id), span + 1)
        BY <2>1, <4>3, <4>4, FollowsOneMore
      <4> QED BY <2>1, <4>1, <4>2, <4>3, <4>5
    <3>2. CASE n \notin 1..L
      <4>1. vp8_sent'[n].call = vp8_calls + 1 /\ vp8_sent'[n].id = id
        BY <1>13, <3>2
      <4>2. ((vp8_calls + 1) - (vp8_calls + 1)) + 1 = 1
        BY <1>1
      <4>3. Follows(id, NextId(id), 1)
        BY DEF Follows, NextId
      <4> QED BY <2>1, <4>1, <4>2, <4>3
    <3> QED BY <3>1, <3>2
  <2> QED BY <1>7, <2>3, <2>4 DEF IdsAdvance
<1> QED BY <1>10, <1>11, <1>14, <1>16 DEF VP8Inv

\* A call that makes nothing.
LEMMA NothingSent ==
  ASSUME VP8Inv, vp8_calls < MaxVP8Calls, vp8_calls' = vp8_calls + 1,
         UNCHANGED <<vp8_sent, picture_id_, enable_picture_id_>>
  PROVE  VP8Inv'
<1>1. /\ enable_picture_id_ \in BOOLEAN /\ picture_id_ \in FifteenBits
      /\ vp8_calls \in 0..MaxVP8Calls /\ vp8_sent \in Seq(Packet)
  BY Zenon DEF VP8Inv, VP8Type
<1>2. /\ vp8_calls' \in 0..MaxVP8Calls /\ vp8_calls \in Nat
      /\ vp8_calls' \in Nat /\ vp8_calls' = vp8_calls + 1
  BY <1>1, InputsAre
<1>3. vp8_sent' = vp8_sent /\ picture_id_' = picture_id_
      /\ (enable_picture_id_' <=> enable_picture_id_)
  OBVIOUS
<1>4. VP8Type'
  BY <1>1, <1>2, <1>3, Zenon DEF VP8Type
<1>5. AllReadable'
  BY <1>3 DEF VP8Inv, AllReadable
<1>6. \A n \in 1..Len(vp8_sent) : vp8_sent[n].call \in 1..vp8_calls
  BY DEF VP8Inv, CallsInOrder
<1>7. CallsInOrder'
  <2>1. \A n \in 1..Len(vp8_sent) : vp8_sent[n].call \in 1..vp8_calls'
    BY <1>2, <1>6
  <2> QED BY <1>3, <2>1 DEF VP8Inv, CallsInOrder
<1>8. IdsAdvance'
  <2> SUFFICES ASSUME enable_picture_id_ PROVE IdsAdvance'
    BY <1>3 DEF IdsAdvance
  <2>1. ASSUME NEW n \in 1..Len(vp8_sent)
        PROVE  Follows(vp8_sent[n].id, picture_id_, (vp8_calls' - vp8_sent[n].call) + 1)
    <3>1. PICK call : call = vp8_sent[n].call
      OBVIOUS
    <3>2. call \in 1..vp8_calls
      BY <1>6, <3>1
    <3>3. PICK span, more : span = (vp8_calls - call) + 1 /\ more = (vp8_calls' - call) + 1
      OBVIOUS
    <3>4. span \in Nat /\ more \in Nat /\ span <= more
      BY <1>2, <3>2, <3>3
    <3>5. Follows(vp8_sent[n].id, picture_id_, span)
      BY <3>1, <3>3 DEF VP8Inv, IdsAdvance
    <3>6. Follows(vp8_sent[n].id, picture_id_, more)
      BY <3>4, <3>5, FollowsWithin
    <3> QED BY <3>1, <3>3, <3>6
  <2>2. \A n, m \in 1..Len(vp8_sent) :
          vp8_sent[n].call < vp8_sent[m].call =>
            Follows(vp8_sent[n].id, vp8_sent[m].id,
                    vp8_sent[m].call - vp8_sent[n].call)
    BY DEF VP8Inv, IdsAdvance
  <2> QED BY <1>3, <2>1, <2>2 DEF IdsAdvance
<1> QED BY <1>4, <1>5, <1>7, <1>8 DEF VP8Inv

\* Another sender sends the one packet there is.
LEMMA OtherSent ==
  ASSUME VP8Inv, NEW s \in 0..1, NEW i \in 0..1, NEW l \in 0..1, NEW t \in 0..1,
         NEW k \in 0..1, NEW id \in PictureIds, OtherSends(s, i, l, t, k, id)
  PROVE  VP8Inv'
<1>1. id \in FifteenBits
  <2>1. id < 32768
    BY DEF OtherSends
  <2>2. id \in Nat
    BY InputsAre
  <2> QED BY <2>1, <2>2, FifteenBitsAre
<1>2. PICK used : used = IF i = 1 THEN id ELSE 0
  OBVIOUS
<1>3. PICK data : data = <<5, 6>>
  OBVIOUS
<1>4. data \in Seq(Nat) /\ Len(data) = 2
  BY <1>3
<1>5. PICK bytes : bytes = OtherDescriptor(s, i, l, t, k, id) \o data
  OBVIOUS
<1>6. /\ bytes \in Seq(Nat) /\ Len(bytes) \in 2..6 + Len(data)
      /\ VP8Unmarshal(bytes) = [ok |-> TRUE, s |-> s, id |-> used, data |-> data]
  <2>1. data \in Seq(Nat)
    BY <1>4
  <2>2. ReadsAs(OtherDescriptor(s, i, l, t, k, id) \o data,
                s, IF i = 1 THEN id ELSE 0, data)
    BY <1>1, <2>1, OtherReadsBack
  <2>3. ReadsAs(bytes, s, used, data)
    BY <1>2, <1>5, <2>2, Zenon
  <2> QED BY <2>3 DEF ReadsAs
<1>7. PICK pkt : pkt = [call |-> 1, mtu |-> 9, s |-> s, data |-> data,
                        id |-> used, bytes |-> bytes]
  OBVIOUS
<1>8. vp8_sent' = <<pkt>> /\ vp8_calls' = MaxVP8Calls
      /\ UNCHANGED <<enable_picture_id_, picture_id_>>
  BY <1>2, <1>3, <1>5, <1>7 DEF OtherSends
<1>9. used \in FifteenBits
  BY <1>1, <1>2 DEF FifteenBits
<1>10. pkt \in Packet /\ pkt.call = 1
  BY <1>4, <1>6, <1>7, <1>9 DEF Packet
<1>11. Readable(pkt)
  <2>1. bytes # <<>> /\ Len(bytes) <= 9
    <3>1. Len(bytes) \in 2..8
      BY <1>4, <1>6
    <3>2. PICK len \in 2..8 : len = Len(bytes)
      BY <3>1
    <3>3. len # 0 /\ len <= 9
      OBVIOUS
    <3> QED BY <3>2, <3>3, EmptySeq
  <2> QED BY <1>6, <1>7, <2>1 DEF Readable
<1>12. PICK sent : sent = <<pkt>>
  OBVIOUS
<1>13. /\ sent \in Seq(Packet) /\ Len(sent) = 1
       /\ \A n \in 1..Len(sent) : n = 1 /\ sent[n] = pkt
  BY <1>10, <1>12
<1>14. vp8_sent' = sent
  BY <1>8, <1>12
<1>15. VP8Type'
  <2>1. MaxVP8Calls \in 0..MaxVP8Calls
    BY InputsAre
  <2>2. enable_picture_id_ \in BOOLEAN /\ picture_id_ \in FifteenBits
    BY Zenon DEF VP8Inv, VP8Type
  <2>3. vp8_calls' \in 0..MaxVP8Calls /\ vp8_sent' \in Seq(Packet)
    BY <1>8, <1>13, <1>14, <2>1
  <2> QED BY <1>8, <2>2, <2>3, Zenon DEF VP8Type
<1>16. AllReadable'
  <2>1. \A n \in 1..Len(vp8_sent') : Readable(vp8_sent'[n])
    BY <1>11, <1>13, <1>14
  <2> QED BY <2>1 DEF AllReadable
<1>17. CallsInOrder'
  <2>1. ASSUME NEW n \in 1..Len(vp8_sent') PROVE vp8_sent'[n].call \in 1..vp8_calls'
    <3>1. vp8_sent'[n].call = 1
      BY <1>10, <1>13, <1>14
    <3>2. 1 \in 1..MaxVP8Calls
      BY InputsAre
    <3> QED BY <1>8, <3>1, <3>2
  <2>2. ASSUME NEW n \in 1..Len(vp8_sent'), NEW m \in 1..Len(vp8_sent')
        PROVE  ~(n < m)
    <3>1. n = 1 /\ m = 1
      BY <1>13, <1>14
    <3> QED BY <3>1
  <2> QED BY <2>1, <2>2 DEF CallsInOrder
<1>18. IdsAdvance'
  <2>1. ~(vp8_calls' < MaxVP8Calls)
    BY <1>8, InputsAre
  <2>2. ASSUME NEW n \in 1..Len(vp8_sent'), NEW m \in 1..Len(vp8_sent')
        PROVE  ~(vp8_sent'[n].call < vp8_sent'[m].call)
    <3>1. vp8_sent'[n].call = 1 /\ vp8_sent'[m].call = 1
      BY <1>10, <1>13, <1>14
    <3> QED BY <3>1
  <2> QED BY <2>1, <2>2 DEF IdsAdvance
<1> QED BY <1>15, <1>16, <1>17, <1>18 DEF VP8Inv

\* No step disturbs it.
LEMMA VP8Step == VP8Inv /\ [VP8Next]_vp8_vars => VP8Inv'
<1> SUFFICES ASSUME VP8Inv, [VP8Next]_vp8_vars PROVE VP8Inv'
  OBVIOUS
<1>1. VP8Type
  BY DEF VP8Inv
<1>2. <<>> \in Seq(Packet)
  OBVIOUS
<1>3. ASSUME NEW enable \in BOOLEAN, EnablePictureID(enable) PROVE VP8Inv'
  <2>1. VP8Type' /\ vp8_sent' = <<>>
    BY <1>1, <1>2, <1>3, Zenon DEF EnablePictureID, VP8Type
  <2> QED BY <2>1, SettingsKeep
<1>4. ASSUME NEW id \in PictureIds, SetPictureID(id) PROVE VP8Inv'
  <2>1. id % 32768 \in FifteenBits
    <3>1. id \in Nat
      BY InputsAre
    <3>2. PICK short : short = id % 32768
      OBVIOUS
    <3>3. short \in Nat /\ short < 32768
      BY <3>1, <3>2
    <3> QED BY <3>2, <3>3, FifteenBitsAre
  <2>2. /\ vp8_sent = <<>> /\ picture_id_' = id % 32768
        /\ UNCHANGED <<enable_picture_id_, vp8_calls, vp8_sent>>
    BY <1>4 DEF SetPictureID
  <2>3. picture_id_' \in FifteenBits
    BY <2>1, <2>2
  <2>4. VP8Type' /\ vp8_sent' = <<>>
    <3>1. vp8_sent = <<>> /\ UNCHANGED <<enable_picture_id_, vp8_calls, vp8_sent>>
      BY <2>2
    <3> QED BY <1>1, <2>3, <3>1, Zenon DEF VP8Type
  <2> QED BY <2>4, SettingsKeep
<1>5. ASSUME NEW mtu \in VP8Mtus, NEW frame \in VP8Frames, VP8Payload(mtu, frame)
      PROVE  VP8Inv'
  <2>1. /\ vp8_calls < MaxVP8Calls /\ vp8_calls' = vp8_calls + 1
        /\ UNCHANGED enable_picture_id_
    BY <1>5 DEF VP8Payload
  <2>2. CASE frame # <<>> /\ mtu > using_header_size
    <3>1. /\ vp8_sent' = vp8_sent \o VP8Fragments(mtu, frame)
          /\ picture_id_' = NextId(picture_id_)
      BY <1>5, <2>2 DEF VP8Payload, NextId
    <3> QED BY <2>1, <2>2, <3>1, PayloadSent
  <2>3. CASE ~(frame # <<>> /\ mtu > using_header_size)
    <3>1. UNCHANGED <<vp8_sent, picture_id_>>
      BY <1>5, <2>3 DEF VP8Payload
    <3> QED BY <2>1, <3>1, NothingSent
  <2> QED BY <2>2, <2>3
<1>6. ASSUME NEW s \in 0..1, NEW i \in 0..1, NEW l \in 0..1, NEW t \in 0..1,
             NEW k \in 0..1, NEW id \in PictureIds, OtherSends(s, i, l, t, k, id)
      PROVE  VP8Inv'
  BY <1>6, OtherSent
<1>7. CASE UNCHANGED vp8_vars
  BY <1>7, Zenon DEF vp8_vars, VP8Inv, VP8Type, AllReadable, CallsInOrder, IdsAdvance
<1>8. CASE VP8Next
  BY <1>3, <1>4, <1>5, <1>6, <1>8, Zenon DEF VP8Next
<1> QED BY <1>7, <1>8

\* What VP8Payloader has made is readable, and of calls in their order.
THEOREM VP8Holds == MediaSpec => []VP8Inv
<1>1. MediaInit => VP8Inv
  <2> SUFFICES ASSUME MediaInit PROVE VP8Inv
    OBVIOUS
  <2>1. enable_picture_id_ = FALSE /\ picture_id_ = 0 /\ vp8_calls = 0 /\ vp8_sent = <<>>
    BY DEF MediaInit, VP8Init
  <2>2. 0 \in FifteenBits /\ 0 \in 0..MaxVP8Calls
    BY InputsAre DEF FifteenBits
  <2>3. <<>> \in Seq(Packet) /\ \A n : n \notin 1..Len(<<>>)
    BY EmptySeq
  <2>4. VP8Type
    BY <2>1, <2>2, <2>3, Zenon DEF VP8Type
  <2>5. \A n : n \notin 1..Len(vp8_sent)
    BY <2>1, <2>3
  <2> QED BY <2>4, <2>5 DEF VP8Inv, AllReadable, CallsInOrder, IdsAdvance
<1>2. [MediaNext]_<<vars, vp8_vars, codec>> => [VP8Next]_vp8_vars
  BY DEF MediaNext
<1> QED BY <1>1, <1>2, VP8Step, PTL DEF MediaSpec

\* What VP8Payloader makes, RTPPacket and VP8Packet understand, behind each of
\* the headers and at any mtu: they get out of it the bytes, the start bit and the picture
\* id that went in, and no two frames of one turn of the ids have the same one.
THEOREM VP8PacketsUnderstood == MediaSpec => []VP8IsUnderstood
<1>1. VP8Inv => VP8IsUnderstood
  <2> SUFFICES ASSUME VP8Inv PROVE VP8IsUnderstood
    OBVIOUS
  <2>1. /\ DOMAIN vp8_sent = 1..Len(vp8_sent)
        /\ \A n \in 1..Len(vp8_sent) : vp8_sent[n] \in Packet /\ Readable(vp8_sent[n])
    BY SentIs DEF VP8Inv, AllReadable
  <2>2. ReadBack
    <3> SUFFICES ASSUME NEW n \in DOMAIN vp8_sent, NEW h \in RtpHeaders
                 PROVE  LET pkt == vp8_sent[n]
                            rtp == RtpUnmarshal(RtpPacket(h, pkt.bytes))
                        IN /\ rtp.ok
                           /\ VP8Unmarshal(rtp.payload) =
                                [ok |-> TRUE, s |-> pkt.s, id |-> pkt.id,
                                 data |-> pkt.data]
                           /\ Len(pkt.bytes) <= pkt.mtu
      BY Zenon DEF ReadBack
    <3>1. PICK pkt : pkt = vp8_sent[n]
      OBVIOUS
    <3>2. pkt \in Packet /\ Readable(pkt)
      BY <2>1, <3>1
    <3>3. pkt.bytes \in Seq(Nat)
      BY <3>2 DEF Packet
    <3>4. /\ pkt.bytes # <<>> /\ Len(pkt.bytes) <= pkt.mtu
          /\ VP8Unmarshal(pkt.bytes) =
               [ok |-> TRUE, s |-> pkt.s, id |-> pkt.id, data |-> pkt.data]
      BY <3>2 DEF Readable
    <3>5. PICK rtp : rtp = RtpUnmarshal(RtpPacket(h, pkt.bytes))
      OBVIOUS
    <3>6. rtp = [ok |-> TRUE, payload |-> pkt.bytes]
      BY <3>3, <3>4, <3>5, RtpReadsBack
    <3>7. rtp.ok /\ rtp.payload = pkt.bytes
      BY <3>6
    <3> QED BY <3>1, <3>4, <3>5, <3>7, Zenon
  <2>3. FramesAreTold
    <3> SUFFICES ASSUME NEW n \in DOMAIN vp8_sent, NEW m \in DOMAIN vp8_sent, n < m
                 PROVE  LET a == VP8Unmarshal(vp8_sent[n].bytes)
                            b == VP8Unmarshal(vp8_sent[m].bytes)
                        IN IF vp8_sent[n].call = vp8_sent[m].call
                           THEN a.id = b.id /\ b.s = 0
                           ELSE enable_picture_id_
                                  /\ vp8_sent[m].call < vp8_sent[n].call + 32768
                                => a.id # b.id
      BY DEF FramesAreTold
    <3>1. PICK p, q : p = vp8_sent[n] /\ q = vp8_sent[m]
      OBVIOUS
    <3>2. p \in Packet /\ Readable(p) /\ q \in Packet /\ Readable(q)
      BY <2>1, <3>1
    <3>3. PICK a, b : a = VP8Unmarshal(p.bytes) /\ b = VP8Unmarshal(q.bytes)
      OBVIOUS
    <3>4. a.id = p.id /\ b.id = q.id /\ b.s = q.s
      BY <3>2, <3>3 DEF Readable
    <3>5. /\ p.call \in Nat /\ q.call \in Nat
          /\ p.id \in FifteenBits /\ q.id \in FifteenBits
      BY <3>2 DEF Packet
    <3>6. InOrder(p, q)
      BY <2>1, <3>1 DEF VP8Inv, CallsInOrder
    <3>7. p.call <= q.call /\ (p.call = q.call => p.id = q.id /\ q.s = 0)
      BY <3>6 DEF InOrder
    <3>8. ASSUME p.call # q.call, enable_picture_id_, q.call < p.call + 32768
          PROVE  p.id # q.id
      <4>1. PICK span : span = q.call - p.call
        OBVIOUS
      <4>2. p.call < q.call /\ span \in Nat /\ span < 32768
        <5>1. PICK x, y : x = p.call /\ y = q.call
          OBVIOUS
        <5>2. x \in Nat /\ y \in Nat
          BY <3>5, <5>1
        <5>3. x <= y /\ x # y /\ y < x + 32768
          BY <3>7, <3>8, <5>1
        <5>4. x < y /\ y - x \in Nat /\ y - x < 32768
          BY <5>2, <5>3
        <5> QED BY <4>1, <5>1, <5>4
      <4>3. Follows(p.id, q.id, span)
        <5>1. \A i, j \in 1..Len(vp8_sent) :
                vp8_sent[i].call < vp8_sent[j].call =>
                  Follows(vp8_sent[i].id, vp8_sent[j].id,
                          vp8_sent[j].call - vp8_sent[i].call)
          BY <3>8 DEF VP8Inv, IdsAdvance
        <5>2. p.call < q.call
          BY <4>2
        <5>3. Follows(p.id, q.id, q.call - p.call)
          BY <2>1, <3>1, <5>1, <5>2
        <5> QED BY <4>1, <5>3
      <4>4. span \in FifteenBits
        BY <4>2, FifteenBitsAre
      <4> QED BY <3>5, <4>3, <4>4, FollowsIsOther
    <3> QED BY <3>1, <3>3, <3>4, <3>7, <3>8
  <2>4. CutIsNoticed
    <3> SUFFICES ASSUME NEW i \in DOMAIN vp8_sent, NEW n \in 0..Len(vp8_sent[i].bytes)
                 PROVE  VP8Unmarshal(SubSeq(vp8_sent[i].bytes, 1, n))
                          = Truncated(vp8_sent[i], n)
      BY Zenon DEF CutIsNoticed
    <3>1. PICK pkt : pkt = vp8_sent[i]
      OBVIOUS
    <3>2. pkt \in Packet /\ Readable(pkt)
      BY <2>1, <3>1
    <3>3. pkt.bytes \in Seq(Nat) /\ pkt.data \in Seq(Nat) /\ n \in 0..Len(pkt.bytes)
      BY <3>1, <3>2 DEF Packet
    <3>4. VP8Unmarshal(pkt.bytes) =
            [ok |-> TRUE, s |-> pkt.s, id |-> pkt.id, data |-> pkt.data]
      BY <3>2 DEF Readable
    <3>5. VP8Unmarshal(SubSeq(pkt.bytes, 1, n)) =
            IF n < Len(pkt.bytes) - Len(pkt.data) THEN NotVP8
            ELSE [ok |-> TRUE, s |-> pkt.s, id |-> pkt.id,
                  data |-> SubSeq(pkt.data, 1, n - (Len(pkt.bytes) - Len(pkt.data)))]
      BY <3>3, <3>4, CutReads
    <3> QED BY <3>1, <3>5, Zenon DEF Truncated
  <2> QED BY <2>2, <2>3, <2>4 DEF VP8IsUnderstood
<1> QED BY <1>1, VP8Holds, PTL
=============================================================================
