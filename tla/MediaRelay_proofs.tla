-------------------------- MODULE MediaRelay_proofs --------------------------
(* Proofs about MediaRelay: types, the framing of streams, and the pictures *)
(* made of datagrams, for any number of viewers, packets and parts, any     *)
(* room and any limit.                                                      *)
EXTENDS MediaRelay, SequenceTheorems, TLAPS

-----------------------------------------------------------------------------
(* Sequences.                                                               *)

\* A sequence without one of its elements, as the network loses or hands over
\* a datagram, has the others.
LEMMA RemoveAtType ==
  ASSUME NEW S, NEW s \in Seq(S), NEW i \in DOMAIN s
  PROVE  RemoveAt(s, i) \in Seq(S)
<1>1. i \in 1..Len(s) /\ Len(s) \in Nat
  OBVIOUS
<1>2. SubSeq(s, 1, i - 1) \in Seq(S)
  BY <1>1, SubSeqProperties
<1>3. SubSeq(s, i + 1, Len(s)) \in Seq(S)
  BY <1>1, SubSeqProperties
<1> QED BY <1>2, <1>3 DEF RemoveAt

-----------------------------------------------------------------------------
(* The inductive invariant, by the question each part answers.              *)

\* Packets follow each other in one picture until its last, and a picture has
\* room for another as long as it is not at its last.
SourceInv ==
  \A k \in Numbers : ~source[k].tail =>
    /\ source[k].part < MaxParts
    /\ k + 1 \in Numbers => source[k + 1].frame = source[k].frame

\* A frame lies on the stream for each packet that Write took, behind the one
\* before; the page has taken the first of them and stands at the next.
FramedOf(v) ==
  /\ net[v] = <<>>
  /\ Len(ends[v]) = Len(written[v])
  /\ \A n \in 1..Len(ends[v]) :
       ends[v][n] = Start(v, n) + Serialized(written[v][n])
  /\ \A i, j \in 1..Len(ends[v]) : i < j => ends[v][i] < ends[v][j]
  /\ Len(got[v]) <= Len(ends[v])
  /\ taken[v] = Start(v, Len(got[v]) + 1)
  /\ \A i \in 1..Len(got[v]) : got[v][i] = written[v][i]

\* What the page has collected from datagrams are consecutive packets of a
\* picture that is not at its end, and the sequence number that it remembers
\* is that of the last of them: without this the test for a gap says nothing
\* about the packets it is to protect.
CollectedOf(v) ==
  /\ ends[v] = <<>> /\ parsing[v] = FALSE
  /\ Consecutive(picture[v])
  /\ picture[v] # <<>> => /\ last[v] = <<SequenceNumber(Last(picture[v]))>>
                          /\ ~IsTail(Last(picture[v]))
  /\ \A i \in DOMAIN decoded[v] : Consecutive(decoded[v][i])

Inductive ==
  /\ TypeOK /\ SourceInv
  /\ \A v \in Viewers : /\ transport = "stream" => FramedOf(v)
                        /\ transport = "datagram" => CollectedOf(v)

\* What TypeOK says of the two counts of bytes.
Bounds == \A v \in Viewers : taken[v] <= arrived[v] /\ arrived[v] <= Total(v)

\* The inductive invariant holds at the start.
LEMMA InitInductive == Init => Inductive
<1> SUFFICES ASSUME Init PROVE Inductive
  OBVIOUS
<1>1. transport \in {"stream", "datagram"} /\ source = <<>> /\ udp = <<>>
  BY DEF Init
<1>2. source \in Seq([frame : Nat, part : 0..MaxParts, tail : BOOLEAN,
                      empty : BOOLEAN]) /\ Len(source) = 0
      /\ udp \in Seq(Numbers) /\ Len(udp) = 0
  BY <1>1
<1>3. Len(source) <= MaxPackets /\ Len(udp) <= SocketRoom
  BY <1>2, ConstantsAssumption
<1>4. \A S : <<>> \in Seq(S)
  OBVIOUS
<1>5. /\ viewer \in [Viewers -> {"none", "there", "gone"}]
      /\ written \in [Viewers -> Seq(Numbers)] /\ ends \in [Viewers -> Seq(Nat)]
      /\ net \in [Viewers -> Seq(Numbers)]
      /\ got \in [Viewers -> Seq(Numbers)] /\ picture \in [Viewers -> Seq(Numbers)]
      /\ decoded \in [Viewers -> Seq(Seq(Numbers))]
  BY <1>4 DEF Init
<1>6. /\ arrived \in [Viewers -> Nat] /\ taken \in [Viewers -> Nat]
      /\ parsing \in [Viewers -> BOOLEAN]
      /\ last \in [Viewers -> {<<>>} \cup {<<s>> : s \in 0..SeqSpace - 1}]
  BY DEF Init
<1>7. Bounds
  BY DEF Init, Bounds, Total
<1>8. TypeOK
  BY <1>1, <1>2, <1>3, <1>5, <1>6, <1>7 DEF TypeOK, Bounds
<1>9. SourceInv
  BY <1>2 DEF SourceInv, Numbers
<1>10. ASSUME NEW v \in Viewers PROVE FramedOf(v) /\ CollectedOf(v)
  <2>1. /\ net[v] = <<>> /\ ends[v] = <<>> /\ written[v] = <<>> /\ got[v] = <<>>
        /\ taken[v] = 0 /\ parsing[v] = FALSE /\ picture[v] = <<>>
        /\ decoded[v] = <<>>
    BY DEF Init
  <2> QED BY <2>1 DEF FramedOf, CollectedOf, Start, Consecutive
<1> QED BY <1>8, <1>9, <1>10 DEF Inductive

-----------------------------------------------------------------------------
(* Packets of the source.                                                   *)

\* What refers to packets sent keeps its meaning when more are sent.
LEMMA SourceGrows ==
  ASSUME Inductive, NEW pkt, source' = Append(source, pkt)
  PROVE  /\ Len(source') = Len(source) + 1 /\ Len(source) \in Nat
         /\ Numbers \subseteq Numbers' /\ Seq(Numbers) \subseteq Seq(Numbers')
         /\ \A k \in Numbers : source'[k] = source[k]
         /\ source'[Len(source) + 1] = pkt
<1>1. /\ Len(source') = Len(source) + 1 /\ Len(source) \in Nat
      /\ \A k \in 1..Len(source) : source'[k] = source[k]
      /\ source'[Len(source) + 1] = pkt
  BY DEF Inductive, TypeOK
<1>2. Numbers \subseteq Numbers'
  BY <1>1 DEF Numbers
<1>3. Seq(Numbers) \subseteq Seq(Numbers')
  BY <1>2, SeqMonotonic
<1> QED BY <1>1, <1>2, <1>3 DEF Numbers

\* A packet joins the UDP socket: it is numbered in order, and belongs to the
\* picture the source is at.
LEMMA SendsStep ==
  ASSUME Inductive,
         NEW pkt \in [frame : Nat, part : 0..MaxParts, tail : BOOLEAN,
                      empty : BOOLEAN],
         Sends(pkt),
         ~pkt.tail => pkt.part < MaxParts,
         Sent > 0 /\ ~source[Sent].tail => pkt.frame = source[Sent].frame
  PROVE  Inductive'
<1>1. /\ source' = Append(source, pkt) /\ Sent < MaxPackets
      /\ udp' = udp \/ (udp' = Append(udp, Sent + 1) /\ Len(udp) < SocketRoom)
      /\ UNCHANGED <<transport, viewer, written, ends, net, arrived, taken,
                     parsing, got, last, picture, decoded>>
  BY DEF Sends, page_vars
<1>2. /\ Len(source') = Len(source) + 1 /\ Len(source) \in Nat
      /\ Numbers \subseteq Numbers' /\ Seq(Numbers) \subseteq Seq(Numbers')
      /\ \A k \in Numbers : source'[k] = source[k]
      /\ source'[Len(source) + 1] = pkt
  BY <1>1, SourceGrows
<1>3. source' \in Seq([frame : Nat, part : 0..MaxParts, tail : BOOLEAN,
                       empty : BOOLEAN]) /\ Len(source') <= MaxPackets
  BY <1>1, <1>2, ConstantsAssumption, AppendProperties
  DEF Inductive, TypeOK, Sent
<1>4. udp' \in Seq(Numbers') /\ Len(udp') <= SocketRoom
  <2>1. udp \in Seq(Numbers') /\ Len(udp) <= SocketRoom /\ Len(udp) \in Nat
    BY <1>2 DEF Inductive, TypeOK
  <2>2. Sent + 1 \in Numbers'
    BY <1>2 DEF Sent, Numbers
  <2>3. /\ Append(udp, Sent + 1) \in Seq(Numbers')
        /\ Len(Append(udp, Sent + 1)) = Len(udp) + 1
    BY <2>1, <2>2, AppendProperties
  <2> QED BY <1>1, <2>1, <2>3, ConstantsAssumption
<1>5. /\ written' \in [Viewers -> Seq(Numbers')]
      /\ net' \in [Viewers -> Seq(Numbers')] /\ got' \in [Viewers -> Seq(Numbers')]
      /\ picture' \in [Viewers -> Seq(Numbers')]
  BY <1>1, <1>2 DEF Inductive, TypeOK
<1>6. decoded' \in [Viewers -> Seq(Seq(Numbers'))]
  <2>1. Seq(Seq(Numbers)) \subseteq Seq(Seq(Numbers'))
    BY <1>2, SeqMonotonic
  <2> QED BY <1>1, <2>1 DEF Inductive, TypeOK
<1>7. TypeOK'
  BY <1>1, <1>3, <1>4, <1>5, <1>6 DEF Inductive, TypeOK, Total
<1>8. SourceInv'
  <2>1. SUFFICES ASSUME NEW k \in Numbers', ~source'[k].tail
                 PROVE  /\ source'[k].part < MaxParts
                        /\ k + 1 \in Numbers' =>
                             source'[k + 1].frame = source'[k].frame
    BY DEF SourceInv
  <2>2. CASE k = Len(source) + 1
    BY <1>2, <2>1, <2>2 DEF Numbers
  <2>3. CASE k = Len(source)
    <3>1. k \in Numbers /\ source'[k] = source[k]
      BY <1>2, <2>1, <2>3 DEF Numbers
    <3>2. source[k].part < MaxParts
      BY <2>1, <3>1 DEF Inductive, SourceInv
    <3>3. source'[k + 1].frame = source[k].frame
      BY <1>2, <2>1, <2>3, <3>1 DEF Sent, Numbers
    <3> QED BY <3>1, <3>2, <3>3
  <2>4. CASE k < Len(source)
    <3>1. k \in Numbers /\ k + 1 \in Numbers
          /\ source'[k] = source[k] /\ source'[k + 1] = source[k + 1]
      BY <1>2, <2>1, <2>4 DEF Numbers
    <3> QED BY <2>1, <3>1 DEF Inductive, SourceInv
  <2>5. k \in Nat /\ k <= Len(source) + 1
    BY <1>2 DEF Numbers
  <2> QED BY <1>2, <2>2, <2>3, <2>4, <2>5
<1>9. ASSUME NEW v \in Viewers, transport = "stream" PROVE FramedOf(v)'
  <2>1. FramedOf(v) /\ written[v] \in Seq(Numbers)
    BY <1>9 DEF Inductive, TypeOK
  <2>2. \A n \in 1..Len(written[v]) :
          Serialized(written[v][n])' = Serialized(written[v][n])
    <3>1. \A n \in 1..Len(written[v]) : written[v][n] \in Numbers
      BY <2>1
    <3> QED BY <1>1, <1>2, <3>1 DEF Serialized, Size, IsTail
  <2> QED BY <1>1, <2>1, <2>2 DEF FramedOf, Start
<1>10. ASSUME NEW v \in Viewers, transport = "datagram" PROVE CollectedOf(v)'
  <2>1. CollectedOf(v) /\ picture[v] \in Seq(Numbers)
        /\ decoded[v] \in Seq(Seq(Numbers))
    BY <1>10 DEF Inductive, TypeOK
  <2>2. ASSUME NEW p \in Seq(Numbers), Consecutive(p) PROVE Consecutive(p)'
    <3>1. \A i \in 1..Len(p) : p[i] \in Numbers
      OBVIOUS
    <3>2. Len(p) \in Nat
      OBVIOUS
    <3>3. \A i \in 1..Len(p) - 1 : i \in 1..Len(p) /\ i + 1 \in 1..Len(p)
      BY <3>2
    <3> QED BY <1>2, <2>2, <3>1, <3>3 DEF Consecutive
  <2>3. Consecutive(picture[v])'
    BY <1>1, <2>1, <2>2 DEF CollectedOf
  <2>4. \A i \in DOMAIN decoded'[v] : Consecutive(decoded[v][i])'
    BY <1>1, <2>1, <2>2 DEF CollectedOf
  <2>5. picture'[v] # <<>> =>
          /\ last'[v] = <<SequenceNumber(Last(picture'[v]))>>
          /\ ~source'[Last(picture'[v])].tail
    <3>1. SUFFICES ASSUME picture[v] # <<>>
                   PROVE  /\ last'[v] = <<SequenceNumber(Last(picture[v]))>>
                          /\ ~source'[Last(picture[v])].tail
      BY <1>1
    <3>2. Last(picture[v]) \in Numbers
      BY <2>1, <3>1 DEF Last
    <3> QED BY <1>1, <1>2, <2>1, <3>1, <3>2 DEF CollectedOf, IsTail
  <2> QED BY <1>1, <2>1, <2>3, <2>4, <2>5 DEF CollectedOf, IsTail, SequenceNumber
<1> QED BY <1>1, <1>7, <1>8, <1>9, <1>10 DEF Inductive

\* The source sends a packet of a picture, or padding.
LEMMA SourceStep ==
  ASSUME Inductive, SourcePads \/ \E tail \in BOOLEAN : SourceSends(tail)
  PROVE  Inductive'
<1>1. Sent \in Nat
      /\ (Sent > 0 => /\ source[Sent].frame \in Nat
                      /\ source[Sent].part \in 0..MaxParts
                      /\ source[Sent].tail \in BOOLEAN
                      /\ (~source[Sent].tail => source[Sent].part < MaxParts))
  <2>1. Sent \in Nat /\ (Sent > 0 => Sent \in Numbers)
    BY DEF Inductive, TypeOK, Sent, Numbers
  <2>2. ASSUME Sent > 0
        PROVE  source[Sent] \in [frame : Nat, part : 0..MaxParts,
                                 tail : BOOLEAN, empty : BOOLEAN]
    BY <2>1, <2>2, ElementOfSeq DEF Inductive, TypeOK, Numbers
  <2> QED BY <2>1, <2>2 DEF Inductive, SourceInv
<1>2. /\ Part \in 1..MaxParts /\ Picture \in Nat
      /\ Sent > 0 /\ ~source[Sent].tail => Picture = source[Sent].frame
  BY <1>1, ConstantsAssumption DEF Part, Picture
<1>3. ASSUME NEW tail \in BOOLEAN, SourceSends(tail) PROVE Inductive'
  <2> DEFINE pkt == [frame |-> Picture, part |-> Part, tail |-> tail,
                     empty |-> FALSE]
  <2>1. Sends(pkt) /\ (Part = MaxParts => tail)
    BY <1>3 DEF SourceSends
  <2>2. pkt \in [frame : Nat, part : 0..MaxParts, tail : BOOLEAN,
                 empty : BOOLEAN]
    BY <1>2
  <2>3. ~pkt.tail => pkt.part < MaxParts
    BY <1>2, <2>1, ConstantsAssumption
  <2>4. Sent > 0 /\ ~source[Sent].tail => pkt.frame = source[Sent].frame
    BY <1>2
  <2> HIDE DEF pkt
  <2> QED BY <2>1, <2>2, <2>3, <2>4, SendsStep
<1>4. ASSUME SourcePads PROVE Inductive'
  <2> DEFINE pkt == [frame |-> Picture, part |-> Part - 1, tail |-> FALSE,
                     empty |-> TRUE]
  <2>1. Sends(pkt)
    BY <1>4 DEF SourcePads
  <2>2. pkt \in [frame : Nat, part : 0..MaxParts, tail : BOOLEAN,
                 empty : BOOLEAN]
    BY <1>2, ConstantsAssumption
  <2>3. ~pkt.tail => pkt.part < MaxParts
    BY <1>2, ConstantsAssumption
  <2>4. Sent > 0 /\ ~source[Sent].tail => pkt.frame = source[Sent].frame
    BY <1>2
  <2> HIDE DEF pkt
  <2> QED BY <2>1, <2>2, <2>3, <2>4, SendsStep
<1> QED BY <1>3, <1>4

-----------------------------------------------------------------------------
(* The server passes packets on.                                            *)

\* A frame behind the others on a stream.
LEMMA FrameAppended ==
  ASSUME Inductive, NEW v \in Viewers, FramedOf(v), NEW k \in Numbers,
         ends' = [ends EXCEPT ![v] = Append(@, Total(v) + Serialized(k))],
         written' = [written EXCEPT ![v] = Append(@, k)],
         UNCHANGED <<source, net, got, taken>>
  PROVE  /\ Total(v)' = Total(v) + Serialized(k)
         /\ FramedOf(v)'
<1>1. /\ ends[v] \in Seq(Nat) /\ written[v] \in Seq(Numbers)
      /\ got[v] \in Seq(Numbers)
      /\ Len(ends[v]) \in Nat /\ Len(got[v]) \in Nat
      /\ ends'[v] = Append(ends[v], Total(v) + Serialized(k))
      /\ written'[v] = Append(written[v], k)
  BY DEF Inductive, TypeOK
<1>2. /\ Total(v) \in Nat /\ Serialized(k) \in Nat \ {0}
      /\ \A i \in 1..Len(ends[v]) : ends[v][i] <= Total(v)
  <2>1. Serialized(k) \in Nat \ {0}
    BY ConstantsAssumption DEF Serialized, Size
  <2>2. Total(v) \in Nat
    BY <1>1 DEF Total, Last
  <2>3. ASSUME NEW i \in 1..Len(ends[v]) PROVE ends[v][i] <= Total(v)
    <3>1. Total(v) = ends[v][Len(ends[v])] /\ Len(ends[v]) \in 1..Len(ends[v])
      BY <1>1, <2>3 DEF Total, Last
    <3>2. i = Len(ends[v]) \/ i < Len(ends[v])
      BY <1>1, <2>3
    <3>3. ends[v][i] \in Nat
      BY <1>1, <2>3
    <3> QED BY <2>2, <3>1, <3>2, <3>3 DEF FramedOf
  <2> QED BY <2>1, <2>2, <2>3
<1> DEFINE e == Total(v) + Serialized(k)
           n == Len(ends[v])
<1>3. /\ Len(ends'[v]) = n + 1 /\ Len(written'[v]) = n + 1
      /\ \A i \in 1..n : ends'[v][i] = ends[v][i] /\ written'[v][i] = written[v][i]
      /\ ends'[v][n + 1] = e /\ written'[v][n + 1] = k
  <2>1. Len(written[v]) = n
    BY DEF FramedOf
  <2>2. e \in Nat
    BY <1>2
  <2> HIDE DEF e
  <2>3. /\ Len(ends'[v]) = n + 1 /\ ends'[v][n + 1] = e
        /\ \A i \in 1..n : ends'[v][i] = ends[v][i]
    <3>1. ends'[v] = Append(ends[v], e)
      BY <1>1 DEF e
    <3> QED BY <1>1, <2>2, <3>1, AppendProperties
  <2>4. /\ Len(written'[v]) = n + 1 /\ written'[v][n + 1] = k
        /\ \A i \in 1..n : written'[v][i] = written[v][i]
    BY <1>1, <2>1, AppendProperties
  <2> QED BY <2>3, <2>4 DEF e
<1>4. Total(v)' = e
  <2>1. ends'[v] # <<>>
    BY <1>1, <1>2, AppendProperties
  <2>2. Last(ends'[v]) = e
    BY <1>3 DEF Last
  <2> QED BY <2>1, <2>2 DEF Total
<1>5. \A i \in 1..n + 1 : Start(v, i)' = Start(v, i)
  BY <1>1, <1>3 DEF Start
<1>6. Start(v, n + 1) = Total(v)
  BY <1>1 DEF Start, Total, Last
<1>7. \A i \in 1..n + 1 : ends'[v][i] = Start(v, i)' + Serialized(written[v][i])'
  <2>1. \A p \in Numbers : Serialized(p)' = Serialized(p)
    BY DEF Serialized, Size, IsTail
  <2>2. \A i \in 1..n : ends[v][i] = Start(v, i) + Serialized(written[v][i])
                        /\ written[v][i] \in Numbers
    BY <1>1 DEF FramedOf
  <2>3. ASSUME NEW i \in 1..n + 1
        PROVE  ends'[v][i] = Start(v, i)' + Serialized(written[v][i])'
    <3>1. CASE i = n + 1
      BY <1>3, <1>5, <1>6, <2>1, <3>1
    <3>2. CASE i \in 1..n
      BY <1>3, <1>5, <2>1, <2>2, <3>2 DEF Serialized, Size, IsTail
    <3>3. i = n + 1 \/ i \in 1..n
      BY <1>1, <2>3
    <3> QED BY <3>1, <3>2, <3>3
  <2> QED BY <2>3
<1>8. \A i, j \in 1..n + 1 : i < j => ends'[v][i] < ends'[v][j]
  <2>1. ASSUME NEW i \in 1..n + 1, NEW j \in 1..n + 1, i < j
        PROVE  ends'[v][i] < ends'[v][j]
    <3>1. i \in 1..n
      BY <1>1, <2>1
    <3>2. CASE j = n + 1
      <4>1. ends[v][i] <= Total(v) /\ ends[v][i] \in Nat
        BY <1>1, <1>2, <3>1
      <4> QED BY <1>2, <1>3, <3>1, <3>2, <4>1
    <3>3. CASE j \in 1..n
      BY <1>3, <2>1, <3>1, <3>3 DEF FramedOf
    <3> QED BY <1>1, <3>2, <3>3
  <2> QED BY <2>1
<1>9. /\ Len(got[v]) <= n /\ taken[v] = Start(v, Len(got[v]) + 1)
      /\ \A i \in 1..Len(got[v]) : got[v][i] = written[v][i]
      /\ net[v] = <<>>
  BY DEF FramedOf
<1>10. /\ Len(got[v]) + 1 \in 1..n + 1
       /\ \A i \in 1..Len(got[v]) : i \in 1..n
  BY <1>1, <1>9
<1>11. FramedOf(v)'
  <2>1. net'[v] = <<>> /\ Len(ends'[v]) = Len(written'[v])
        /\ got'[v] = got[v] /\ taken'[v] = taken[v]
    BY <1>3, <1>9
  <2>2. Len(ends'[v]) = n + 1 /\ Len(got[v]) <= n + 1
    BY <1>1, <1>3, <1>9
  <2>3. taken[v] = Start(v, Len(got[v]) + 1)'
    <3> DEFINE m == Len(got[v]) + 1
    <3>1. m \in 1..n + 1 /\ m' = m
      BY <1>10, <2>1
    <3>2. Start(v, m)' = IF m = 1 THEN 0 ELSE ends'[v][m - 1]
      BY <3>1 DEF Start
    <3>3. n \in Nat
      BY <1>1
    <3> HIDE DEF m, n, e
    <3>4. m # 1 => m - 1 \in 1..n
      BY <3>1, <3>3
    <3>5. Start(v, m) = IF m = 1 THEN 0 ELSE ends[v][m - 1]
      BY DEF Start
    <3>6. m # 1 => ends'[v][m - 1] = ends[v][m - 1]
      BY <1>3, <3>4
    <3>7. Start(v, m)' = Start(v, m)
      BY <3>2, <3>5, <3>6
    <3> QED BY <1>9, <3>7 DEF m
  <2>4. \A i \in 1..Len(got[v]) : got[v][i] = written'[v][i]
    BY <1>3, <1>9, <1>10
  <2> HIDE DEF n, e
  <2> QED BY <1>7, <1>8, <2>1, <2>2, <2>3, <2>4 DEF FramedOf
<1> QED BY <1>4, <1>11

\* What is not touched for a viewer keeps its framing and its pictures.
LEMMA OthersKeep ==
  ASSUME Inductive, NEW w \in Viewers, UNCHANGED <<transport, source>>,
         net'[w] = net[w], ends'[w] = ends[w], written'[w] = written[w],
         got'[w] = got[w], taken'[w] = taken[w], parsing'[w] = parsing[w],
         last'[w] = last[w], picture'[w] = picture[w], decoded'[w] = decoded[w]
  PROVE  /\ (transport = "stream" => FramedOf(w))'
         /\ (transport = "datagram" => CollectedOf(w))'
<1>1. ASSUME FramedOf(w) PROVE FramedOf(w)'
  <2>1. \A k : Serialized(k)' = Serialized(k)
    BY DEF Serialized, Size, IsTail
  <2>2. \A n : Start(w, n)' = Start(w, n)
    BY DEF Start
  <2> QED BY <1>1, <2>1, <2>2 DEF FramedOf
<1>2. ASSUME CollectedOf(w) PROVE CollectedOf(w)'
  BY <1>2 DEF CollectedOf, Consecutive, SequenceNumber, IsTail
<1> QED BY <1>1, <1>2 DEF Inductive

\* The interval callback frames one packet, whole or not at all.
LEMMA OnIntervalStep ==
  ASSUME Inductive, NEW v \in Viewers, OnInterval(v)
  PROVE  Inductive'
<1>1. /\ udp # <<>> /\ udp' = Tail(udp)
      /\ UNCHANGED <<transport, source, viewer, arrived, taken, parsing, got,
                     last, picture, decoded>>
      /\ Numbers' = Numbers
  BY DEF OnInterval, page_vars, Numbers
<1>2. /\ Head(udp) \in Numbers
      /\ udp' \in Seq(Numbers) /\ Len(udp') <= SocketRoom
  <2>1. udp \in Seq(Numbers) /\ Len(udp) <= SocketRoom /\ Len(udp) \in Nat
    BY DEF Inductive, TypeOK
  <2> QED BY <1>1, <2>1, ConstantsAssumption, HeadTailProperties
<1> DEFINE k == Head(udp)
<1>3. /\ written \in [Viewers -> Seq(Numbers)] /\ ends \in [Viewers -> Seq(Nat)]
      /\ net \in [Viewers -> Seq(Numbers)]
      /\ arrived \in [Viewers -> Nat] /\ Bounds
  BY DEF Inductive, TypeOK, Bounds
<1>4. ASSUME written' \in [Viewers -> Seq(Numbers)], ends' \in [Viewers -> Seq(Nat)],
             net' \in [Viewers -> Seq(Numbers)], Bounds'
      PROVE  TypeOK' /\ SourceInv'
  <2>1. TypeOK'
    BY <1>1, <1>2, <1>4 DEF Inductive, TypeOK, Bounds
  <2>2. SourceInv'
    BY <1>1 DEF Inductive, SourceInv
  <2> QED BY <2>1, <2>2
<1>5. CASE transport = "stream" /\ Send(v, k) /\ UNCHANGED net
  <2> HIDE DEF k
  <2>1. CASE UNCHANGED <<ends, written>>
    <3>1. TypeOK' /\ SourceInv'
      BY <1>1, <1>3, <1>4, <1>5, <2>1 DEF Bounds, Total
    <3>2. \A w \in Viewers : /\ (transport = "stream" => FramedOf(w))'
                             /\ (transport = "datagram" => CollectedOf(w))'
      BY <1>1, <1>5, <2>1, OthersKeep
    <3> QED BY <3>1, <3>2 DEF Inductive
  <2>2. CASE /\ ends' = [ends EXCEPT ![v] = Append(@, Total(v) + Serialized(k))]
             /\ written' = [written EXCEPT ![v] = Append(@, k)]
    <3>1. k \in Numbers
      BY <1>2 DEF k
    <3>2. FramedOf(v)
      BY <1>5 DEF Inductive
    <3>3. Total(v)' = Total(v) + Serialized(k) /\ FramedOf(v)'
      BY <1>1, <1>5, <2>2, <3>1, <3>2, FrameAppended
    <3>4. Total(v) \in Nat /\ Serialized(k) \in Nat
      <4>1. ends[v] \in Seq(Nat)
        BY <1>3
      <4> QED BY <4>1, ConstantsAssumption DEF Total, Last, Serialized, Size
    <3>5. /\ ends' \in [Viewers -> Seq(Nat)]
          /\ written' \in [Viewers -> Seq(Numbers)]
      <4>1. /\ Append(ends[v], Total(v) + Serialized(k)) \in Seq(Nat)
            /\ Append(written[v], k) \in Seq(Numbers)
        BY <1>3, <3>1, <3>4, AppendProperties
      <4> QED BY <1>3, <2>2, <4>1
    <3>6. \A w \in Viewers : w # v => ends'[w] = ends[w] /\ written'[w] = written[w]
      BY <1>3, <2>2
    <3>7. Bounds'
      <4>1. ASSUME NEW w \in Viewers
            PROVE  taken'[w] <= arrived'[w] /\ arrived'[w] <= Total(w)'
        <5>1. CASE w = v
          BY <1>1, <1>3, <3>3, <3>4, <5>1 DEF Bounds
        <5>2. CASE w # v
          BY <1>1, <1>3, <3>6, <5>2 DEF Bounds, Total
        <5> QED BY <5>1, <5>2
      <4> QED BY <4>1 DEF Bounds
    <3>8. TypeOK' /\ SourceInv'
      BY <1>3, <1>4, <1>5, <3>5, <3>7
    <3>9. ASSUME NEW w \in Viewers
          PROVE  /\ (transport = "stream" => FramedOf(w))'
                 /\ (transport = "datagram" => CollectedOf(w))'
      <4>1. CASE w = v
        BY <1>1, <1>5, <3>3, <4>1
      <4>2. CASE w # v
        BY <1>1, <1>5, <3>6, <4>2, OthersKeep
      <4> QED BY <4>1, <4>2
    <3> QED BY <3>8, <3>9 DEF Inductive
  <2> QED BY <1>5, <2>1, <2>2 DEF Send
<1>6. CASE transport = "datagram" /\ SendDatagram(v, k) /\ UNCHANGED ends
  <2>1. k \in Numbers
    BY <1>2
  <2> HIDE DEF k
  <2>2. /\ net' = [net EXCEPT ![v] = Append(@, k)]
        /\ written' = [written EXCEPT ![v] = Append(@, k)]
    BY <1>6 DEF SendDatagram
  <2>3. Append(net[v], k) \in Seq(Numbers) /\ Append(written[v], k) \in Seq(Numbers)
    BY <1>3, <2>1, AppendProperties
  <2>4. net' \in [Viewers -> Seq(Numbers)] /\ written' \in [Viewers -> Seq(Numbers)]
    BY <1>3, <2>2, <2>3
  <2>5. TypeOK' /\ SourceInv'
    BY <1>1, <1>3, <1>4, <1>6, <2>4 DEF Bounds, Total
  <2>6. ASSUME NEW w \in Viewers PROVE CollectedOf(w)'
    BY <1>1, <1>6 DEF Inductive, CollectedOf, Consecutive, SequenceNumber, IsTail
  <2> QED BY <1>1, <1>6, <2>5, <2>6 DEF Inductive
<1> QED BY <1>5, <1>6 DEF OnInterval

-----------------------------------------------------------------------------
(* Steps that touch neither frames nor pictures.                            *)
LEMMA ComesAndGoes ==
  ASSUME Inductive, NEW v \in Viewers,
         \/ Joins(v) \/ Leaves(v) \/ LoopEnds(v)
         \/ \E n \in 1..Total(v) : ReadStream(v, n)
  PROVE  Inductive'
<1>1. /\ UNCHANGED <<transport, source, udp, written, ends, net, taken, got,
                     last, picture, decoded>>
      /\ Numbers' = Numbers
  BY DEF Joins, Leaves, LoopEnds, ReadStream, server_vars, page_vars, Numbers
<1>2. viewer' \in [Viewers -> {"none", "there", "gone"}]
  BY DEF Inductive, TypeOK, Joins, Leaves, LoopEnds, ReadStream, server_vars
<1>3. parsing' \in [Viewers -> BOOLEAN]
  BY DEF Inductive, TypeOK, Joins, Leaves, LoopEnds, ReadStream, page_vars
<1>4. arrived' \in [Viewers -> Nat] /\ Bounds'
  <2>1. arrived \in [Viewers -> Nat] /\ taken \in [Viewers -> Nat] /\ Bounds
        /\ \A w \in Viewers : Total(w)' = Total(w)
    BY <1>1 DEF Inductive, TypeOK, Bounds, Total
  <2>2. CASE UNCHANGED arrived
    BY <1>1, <2>1, <2>2 DEF Bounds
  <2>3. CASE \E n \in 1..Total(v) : ReadStream(v, n)
    <3>1. PICK n \in 1..Total(v) : ReadStream(v, n)
      BY <2>3
    <3>2. /\ n \in Nat /\ arrived[v] + n <= Total(v)
          /\ arrived' = [arrived EXCEPT ![v] = @ + n]
      BY <3>1 DEF ReadStream
    <3> QED BY <1>1, <2>1, <3>2 DEF Bounds
  <2>4. UNCHANGED arrived \/ \E n \in 1..Total(v) : ReadStream(v, n)
    BY DEF Joins, Leaves, LoopEnds, page_vars
  <2> QED BY <2>2, <2>3, <2>4
<1>5. TypeOK'
  BY <1>1, <1>2, <1>3, <1>4 DEF Inductive, TypeOK, Bounds
<1>6. SourceInv'
  BY <1>1 DEF Inductive, SourceInv
<1>7. ASSUME NEW w \in Viewers, transport = "stream" PROVE FramedOf(w)'
  BY <1>1, <1>7 DEF Inductive, FramedOf, Start, Serialized, Size, IsTail
<1>8. ASSUME NEW w \in Viewers, transport = "datagram" PROVE CollectedOf(w)'
  <2>1. parsing'[w] = FALSE
    <3>1. parsing[w] = FALSE /\ ends[w] = <<>>
      BY <1>8 DEF Inductive, CollectedOf
    <3>2. CASE w # v
      BY <3>1, <3>2 DEF Inductive, TypeOK, Joins, Leaves, LoopEnds, ReadStream,
                        page_vars
    <3>3. CASE w = v
      <4>1. Total(v) = 0
        BY <3>1, <3>3 DEF Total
      <4>2. ~\E n \in 1..Total(v) : ReadStream(v, n)
        BY <4>1
      <4> QED BY <3>1, <3>3, <4>2 DEF Inductive, TypeOK, Joins, Leaves, LoopEnds,
                                      page_vars
    <3> QED BY <3>2, <3>3
  <2> QED BY <1>1, <1>8, <2>1 DEF Inductive, CollectedOf, Consecutive,
                                  SequenceNumber, IsTail
<1> QED BY <1>1, <1>5, <1>6, <1>7, <1>8 DEF Inductive

\* A datagram is lost: those that are left keep their order.
LEMMA LoseStep ==
  ASSUME Inductive, NEW v \in Viewers, Lose(v)
  PROVE  Inductive'
<1>1. /\ UNCHANGED <<transport, source, udp, viewer, written, ends, arrived,
                     taken, parsing, got, last, picture, decoded>>
      /\ Numbers' = Numbers
  BY DEF Lose, page_vars, Numbers
<1>2. PICK i \in DOMAIN net[v] : net' = [net EXCEPT ![v] = RemoveAt(@, i)]
  BY DEF Lose
<1>3. net' \in [Viewers -> Seq(Numbers)]
  <2>1. net \in [Viewers -> Seq(Numbers)]
    BY DEF Inductive, TypeOK
  <2>2. RemoveAt(net[v], i) \in Seq(Numbers)
    BY <2>1, RemoveAtType
  <2> QED BY <1>2, <2>1, <2>2
<1>4. TypeOK'
  BY <1>1, <1>3 DEF Inductive, TypeOK, Total
<1>5. SourceInv'
  BY <1>1 DEF Inductive, SourceInv
<1>6. transport # "stream"
  BY <1>2 DEF Inductive, FramedOf
<1>7. ASSUME NEW w \in Viewers, transport = "datagram" PROVE CollectedOf(w)'
  BY <1>1, <1>7 DEF Inductive, CollectedOf, Consecutive, SequenceNumber, IsTail
<1> QED BY <1>1, <1>4, <1>5, <1>6, <1>7 DEF Inductive

-----------------------------------------------------------------------------
(* The page that reads a stream.                                            *)

\* When the bytes of a header are there, the page stands at a frame, and it is
\* the one behind those that it has taken.
LEMMA StandsAtFrame ==
  ASSUME Inductive, NEW v \in Viewers, FramedOf(v),
         taken[v] + Header <= arrived[v]
  PROVE  /\ Len(got[v]) + 1 \in 1..Len(ends[v])
         /\ Packet(v) = written[v][Len(got[v]) + 1]
         /\ Packet(v) \in Numbers
<1>1. /\ ends[v] \in Seq(Nat) /\ written[v] \in Seq(Numbers)
      /\ got[v] \in Seq(Numbers)
      /\ arrived[v] \in Nat /\ taken[v] \in Nat /\ arrived[v] <= Total(v)
      /\ Len(ends[v]) \in Nat /\ Len(got[v]) \in Nat
      /\ Len(ends[v]) = Len(written[v]) /\ Len(got[v]) <= Len(ends[v])
  BY DEF Inductive, TypeOK, FramedOf
<1> DEFINE n == Len(got[v]) + 1
<1>2. n \in 1..Len(ends[v])
  <2>1. SUFFICES ASSUME Len(got[v]) = Len(ends[v]) PROVE FALSE
    BY <1>1
  <2>2. taken[v] = Total(v)
    BY <1>1, <2>1 DEF FramedOf, Start, Total, Last
  <2> QED BY <1>1, <2>2, ConstantsAssumption
<1>3. \A m \in 1..Len(ends[v]) : ends[v][m] \in Nat /\ ends[v][m] > 0
  <2>1. ASSUME NEW m \in 1..Len(ends[v]) PROVE ends[v][m] > 0 /\ ends[v][m] \in Nat
    <3>1. ends[v][m] = Start(v, m) + Serialized(written[v][m])
      BY DEF FramedOf
    <3>2. Serialized(written[v][m]) \in Nat \ {0}
      BY ConstantsAssumption DEF Serialized, Size
    <3>3. Start(v, m) \in Nat
      <4>1. CASE m = 1
        BY <4>1 DEF Start
      <4>2. CASE m # 1
        <5>1. m - 1 \in 1..Len(ends[v])
          BY <1>1, <4>2
        <5> QED BY <1>1, <4>2, <5>1 DEF Start
      <4> QED BY <4>1, <4>2
    <3> QED BY <1>1, <3>1, <3>2, <3>3
  <2> QED BY <2>1
<1>4. \A m \in Here(v) : m = n
  <2>1. SUFFICES ASSUME NEW m \in 1..Len(ends[v]), Start(v, m) = Start(v, n), m # n
                 PROVE  FALSE
    BY <1>1 DEF Here, FramedOf
  <2>2. CASE m = 1
    <3>1. n - 1 \in 1..Len(ends[v])
      BY <1>1, <1>2, <2>1, <2>2
    <3>2. Start(v, m) = 0 /\ Start(v, n) = ends[v][n - 1]
      BY <1>1, <2>1, <2>2 DEF Start
    <3>3. ends[v][n - 1] > 0 /\ ends[v][n - 1] \in Nat
      BY <1>3, <3>1
    <3> QED BY <2>1, <3>2, <3>3
  <2>3. CASE n = 1
    <3>1. m - 1 \in 1..Len(ends[v])
      BY <1>1, <2>1, <2>3
    <3>2. Start(v, n) = 0 /\ Start(v, m) = ends[v][m - 1]
      BY <1>1, <2>1, <2>3 DEF Start
    <3>3. ends[v][m - 1] > 0 /\ ends[v][m - 1] \in Nat
      BY <1>3, <3>1
    <3> QED BY <2>1, <3>2, <3>3
  <2>4. CASE m # 1 /\ n # 1
    <3>1. /\ m - 1 \in 1..Len(ends[v]) /\ n - 1 \in 1..Len(ends[v])
          /\ m - 1 < n - 1 \/ n - 1 < m - 1
      <4>1. m \in Nat /\ n \in Nat /\ m >= 1 /\ n >= 1
            /\ m <= Len(ends[v]) /\ n <= Len(ends[v])
        BY <1>1, <1>2, <2>1
      <4> HIDE DEF n
      <4> QED BY <1>1, <2>1, <2>4, <4>1
    <3>2. Start(v, m) = ends[v][m - 1] /\ Start(v, n) = ends[v][n - 1]
      BY <2>4 DEF Start
    <3>3. ends[v][m - 1] \in Nat /\ ends[v][n - 1] \in Nat
      BY <1>3, <3>1
    <3>4. ends[v][m - 1] < ends[v][n - 1] \/ ends[v][n - 1] < ends[v][m - 1]
      BY <3>1 DEF FramedOf
    <3> QED BY <2>1, <3>2, <3>3, <3>4
  <2> QED BY <2>2, <2>3, <2>4
<1>5. n \in Here(v)
  BY <1>1, <1>2 DEF Here, FramedOf
<1>6. Packet(v) = written[v][n]
  BY <1>4, <1>5 DEF Packet
<1>7. written[v][n] \in Numbers
  BY <1>1, <1>2
<1> QED BY <1>2, <1>6, <1>7

\* Appending to a picture, and a picture to those decoded, keeps the types.
LEMMA PictureTypes ==
  ASSUME Inductive, NEW v \in Viewers, NEW k \in Numbers
  PROVE  /\ Append(picture[v], k) \in Seq(Numbers)
         /\ \A p \in Seq(Numbers) : Append(decoded[v], p) \in Seq(Seq(Numbers))
<1>1. picture[v] \in Seq(Numbers) /\ decoded[v] \in Seq(Seq(Numbers))
  BY DEF Inductive, TypeOK
<1> QED BY <1>1, AppendProperties

\* The page takes a frame whose length it can read.
LEMMA TakeFrameStep ==
  ASSUME Inductive, NEW v \in Viewers, TakeFrame(v)
  PROVE  Inductive'
<1>1. /\ parsing[v] /\ FrameIsThere(v)
      /\ taken' = [taken EXCEPT ![v] = @ + Header + SizeHere(v)]
      /\ got' = [got EXCEPT ![v] = Append(@, Packet(v))]
      /\ UNCHANGED <<transport, source, udp, viewer, written, ends, net, arrived,
                     parsing, last>>
      /\ Numbers' = Numbers
  BY DEF TakeFrame, server_vars, Numbers
<1>2. transport = "stream" /\ FramedOf(v)
  BY <1>1 DEF Inductive, TypeOK, CollectedOf
<1> DEFINE n == Len(got[v]) + 1
<1>3. n \in 1..Len(ends[v]) /\ Packet(v) = written[v][n] /\ Packet(v) \in Numbers
  BY <1>1, <1>2, StandsAtFrame DEF FrameIsThere
<1>4. SizeHere(v) = Size(written[v][n]) /\ SizeHere(v) \in Nat
  BY <1>3 DEF SizeHere, Numbers, Size
<1>5. taken \in [Viewers -> Nat] /\ got \in [Viewers -> Seq(Numbers)]
      /\ arrived \in [Viewers -> Nat] /\ Bounds
      /\ Append(got[v], Packet(v)) \in Seq(Numbers)
  BY <1>3, AppendProperties DEF Inductive, TypeOK, Bounds
<1>6. taken'[v] = taken[v] + Header + SizeHere(v) /\ taken'[v] <= arrived[v]
  BY <1>1, <1>5 DEF FrameIsThere
<1>7. taken' \in [Viewers -> Nat] /\ Bounds' /\ got' \in [Viewers -> Seq(Numbers)]
  <2>1. taken[v] + Header + SizeHere(v) \in Nat
    BY <1>4, <1>5, ConstantsAssumption
  <2>2. taken' \in [Viewers -> Nat]
    BY <1>1, <1>5, <2>1
  <2>3. got' \in [Viewers -> Seq(Numbers)]
    BY <1>1, <1>5
  <2>4. ASSUME NEW w \in Viewers
        PROVE  taken'[w] <= arrived'[w] /\ arrived'[w] <= Total(w)'
    <3>1. CASE w = v
      BY <1>1, <1>5, <1>6, <3>1 DEF Bounds, Total
    <3>2. CASE w # v
      BY <1>1, <1>5, <3>2 DEF Bounds, Total
    <3> QED BY <3>1, <3>2
  <2> QED BY <2>2, <2>3, <2>4 DEF Bounds
<1>8. /\ picture' \in [Viewers -> Seq(Numbers)]
      /\ decoded' \in [Viewers -> Seq(Seq(Numbers))]
  <2>1. /\ picture \in [Viewers -> Seq(Numbers)]
        /\ decoded \in [Viewers -> Seq(Seq(Numbers))]
    BY DEF Inductive, TypeOK
  <2>2. /\ Append(picture[v], Packet(v)) \in Seq(Numbers)
        /\ \A p \in Seq(Numbers) : Append(decoded[v], p) \in Seq(Seq(Numbers))
    BY <1>3, PictureTypes
  <2>3. \/ UNCHANGED <<picture, decoded>>
        \/ Collect(v, Packet(v))
    BY DEF TakeFrame
  <2>4. CASE UNCHANGED <<picture, decoded>>
    BY <2>1, <2>4
  <2>5. CASE Collect(v, Packet(v))
    <3>1. CASE IsTail(Packet(v))
      <4>1. <<>> \in Seq(Numbers)
        OBVIOUS
      <4> QED BY <2>1, <2>2, <2>5, <3>1, <4>1 DEF Collect
    <3>2. CASE ~IsTail(Packet(v))
      BY <2>1, <2>2, <2>5, <3>2 DEF Collect
    <3> QED BY <3>1, <3>2
  <2> QED BY <2>3, <2>4, <2>5
<1>9. TypeOK'
  BY <1>1, <1>7, <1>8 DEF Inductive, TypeOK, Bounds
<1>10. SourceInv'
  BY <1>1 DEF Inductive, SourceInv
<1>11. ASSUME NEW w \in Viewers PROVE FramedOf(w)'
  <2>1. CASE w = v
    <3>1. /\ got[v] \in Seq(Numbers) /\ Len(got[v]) \in Nat
          /\ got'[v] = Append(got[v], Packet(v))
      BY <1>1, <1>5
    <3>2. /\ Len(got'[v]) = n
          /\ \A i \in 1..n - 1 : got'[v][i] = got[v][i]
          /\ got'[v][n] = written[v][n]
      BY <1>3, <3>1, AppendProperties
    <3>3. taken'[v] = Start(v, n + 1)
      <4>1. Start(v, n + 1) = ends[v][n]
        BY <3>1 DEF Start
      <4>2. ends[v][n] = Start(v, n) + Serialized(written[v][n])
        BY <1>2, <1>3 DEF FramedOf
      <4>3. taken[v] = Start(v, n)
        BY <1>2 DEF FramedOf
      <4>4. taken[v] \in Nat
        BY <1>5
      <4> QED BY <1>4, <1>6, <4>1, <4>2, <4>3, <4>4, ConstantsAssumption
              DEF Serialized
    <3>4. /\ net[v] = <<>> /\ Len(ends[v]) = Len(written[v])
          /\ \A m \in 1..Len(ends[v]) :
               ends[v][m] = Start(v, m) + Serialized(written[v][m])
          /\ \A i, j \in 1..Len(ends[v]) : i < j => ends[v][i] < ends[v][j]
          /\ \A i \in 1..n - 1 : got[v][i] = written[v][i]
      BY <1>2, <3>1 DEF FramedOf
    <3>5. \A i \in 1..n : got'[v][i] = written[v][i]
      <4>1. \A i \in 1..n : i = n \/ i \in 1..n - 1
        BY <3>1
      <4> QED BY <3>2, <3>4, <4>1
    <3>6. n <= Len(ends[v])
      BY <1>3
    <3> HIDE DEF n
    <3> QED BY <1>1, <2>1, <3>2, <3>3, <3>4, <3>5, <3>6
            DEF FramedOf, Start, Serialized, Size, IsTail
  <2>2. CASE w # v
    <3>1. FramedOf(w) /\ taken'[w] = taken[w] /\ got'[w] = got[w]
      BY <1>1, <1>2, <1>5, <2>2 DEF Inductive
    <3> QED BY <1>1, <3>1 DEF FramedOf, Start, Serialized, Size, IsTail
  <2> QED BY <2>1, <2>2
<1> QED BY <1>1, <1>2, <1>9, <1>10, <1>11 DEF Inductive

-----------------------------------------------------------------------------
(* The page that reads datagrams.                                           *)

\* Sequence numbers tell packets apart, and the next one is that of the next
\* packet, where they wrap around as well.
LEMMA NextNumber ==
  ASSUME NEW p \in 1..MaxPackets, NEW k \in 1..MaxPackets,
         SequenceNumber(k) = NextSequenceNumber(SequenceNumber(p))
  PROVE  k = p + 1
  BY ConstantsAssumption DEF SequenceNumber, NextSequenceNumber

\* A packet that follows the last of those collected makes consecutive ones.
LEMMA ConsecutiveAppend ==
  ASSUME NEW p \in Seq(Numbers), NEW k \in Numbers, Consecutive(p),
         p # <<>> => k = Last(p) + 1 /\ source[k].frame = source[Last(p)].frame
  PROVE  Consecutive(Append(p, k))
<1>1. /\ Len(p) \in Nat /\ Len(Append(p, k)) = Len(p) + 1
      /\ \A i \in 1..Len(p) : Append(p, k)[i] = p[i]
      /\ Append(p, k)[Len(p) + 1] = k
  BY AppendProperties
<1>2. ASSUME NEW i \in 1..Len(p)
      PROVE  /\ Append(p, k)[i + 1] = Append(p, k)[i] + 1
             /\ source[Append(p, k)[i + 1]].frame = source[Append(p, k)[i]].frame
  <2>1. CASE i = Len(p)
    <3>1. p # <<>> /\ Last(p) = p[i]
      BY <1>1, <2>1 DEF Last
    <3> QED BY <1>1, <2>1, <3>1
  <2>2. CASE i \in 1..Len(p) - 1
    <3>1. i + 1 \in 1..Len(p)
      BY <1>1, <2>2
    <3> QED BY <1>1, <2>2, <3>1 DEF Consecutive
  <2> QED BY <1>1, <2>1, <2>2
<1> QED BY <1>1, <1>2 DEF Consecutive

\* What processRTPPacket makes of a picture: consecutive packets, for the
\* decoder and for later.
LEMMA CollectedGrows ==
  ASSUME Inductive, NEW v \in Viewers, CollectedOf(v), NEW k \in Numbers
  PROVE  LET kept == IF IsHead(k) THEN <<>> ELSE Kept(v, k)
         IN /\ kept \in Seq(Numbers)
            /\ Append(kept, k) \in Seq(Numbers)
            /\ Consecutive(Append(kept, k))
            /\ Kept(v, k) \in Seq(Numbers) /\ Consecutive(Kept(v, k))
<1>1. picture[v] \in Seq(Numbers) /\ Consecutive(picture[v])
  BY DEF Inductive, TypeOK, CollectedOf
<1>2. <<>> \in Seq(Numbers) /\ Consecutive(<<>>)
  BY DEF Consecutive
<1>3. Kept(v, k) \in Seq(Numbers) /\ Consecutive(Kept(v, k))
  BY <1>1, <1>2 DEF Kept
<1>4. CASE IsHead(k) \/ Kept(v, k) = <<>>
  <2>1. Append(<<>>, k) \in Seq(Numbers) /\ Consecutive(Append(<<>>, k))
    BY <1>2, AppendProperties, ConsecutiveAppend
  <2> QED BY <1>2, <1>3, <1>4, <2>1
<1>5. CASE ~IsHead(k) /\ Kept(v, k) # <<>>
  <2>1. Kept(v, k) = picture[v] /\ picture[v] # <<>> /\ ~Gap(v, k)
    BY <1>5 DEF Kept
  <2>2. /\ last[v] = <<SequenceNumber(Last(picture[v]))>>
        /\ ~IsTail(Last(picture[v]))
    BY <2>1 DEF CollectedOf
  <2>3. Last(picture[v]) \in Numbers
    BY <1>1, <2>1 DEF Last
  <2>4. SequenceNumber(k) = NextSequenceNumber(SequenceNumber(Last(picture[v])))
    BY <2>1, <2>2 DEF Gap
  <2>5. \A i \in Numbers : i \in 1..MaxPackets
    BY ConstantsAssumption DEF Inductive, TypeOK, Numbers
  <2>6. k = Last(picture[v]) + 1
    BY <2>3, <2>4, <2>5, NextNumber
  <2>7. source[k].frame = source[Last(picture[v])].frame
    BY <2>2, <2>3, <2>6 DEF Inductive, SourceInv, IsTail
  <2>8. Append(picture[v], k) \in Seq(Numbers)
        /\ Consecutive(Append(picture[v], k))
    BY <1>1, <2>6, <2>7, AppendProperties, ConsecutiveAppend
  <2> QED BY <1>3, <1>5, <2>1, <2>8
<1> QED BY <1>3, <1>4, <1>5

\* Pictures behind those decoded.
LEMMA DecodedGrows ==
  ASSUME NEW d \in Seq(Seq(Numbers)), NEW e \in Seq(Seq(Numbers)),
         \A i \in DOMAIN d : Consecutive(d[i]), \A i \in DOMAIN e : Consecutive(e[i])
  PROVE  /\ d \o e \in Seq(Seq(Numbers))
         /\ \A i \in DOMAIN (d \o e) : Consecutive((d \o e)[i])
<1>1. /\ d \o e \in Seq(Seq(Numbers)) /\ Len(d \o e) = Len(d) + Len(e)
      /\ \A i \in 1..Len(d) + Len(e) :
           (d \o e)[i] = IF i <= Len(d) THEN d[i] ELSE e[i - Len(d)]
  BY ConcatProperties
<1>2. ASSUME NEW i \in 1..Len(d) + Len(e) PROVE Consecutive((d \o e)[i])
  <2>1. Len(d) \in Nat /\ Len(e) \in Nat
    OBVIOUS
  <2>2. CASE i <= Len(d)
    <3>1. i \in DOMAIN d
      BY <2>1, <2>2
    <3> QED BY <1>1, <2>2, <3>1
  <2>3. CASE ~(i <= Len(d))
    <3>1. i - Len(d) \in DOMAIN e
      BY <2>1, <2>3
    <3> QED BY <1>1, <2>3, <3>1
  <2> QED BY <2>2, <2>3
<1>3. DOMAIN (d \o e) = 1..Len(d) + Len(e)
  BY <1>1
<1> QED BY <1>1, <1>2, <1>3

\* Sequence numbers wrap within their space.
LEMMA SequenceNumberType ==
  ASSUME NEW k \in 1..MaxPackets
  PROVE  SequenceNumber(k) \in 0..SeqSpace - 1
  BY ConstantsAssumption DEF SequenceNumber

\* The page takes a datagram: what it has collected is kept, flushed or
\* replaced, and stays of one picture.
LEMMA ReadDatagramStep ==
  ASSUME Inductive, NEW v \in Viewers, NEW i \in DOMAIN net[v],
         ReadDatagram(v, i)
  PROVE  Inductive'
<1> DEFINE k == net[v][i]
<1>1. /\ net' = [net EXCEPT ![v] = RemoveAt(@, i)]
      /\ got' = [got EXCEPT ![v] = Append(@, k)]
      /\ UNCHANGED <<transport, source, udp, viewer, written, ends, arrived,
                     taken, parsing>>
      /\ Numbers' = Numbers
  BY DEF ReadDatagram, Numbers
<1>2. net \in [Viewers -> Seq(Numbers)] /\ got \in [Viewers -> Seq(Numbers)]
  BY DEF Inductive, TypeOK
<1>3. k \in Numbers
  BY <1>2
<1>4. transport = "datagram" /\ CollectedOf(v)
  BY DEF Inductive, TypeOK, FramedOf
<1>5. net' \in [Viewers -> Seq(Numbers)] /\ got' \in [Viewers -> Seq(Numbers)]
  <2>1. RemoveAt(net[v], i) \in Seq(Numbers) /\ Append(got[v], k) \in Seq(Numbers)
    BY <1>2, <1>3, RemoveAtType, AppendProperties
  <2> QED BY <1>1, <1>2, <2>1
<1>6. /\ last \in [Viewers -> {<<>>} \cup {<<s>> : s \in 0..SeqSpace - 1}]
      /\ picture \in [Viewers -> Seq(Numbers)]
      /\ decoded \in [Viewers -> Seq(Seq(Numbers))]
  BY DEF Inductive, TypeOK
<1>7. CASE UNCHANGED <<last, picture, decoded>>
  <2>1. TypeOK'
    BY <1>1, <1>5, <1>7 DEF Inductive, TypeOK, Total
  <2>2. SourceInv'
    BY <1>1 DEF Inductive, SourceInv
  <2>3. ASSUME NEW w \in Viewers PROVE CollectedOf(w)'
    BY <1>1, <1>4, <1>7
    DEF Inductive, CollectedOf, Consecutive, SequenceNumber, IsTail
  <2> QED BY <1>1, <1>4, <2>1, <2>2, <2>3 DEF Inductive
<1>8. CASE processRTPPacket(v, k)
  <2> HIDE DEF k
  <2> DEFINE kept == IF IsHead(k) THEN <<>> ELSE Kept(v, k)
             now == Append(kept, k)
             more == Flushed(v, k) \o IF IsTail(k) THEN <<now>> ELSE <<>>
  <2>1. /\ kept \in Seq(Numbers) /\ now \in Seq(Numbers) /\ Consecutive(now)
        /\ Kept(v, k) \in Seq(Numbers) /\ Consecutive(Kept(v, k))
    BY <1>3, <1>4, CollectedGrows
  <2>2. Last(now) = k /\ now # <<>>
    BY <1>3, <2>1, AppendProperties DEF Last
  <2>3. /\ last' = [last EXCEPT ![v] = <<SequenceNumber(k)>>]
        /\ picture' = [picture EXCEPT ![v] = IF IsTail(k) THEN <<>> ELSE now]
        /\ decoded' = [decoded EXCEPT ![v] =
                        @ \o Flushed(v, k) \o IF IsTail(k) THEN <<now>> ELSE <<>>]
    BY <1>8 DEF processRTPPacket
  <2> HIDE DEF now
  <2>4. /\ Flushed(v, k) \in Seq(Seq(Numbers))
        /\ \A j \in DOMAIN Flushed(v, k) : Consecutive(Flushed(v, k)[j])
    BY <2>1 DEF Flushed
  <2>5. /\ (IF IsTail(k) THEN <<now>> ELSE <<>>) \in Seq(Seq(Numbers))
        /\ \A j \in DOMAIN (IF IsTail(k) THEN <<now>> ELSE <<>>) :
             Consecutive((IF IsTail(k) THEN <<now>> ELSE <<>>)[j])
    BY <2>1
  <2>6. /\ decoded[v] \in Seq(Seq(Numbers))
        /\ \A j \in DOMAIN decoded[v] : Consecutive(decoded[v][j])
    BY <1>4, <1>6 DEF CollectedOf
  <2>7. /\ decoded[v] \o Flushed(v, k) \in Seq(Seq(Numbers))
        /\ \A j \in DOMAIN (decoded[v] \o Flushed(v, k)) :
             Consecutive((decoded[v] \o Flushed(v, k))[j])
    BY <2>4, <2>6, DecodedGrows
  <2>8. /\ decoded'[v] \in Seq(Seq(Numbers))
        /\ \A j \in DOMAIN decoded'[v] : Consecutive(decoded'[v][j])
    <3>1. decoded'[v] = decoded[v] \o Flushed(v, k)
                          \o IF IsTail(k) THEN <<now>> ELSE <<>>
      BY <1>6, <2>3
    <3> QED BY <2>5, <2>7, <3>1, DecodedGrows
  <2>9. /\ picture'[v] \in Seq(Numbers) /\ Consecutive(picture'[v])
        /\ picture'[v] # <<>> => ~IsTail(k) /\ Last(picture'[v]) = k
    <3>1. picture'[v] = IF IsTail(k) THEN <<>> ELSE now
      BY <1>6, <2>3
    <3> QED BY <2>1, <2>2, <3>1 DEF Consecutive
  <2>10. last'[v] = <<SequenceNumber(k)>> /\ SequenceNumber(k) \in 0..SeqSpace - 1
    <3>1. k \in 1..MaxPackets
      BY <1>3, ConstantsAssumption DEF Inductive, TypeOK, Numbers
    <3> QED BY <1>6, <2>3, <3>1, SequenceNumberType
  <2>11. /\ last' \in [Viewers -> {<<>>} \cup {<<s>> : s \in 0..SeqSpace - 1}]
         /\ picture' \in [Viewers -> Seq(Numbers)]
         /\ decoded' \in [Viewers -> Seq(Seq(Numbers))]
    <3>1. last' \in [Viewers -> {<<>>} \cup {<<s>> : s \in 0..SeqSpace - 1}]
      BY <1>6, <2>3, <2>10
    <3>2. picture' \in [Viewers -> Seq(Numbers)]
      BY <1>6, <2>3, <2>9
    <3>3. decoded' \in [Viewers -> Seq(Seq(Numbers))]
      BY <1>6, <2>3, <2>8
    <3> QED BY <3>1, <3>2, <3>3
  <2>12. TypeOK'
    BY <1>1, <1>5, <2>11 DEF Inductive, TypeOK, Total
  <2>13. SourceInv'
    BY <1>1 DEF Inductive, SourceInv
  <2>14. ASSUME NEW w \in Viewers PROVE CollectedOf(w)'
    <3>1. CASE w = v
      <4>2. Consecutive(picture[v])'
        BY <1>1, <2>9 DEF Consecutive
      <4>3. (\A j \in DOMAIN decoded[v] : Consecutive(decoded[v][j]))'
        BY <1>1, <2>8 DEF Consecutive
      <4>4. ends'[v] = <<>> /\ parsing'[v] = FALSE
        BY <1>1, <1>4 DEF CollectedOf
      <4>5. (picture[v] # <<>> => /\ last[v] = <<SequenceNumber(Last(picture[v]))>>
                                  /\ ~IsTail(Last(picture[v])))'
        BY <1>1, <2>9, <2>10 DEF SequenceNumber, IsTail
      <4> QED BY <3>1, <4>2, <4>3, <4>4, <4>5 DEF CollectedOf
    <3>2. CASE w # v
      <4>1. last'[w] = last[w] /\ picture'[w] = picture[w]
            /\ decoded'[w] = decoded[w]
        BY <1>6, <2>3, <3>2
      <4>2. CollectedOf(w)
        BY <1>4 DEF Inductive
      <4> QED BY <1>1, <4>1, <4>2
              DEF CollectedOf, Consecutive, SequenceNumber, IsTail
    <3> QED BY <3>1, <3>2
  <2> QED BY <1>1, <1>4, <2>12, <2>13, <2>14 DEF Inductive
<1> QED BY <1>7, <1>8 DEF ReadDatagram

-----------------------------------------------------------------------------
(* Whole pictures.  That a picture is decoded is a claim about what a page  *)
(* did over many steps: the invariant says, for the run of packets that has *)
(* just been read, what of it the page holds.                               *)

\* The packets that end with the one numbered k, r of them.
EndingAt(k, r) == [j \in 1..r |-> k - r + j]

\* The packets of a picture are numbered one after the other, where there is no
\* padding between them: those before the i-th from the end have the parts
\* before it, and none of them ends the picture.
PartsInv ==
  \A k \in Numbers :
    /\ source[k].empty => ~source[k].tail
    /\ ~source[k].empty => source[k].part >= 1
    /\ \A i \in 0..source[k].part - 1 :
         (\A j \in 0..i : k - j \in Numbers /\ ~source[k - j].empty) =>
           source[k - i].part = source[k].part - i /\ (i > 0 => ~IsTail(k - i))

\* The r packets up to the i-th that the page has read are the first r of a
\* picture; what a stream brought before them, if anything, ended another.
RunTo(v, i, r) ==
  LET k == got[v][i]
  IN /\ r \in 1..i /\ source[k].part = r
     /\ \A j \in 1..r : got[v][i - r + j] = k - r + j /\ Carries(k - r + j)
     /\ transport = "stream" /\ r < i => IsTail(got[v][i - r])

\* The page holds the run it is in, and no other packet.
RunIsHeld(v) ==
  \A r \in 1..Len(got[v]) :
    LET k == got[v][Len(got[v])]
    IN RunTo(v, Len(got[v]), r) /\ ~IsTail(k) => picture[v] = EndingAt(k, r)

\* On a stream a page holds nothing behind the last packet of a picture.
StartsEmpty(v) ==
  transport = "stream" /\ (got[v] = <<>> \/ IsTail(got[v][Len(got[v])])) =>
    picture[v] = <<>>

\* By datagrams the last packet read that carries something is remembered.
LastIsNoted(v) ==
  transport = "datagram" /\ got[v] # <<>> /\ Carries(got[v][Len(got[v])]) =>
    last[v] = <<SequenceNumber(got[v][Len(got[v])])>>

\* A picture of which the run is all is among those decoded.
WholeIsDecoded(v) ==
  \A i \in 1..Len(got[v]) : \A r \in 1..i :
    RunTo(v, i, r) /\ IsTail(got[v][i]) =>
      Contains(decoded[v], EndingAt(got[v][i], r))

WholeOf(v) ==
  RunIsHeld(v) /\ StartsEmpty(v) /\ LastIsNoted(v) /\ WholeIsDecoded(v)

WholeInv == PartsInv /\ \A v \in Viewers : WholeOf(v)

\* The invariant holds at the start.
LEMMA InitWhole == Init => WholeInv
<1> SUFFICES ASSUME Init PROVE WholeInv
  OBVIOUS
<1>1. Numbers = {}
  BY DEF Init, Numbers
<1>2. PartsInv
  BY <1>1 DEF PartsInv
<1>3. ASSUME NEW v \in Viewers PROVE WholeOf(v)
  <2>1. got[v] = <<>> /\ picture[v] = <<>>
    BY DEF Init
  <2>2. Len(got[v]) = 0 /\ DOMAIN got[v] = {}
    BY <2>1
  <2>3. RunIsHeld(v)
    BY <2>2 DEF RunIsHeld
  <2>4. StartsEmpty(v) /\ LastIsNoted(v)
    BY <2>1 DEF StartsEmpty, LastIsNoted
  <2>5. WholeIsDecoded(v)
    BY <2>2 DEF WholeIsDecoded
  <2> QED BY <2>3, <2>4, <2>5 DEF WholeOf
<1> QED BY <1>2, <1>3 DEF WholeInv

\* A packet behind those that end with the one before it.
LEMMA EndingGrows ==
  ASSUME NEW k \in Nat, NEW r \in Nat
  PROVE  Append(EndingAt(k - 1, r), k) = EndingAt(k, r + 1)
<1> DEFINE s == EndingAt(k - 1, r)
           t == EndingAt(k, r + 1)
<1>1. s \in Seq(Int) /\ Len(s) = r /\ \A j \in 1..r : s[j] = k - 1 - r + j
  BY DEF EndingAt
<1>2. t \in Seq(Int) /\ Len(t) = r + 1 /\ \A j \in 1..r + 1 : t[j] = k - (r + 1) + j
  BY DEF EndingAt
<1> HIDE DEF s, t
<1>3. /\ Append(s, k) \in Seq(Int) /\ Len(Append(s, k)) = r + 1
      /\ \A j \in 1..r : Append(s, k)[j] = s[j]
      /\ Append(s, k)[r + 1] = k
  BY <1>1, AppendProperties
<1>4. ASSUME NEW j \in 1..r + 1 PROVE Append(s, k)[j] = t[j]
  <2>1. j = r + 1 \/ j \in 1..r
    OBVIOUS
  <2>2. t[j] = k - (r + 1) + j
    BY <1>2
  <2>3. CASE j = r + 1
    BY <1>3, <2>2, <2>3
  <2>4. CASE j \in 1..r
    <3>1. Append(s, k)[j] = k - 1 - r + j
      BY <1>1, <1>3, <2>4
    <3> QED BY <2>2, <3>1
  <2> QED BY <2>1, <2>3, <2>4
<1>5. Append(s, k) = t
  BY <1>2, <1>3, <1>4, SeqEqual
<1> QED BY <1>5 DEF s, t

\* A packet of its own is a run of one.
LEMMA EndingAlone ==
  ASSUME NEW k \in Nat
  PROVE  Append(<<>>, k) = EndingAt(k, 1)
<1>1. EndingAt(k - 1, 0) = <<>>
  BY DEF EndingAt
<1>2. 0 \in Nat /\ 0 + 1 = 1
  OBVIOUS
<1>3. Append(EndingAt(k - 1, 0), k) = EndingAt(k, 0 + 1)
  BY <1>2, EndingGrows
<1> QED BY <1>1, <1>2, <1>3

-----------------------------------------------------------------------------
(* The source numbers the packets of a picture.                             *)

\* What the source appends: a packet of a picture, which has one part more than
\* the one before, or the first, or padding, which ends none.
LEMMA PartsStep ==
  ASSUME Inductive, PartsInv, SourcePads \/ \E tail \in BOOLEAN : SourceSends(tail)
  PROVE  PartsInv'
<1>1. PICK pkt : /\ source' = Append(source, pkt)
                 /\ pkt.empty => ~pkt.tail
                 /\ ~pkt.empty => pkt.part = Part
  <2>1. CASE SourcePads
    <3> DEFINE pad == [frame |-> Picture, part |-> Part - 1, tail |-> FALSE,
                       empty |-> TRUE]
    <3>1. source' = Append(source, pad)
      BY <2>1 DEF SourcePads, Sends
    <3>2. pad.empty /\ ~pad.tail
      OBVIOUS
    <3> HIDE DEF pad
    <3> QED BY <3>1, <3>2
  <2>2. CASE \E tail \in BOOLEAN : SourceSends(tail)
    <3> PICK tail \in BOOLEAN : SourceSends(tail)
      BY <2>2
    <3> DEFINE full == [frame |-> Picture, part |-> Part, tail |-> tail,
                        empty |-> FALSE]
    <3>1. source' = Append(source, full)
      BY <2>2 DEF SourceSends, Sends
    <3>2. ~full.empty /\ full.part = Part
      OBVIOUS
    <3> HIDE DEF full
    <3> QED BY <3>1, <3>2
  <2> QED BY <2>1, <2>2
<1> DEFINE n == Len(source)
<1>2. /\ Len(source') = n + 1 /\ n \in Nat
      /\ \A k \in Numbers : source'[k] = source[k]
      /\ source'[n + 1] = pkt /\ Numbers \subseteq Numbers'
  BY <1>1, SourceGrows
<1>3. /\ Part \in Nat /\ Part >= 1
      /\ Part > 1 => n \in Numbers /\ ~IsTail(n) /\ Part = source[n].part + 1
      /\ n \in Numbers => source[n].part \in Nat
  <2>1. n > 0 => n \in Numbers /\ source[n].part \in Nat
    <3>1. ASSUME n > 0 PROVE n \in Numbers
      BY <1>2, <3>1 DEF Numbers
    <3>2. ASSUME n > 0
          PROVE  source[n] \in [frame : Nat, part : 0..MaxParts,
                                tail : BOOLEAN, empty : BOOLEAN]
      BY <3>1, <3>2, ElementOfSeq DEF Inductive, TypeOK, Numbers
    <3> QED BY <3>1, <3>2, ConstantsAssumption
  <2>2. n \in Numbers => n > 0
    BY <1>2 DEF Numbers
  <2> QED BY <1>2, <2>1, <2>2 DEF Part, Sent, IsTail
<1>4. Numbers = 1..n /\ Numbers' = 1..n + 1
  BY <1>2 DEF Numbers
<1> SUFFICES ASSUME NEW k \in Numbers'
             PROVE  /\ source'[k].empty => ~source'[k].tail
                    /\ ~source'[k].empty => source'[k].part >= 1
                    /\ \A i \in 0..source'[k].part - 1 :
                         (\A j \in 0..i : k - j \in Numbers'
                                          /\ ~source'[k - j].empty) =>
                           /\ source'[k - i].part = source'[k].part - i
                           /\ i > 0 => ~source'[k - i].tail
  BY DEF PartsInv, IsTail
<1>5. k = n + 1 \/ k \in Numbers
  BY <1>2, <1>4
<1>6. CASE k = n + 1
  <2>1. source'[k] = pkt
    BY <1>2, <1>6
  <2>2. ASSUME NEW i \in 0..pkt.part - 1,
               \A j \in 0..i : k - j \in Numbers' /\ ~source'[k - j].empty
        PROVE  /\ source'[k - i].part = pkt.part - i
               /\ i > 0 => ~source'[k - i].tail
    <3>1. ~pkt.empty /\ pkt.part = Part
      <4>1. 0 \in 0..i /\ k - 0 = k
        BY <1>2, <1>6
      <4> QED BY <1>1, <2>1, <2>2, <4>1
    <3>2. Part \in Nat
      BY <1>3
    <3>3. CASE i = 0
      <4>1. k - i = k /\ pkt.part - i = pkt.part
        BY <1>2, <1>6, <3>1, <3>2, <3>3
      <4> QED BY <2>1, <3>3, <4>1
    <3>4. CASE i > 0
      <4>1. Part > 1 /\ i \in Nat /\ i <= Part - 1
        BY <2>2, <3>1, <3>2, <3>4
      <4>2. n \in Numbers /\ ~IsTail(n) /\ Part = source[n].part + 1
            /\ source[n].part \in Nat
        BY <1>3, <4>1
      <4>3. i - 1 \in 0..source[n].part - 1
        BY <3>4, <4>1, <4>2
      <4>4. \A j \in 0..i - 1 : n - j \in Numbers /\ ~source[n - j].empty
        <5>1. SUFFICES ASSUME NEW j \in 0..i - 1
                       PROVE  n - j \in Numbers /\ ~source[n - j].empty
          OBVIOUS
        <5>2. j + 1 \in 0..i /\ k - (j + 1) = n - j
          BY <1>2, <1>6, <4>1, <5>1
        <5>3. n - j \in Numbers' /\ ~source'[n - j].empty
          BY <2>2, <5>2
        <5>4. n - j \in Numbers
          BY <1>2, <1>4, <5>1, <5>3
        <5> QED BY <1>2, <5>3, <5>4
      <4>5. /\ source[n - (i - 1)].part = source[n].part - (i - 1)
            /\ i - 1 > 0 => ~IsTail(n - (i - 1))
        BY <4>2, <4>3, <4>4 DEF PartsInv
      <4>6. i - 1 \in 0..i - 1
        BY <3>4, <4>1
      <4>7. n - (i - 1) = k - i /\ k - i \in Numbers
        BY <1>2, <1>6, <4>1, <4>4, <4>6
      <4>8. source'[k - i] = source[k - i]
        BY <1>2, <4>7
      <4>9. i - 1 > 0 \/ (i - 1 = 0 /\ k - i = n)
        BY <1>2, <1>6, <3>4, <4>1
      <4>10. ~source[k - i].tail
        BY <4>2, <4>5, <4>7, <4>9 DEF IsTail
      <4>11. source[n].part - (i - 1) = pkt.part - i
        BY <3>1, <4>1, <4>2
      <4> QED BY <4>5, <4>7, <4>8, <4>10, <4>11
    <3> QED BY <2>2, <3>1, <3>2, <3>3, <3>4
  <2> QED BY <1>1, <1>3, <2>1, <2>2
<1>7. CASE k \in Numbers
  <2>1. source'[k] = source[k]
    BY <1>2, <1>7
  <2>2. ASSUME NEW i \in 0..source[k].part - 1,
               \A j \in 0..i : k - j \in Numbers' /\ ~source'[k - j].empty
        PROVE  /\ source'[k - i].part = source[k].part - i
               /\ i > 0 => ~source'[k - i].tail
    <3>1. ASSUME NEW j \in 0..i PROVE k - j \in Numbers /\ ~source[k - j].empty
      <4>1. k - j \in Numbers' /\ ~source'[k - j].empty
        BY <2>2
      <4>2. k - j \in Numbers
        BY <1>2, <1>4, <1>7, <4>1
      <4> QED BY <1>2, <4>1, <4>2
    <3>2. i \in 0..i
      OBVIOUS
    <3>3. source'[k - i] = source[k - i]
      BY <1>2, <3>1, <3>2
    <3>4. source[k - i].part = source[k].part - i /\ (i > 0 => ~IsTail(k - i))
      BY <1>7, <2>2, <3>1 DEF PartsInv
    <3> QED BY <3>3, <3>4 DEF IsTail
  <2> QED BY <1>7, <2>1, <2>2 DEF PartsInv
<1> QED BY <1>5, <1>6, <1>7

-----------------------------------------------------------------------------
(* What was read before.                                                    *)

\* Of packets read earlier the same is said when more are sent, and read.
LEMMA RunKeeps ==
  ASSUME Inductive, NEW v \in Viewers, transport' = transport,
         \A k \in Numbers : source'[k] = source[k],
         NEW i \in 1..Len(got[v]),
         \A j \in 1..Len(got[v]) : got'[v][j] = got[v][j]
  PROVE  /\ \A r : RunTo(v, i, r)' <=> RunTo(v, i, r)
         /\ IsTail(got[v][i])' <=> IsTail(got[v][i])
         /\ Carries(got[v][i])' <=> Carries(got[v][i])
<1>1. /\ Len(got[v]) \in Nat
      /\ \A j \in 1..Len(got[v]) : got[v][j] \in Numbers
  BY DEF Inductive, TypeOK
<1> DEFINE k == got[v][i]
<1>2. k \in Numbers /\ got'[v][i] = k /\ source'[k] = source[k]
  BY <1>1
<1>3. \A p \in Numbers : (IsTail(p)' <=> IsTail(p)) /\ (Carries(p)' <=> Carries(p))
  BY DEF IsTail, Carries
<1>4. ASSUME NEW r \in 1..i
      PROVE  /\ (\A j \in 1..r : got[v][i - r + j] = k - r + j /\ Carries(k - r + j))'
                  <=> \A j \in 1..r : got[v][i - r + j] = k - r + j
                                      /\ Carries(k - r + j)
             /\ r < i => (IsTail(got[v][i - r])' <=> IsTail(got[v][i - r]))
  <2>1. \A j \in 1..r : i - r + j \in 1..Len(got[v])
    BY <1>1
  <2>2. r < i => i - r \in 1..Len(got[v])
    BY <1>1
  <2>3. ASSUME NEW j \in 1..r
        PROVE  (got[v][i - r + j] = k - r + j /\ Carries(k - r + j))'
                 <=> got[v][i - r + j] = k - r + j /\ Carries(k - r + j)
    <3>1. got'[v][i - r + j] = got[v][i - r + j] /\ got[v][i - r + j] \in Numbers
      BY <1>1, <2>1
    <3>2. k' = k
      BY <1>2
    <3>3. CASE got[v][i - r + j] = k - r + j
      <4>1. Carries(k - r + j)' <=> Carries(k - r + j)
        BY <1>3, <3>1, <3>2, <3>3 DEF Carries
      <4> QED BY <3>1, <3>2, <4>1
    <3> QED BY <3>1, <3>2, <3>3
  <2> QED BY <1>3, <2>2, <2>3, <1>1 DEF IsTail
<1>5. ASSUME NEW r PROVE RunTo(v, i, r)' <=> RunTo(v, i, r)
  <2>1. CASE r \in 1..i
    BY <1>2, <1>4, <2>1 DEF RunTo
  <2>2. CASE ~(r \in 1..i)
    BY <2>2 DEF RunTo
  <2> QED BY <2>1, <2>2
<1> QED BY <1>2, <1>3, <1>5

\* Of a viewer that reads nothing, the same is known.
LEMMA WholeKeeps ==
  ASSUME Inductive, NEW v \in Viewers, WholeOf(v), transport' = transport,
         \A k \in Numbers : source'[k] = source[k],
         got'[v] = got[v], last'[v] = last[v], picture'[v] = picture[v],
         decoded'[v] = decoded[v]
  PROVE  WholeOf(v)'
<1> DEFINE m == Len(got[v])
<1>1. /\ got[v] \in Seq(Numbers) /\ m \in Nat
      /\ got[v] # <<>> => m \in 1..m
  BY DEF Inductive, TypeOK
<1>2. \A i \in 1..m : /\ \A r : RunTo(v, i, r)' <=> RunTo(v, i, r)
                      /\ IsTail(got[v][i])' <=> IsTail(got[v][i])
                      /\ Carries(got[v][i])' <=> Carries(got[v][i])
  BY RunKeeps
<1>3. RunIsHeld(v)'
  <2>1. SUFFICES ASSUME NEW r \in 1..m, RunTo(v, m, r)', ~IsTail(got[v][m])'
                 PROVE  picture[v] = EndingAt(got[v][m], r)
    BY DEF RunIsHeld, EndingAt
  <2>2. m \in 1..m
    BY <1>1, <2>1
  <2>3. RunTo(v, m, r) /\ ~IsTail(got[v][m])
    BY <1>2, <2>1, <2>2
  <2> QED BY <2>3 DEF WholeOf, RunIsHeld
<1>4. StartsEmpty(v)'
  BY <1>1, <1>2 DEF WholeOf, StartsEmpty
<1>5. LastIsNoted(v)'
  <2>1. SUFFICES ASSUME transport = "datagram", got[v] # <<>>,
                        Carries(got[v][m])'
                 PROVE  last[v] = <<SequenceNumber(got[v][m])>>
    BY DEF LastIsNoted, SequenceNumber
  <2>2. Carries(got[v][m])
    BY <1>1, <1>2, <2>1
  <2> QED BY <2>1, <2>2 DEF WholeOf, LastIsNoted
<1>6. WholeIsDecoded(v)'
  <2>1. SUFFICES ASSUME NEW i \in 1..m, NEW r \in 1..i,
                        RunTo(v, i, r)', IsTail(got[v][i])'
                 PROVE  Contains(decoded[v], EndingAt(got[v][i], r))
    BY DEF WholeIsDecoded, EndingAt, Contains
  <2>2. RunTo(v, i, r) /\ IsTail(got[v][i])
    BY <1>2, <2>1
  <2> QED BY <2>2 DEF WholeOf, WholeIsDecoded
<1> QED BY <1>3, <1>4, <1>5, <1>6 DEF WholeOf

-----------------------------------------------------------------------------
(* A packet is read.                                                        *)

\* A run that ends with the packet just read is that packet alone, or goes on
\* from one that the page held.
LEMMA RunShorter ==
  ASSUME Inductive, PartsInv, NEW v \in Viewers, RunIsHeld(v),
         NEW k \in Numbers, UNCHANGED <<transport, source>>,
         got'[v] = Append(got[v], k), NEW m \in Nat, m = Len(got[v]),
         NEW r \in 2..m + 1, RunTo(v, m + 1, r)'
  PROVE  /\ got[v] # <<>> /\ got[v][Len(got[v])] = k - 1 /\ k - 1 \in Numbers
         /\ Carries(k - 1) /\ ~IsTail(k - 1)
         /\ picture[v] = EndingAt(k - 1, r - 1)
<1>1. /\ got[v] \in Seq(Numbers) /\ m \in Nat /\ r \in Nat /\ r >= 2 /\ r <= m + 1
      /\ k \in Nat /\ \A i \in 1..m : got[v][i] \in Numbers
  <2>1. got[v] \in Seq(Numbers) /\ \A i \in 1..m : got[v][i] \in Numbers
    BY DEF Inductive, TypeOK
  <2>2. k \in Nat
    BY DEF Numbers
  <2> QED BY <2>1, <2>2
<1>2. /\ got'[v] \in Seq(Numbers)
      /\ \A i \in 1..m : got'[v][i] = got[v][i]
      /\ got'[v][m + 1] = k
  BY <1>1, AppendProperties
<1>3. /\ source[k].part = r
      /\ \A j \in 1..r : got'[v][(m + 1) - r + j] = k - r + j /\ Carries(k - r + j)
      /\ transport = "stream" /\ r < m + 1 => IsTail(got'[v][(m + 1) - r])
  <2>1. (/\ source[got[v][m + 1]].part = r
         /\ \A j \in 1..r : /\ got[v][(m + 1) - r + j] = got[v][m + 1] - r + j
                           /\ Carries(got[v][m + 1] - r + j)
         /\ transport = "stream" /\ r < m + 1 => IsTail(got[v][(m + 1) - r]))'
    BY DEF RunTo
  <2> QED BY <1>2, <2>1 DEF Carries, IsTail
<1>4. \A j \in 1..r : k - r + j \in Numbers
  <2>1. \A j \in 1..r : (m + 1) - r + j \in 1..m + 1
    BY <1>1
  <2>2. \A i \in 1..m + 1 : got'[v][i] \in Numbers
    <3>1. \A i \in 1..m + 1 : i \in 1..m \/ i = m + 1
      BY <1>1
    <3> QED BY <1>1, <1>2, <3>1
  <2> QED BY <1>3, <2>1, <2>2
<1>5. /\ source[k - 1].part = r - 1 /\ ~IsTail(k - 1)
      /\ k - 1 \in Numbers /\ Carries(k - 1)
  <2>1. \A i \in 0..1 : k - i \in Numbers /\ ~source[k - i].empty
    <3>1. \A i \in 0..1 : r - i \in 1..r /\ k - r + (r - i) = k - i
      BY <1>1
    <3>2. \A i \in 0..1 : k - i \in Numbers /\ Carries(k - i)
      BY <1>3, <1>4, <3>1
    <3> QED BY <3>2 DEF Carries
  <2>2. 1 \in 0..source[k].part - 1 /\ 1 > 0 /\ 1 \in 0..1
    BY <1>1, <1>3
  <2>3. source[k - 1].part = source[k].part - 1 /\ ~IsTail(k - 1)
    BY <2>1, <2>2 DEF PartsInv
  <2>4. r - 1 \in 1..r /\ k - r + (r - 1) = k - 1
    BY <1>1
  <2> QED BY <1>3, <1>4, <2>3, <2>4
<1>6. got[v][m] = k - 1
  <2>1. r - 1 \in 1..r /\ (m + 1) - r + (r - 1) = m /\ k - r + (r - 1) = k - 1
    BY <1>1
  <2>2. got'[v][(m + 1) - r + (r - 1)] = k - r + (r - 1)
    BY <1>3, <2>1
  <2>3. m \in 1..m
    BY <1>1
  <2> QED BY <1>2, <2>1, <2>2, <2>3
<1>7. RunTo(v, m, r - 1)
  <2>1. r - 1 \in 1..m
    BY <1>1
  <2>2. ASSUME NEW j \in 1..r - 1
        PROVE  /\ got[v][m - (r - 1) + j] = k - 1 - (r - 1) + j
               /\ Carries(k - 1 - (r - 1) + j)
    <3>1. /\ j \in 1..r /\ (m + 1) - r + j \in 1..m
          /\ m - (r - 1) + j = (m + 1) - r + j
          /\ k - 1 - (r - 1) + j = k - r + j
      <4>1. j \in Nat /\ j >= 1 /\ j <= r - 1
        BY <1>1, <2>2
      <4>2. m \in Nat /\ r \in Nat /\ r >= 2 /\ r <= m + 1 /\ k \in Nat
        BY <1>1
      <4>3. j \in 1..r /\ (m + 1) - r + j \in 1..m
        BY <4>1, <4>2
      <4>4. m - (r - 1) + j = (m + 1) - r + j
        BY <4>1, <4>2
      <4>5. k - 1 - (r - 1) + j = k - r + j
        BY <4>1, <4>2
      <4> QED BY <4>3, <4>4, <4>5
    <3>2. got'[v][(m + 1) - r + j] = k - r + j /\ Carries(k - r + j)
      BY <1>3, <3>1
    <3> QED BY <1>2, <3>1, <3>2
  <2>3. transport = "stream" /\ r - 1 < m => IsTail(got[v][m - (r - 1)])
    <3>1. SUFFICES ASSUME transport = "stream", r - 1 < m
                   PROVE  IsTail(got[v][m - (r - 1)])
      OBVIOUS
    <3>2. (m + 1) - r \in 1..m /\ m - (r - 1) = (m + 1) - r /\ r < m + 1
      BY <1>1, <3>1
    <3>3. IsTail(got'[v][(m + 1) - r])
      BY <1>3, <3>1, <3>2
    <3> QED BY <1>2, <3>2, <3>3
  <2> QED BY <1>5, <1>6, <2>1, <2>2, <2>3 DEF RunTo
<1>8. picture[v] = EndingAt(k - 1, r - 1)
  <2>1. r - 1 \in 1..m
    BY <1>1
  <2> QED BY <1>5, <1>6, <1>7, <2>1 DEF RunIsHeld
<1>9. got[v] # <<>>
  BY <1>1
<1> QED BY <1>5, <1>6, <1>8, <1>9

\* A run ends with the packet just read, which carries something.
LEMMA RunEnds ==
  ASSUME Inductive, NEW v \in Viewers, NEW k \in Numbers, UNCHANGED source,
         got'[v] = Append(got[v], k), NEW m \in Nat, m = Len(got[v]),
         NEW r \in 1..m + 1, RunTo(v, m + 1, r)'
  PROVE  source[k].part = r /\ Carries(k)
<1>1. got[v] \in Seq(Numbers) /\ k \in Nat /\ r \in Nat /\ r >= 1
  BY DEF Inductive, TypeOK, Numbers
<1>2. got'[v][m + 1] = k
  BY <1>1, AppendProperties
<1>3. source'[k].part = r /\ \A j \in 1..r : Carries(k - r + j)
  BY <1>2 DEF RunTo, Carries
<1>4. r \in 1..r /\ k - r + r = k
  BY <1>1
<1> QED BY <1>3, <1>4

\* The packet that follows has the next sequence number.
LEMMA NumberFollows ==
  ASSUME NEW k \in 1..MaxPackets, k - 1 \in 1..MaxPackets
  PROVE  SequenceNumber(k) = NextSequenceNumber(SequenceNumber(k - 1))
  BY ConstantsAssumption DEF SequenceNumber, NextSequenceNumber

\* With the packet just read, a page of a stream holds the whole run.
LEMMA StreamHolds ==
  ASSUME Inductive, PartsInv, NEW v \in Viewers, WholeOf(v),
         NEW k \in Numbers, UNCHANGED <<transport, source>>,
         got'[v] = Append(got[v], k), transport = "stream",
         NEW m \in Nat, m = Len(got[v]),
         NEW r \in 1..m + 1, RunTo(v, m + 1, r)'
  PROVE  Append(picture[v], k) = EndingAt(k, r)
<1>1. /\ got[v] \in Seq(Numbers) /\ m \in Nat /\ r \in Nat /\ k \in Nat
      /\ got'[v][m + 1] = k /\ \A i \in 1..m : got'[v][i] = got[v][i]
  <2>1. got[v] \in Seq(Numbers) /\ k \in Nat
    BY DEF Inductive, TypeOK, Numbers
  <2> QED BY <2>1, AppendProperties
<1>2. CASE r = 1
  <2>1. got[v] = <<>> \/ IsTail(got[v][m])
    <3>1. SUFFICES ASSUME got[v] # <<>> PROVE IsTail(got[v][m])
      OBVIOUS
    <3>2. m \in 1..m /\ 1 < m + 1 /\ (m + 1) - 1 = m
      BY <1>1, <3>1
    <3>3. IsTail(got'[v][(m + 1) - 1])
      BY <1>2, <3>2 DEF RunTo, IsTail
    <3> QED BY <1>1, <3>2, <3>3
  <2>2. picture[v] = <<>>
    BY <2>1 DEF WholeOf, StartsEmpty
  <2> QED BY <1>1, <1>2, <2>2, EndingAlone
<1>3. CASE r # 1
  <2>1. r \in 2..m + 1 /\ r - 1 \in Nat /\ (r - 1) + 1 = r
    BY <1>1, <1>3
  <2>2. picture[v] = EndingAt(k - 1, r - 1)
    BY <2>1, RunShorter DEF WholeOf
  <2>3. Append(EndingAt(k - 1, r - 1), k) = EndingAt(k, (r - 1) + 1)
    BY <1>1, <2>1, EndingGrows
  <2> QED BY <2>1, <2>2, <2>3
<1> QED BY <1>2, <1>3

\* And so does one that reads datagrams: it drops none, for the sequence number
\* it remembers is that of the packet before.
LEMMA DatagramHolds ==
  ASSUME Inductive, PartsInv, NEW v \in Viewers, WholeOf(v),
         NEW k \in Numbers, UNCHANGED <<transport, source>>,
         got'[v] = Append(got[v], k), transport = "datagram",
         NEW m \in Nat, m = Len(got[v]),
         NEW r \in 1..m + 1, RunTo(v, m + 1, r)'
  PROVE  Append(IF IsHead(k) THEN <<>> ELSE Kept(v, k), k) = EndingAt(k, r)
<1>1. /\ got[v] \in Seq(Numbers) /\ m \in Nat /\ r \in Nat /\ k \in Nat
      /\ got'[v][m + 1] = k
  <2>1. got[v] \in Seq(Numbers) /\ k \in Nat
    BY DEF Inductive, TypeOK, Numbers
  <2> QED BY <2>1, AppendProperties
<1>2. source[k].part = r /\ Carries(k)
  BY RunEnds
<1>3. CASE r = 1
  <2>1. IsHead(k)
    BY <1>2, <1>3 DEF IsHead, Carries
  <2> QED BY <1>1, <1>3, <2>1, EndingAlone
<1>4. CASE r # 1
  <2>1. r \in 2..m + 1 /\ r - 1 \in Nat /\ (r - 1) + 1 = r
    BY <1>1, <1>4
  <2>2. /\ got[v] # <<>> /\ got[v][m] = k - 1 /\ k - 1 \in Numbers
        /\ Carries(k - 1) /\ picture[v] = EndingAt(k - 1, r - 1)
    BY <2>1, RunShorter DEF WholeOf
  <2>3. last[v] = <<SequenceNumber(k - 1)>>
    BY <2>2 DEF WholeOf, LastIsNoted
  <2>4. \A i \in Numbers : i \in 1..MaxPackets
    BY ConstantsAssumption DEF Inductive, TypeOK, Numbers
  <2>5. SequenceNumber(k) = NextSequenceNumber(SequenceNumber(k - 1))
    BY <2>2, <2>4, NumberFollows
  <2>6. ~Gap(v, k)
    BY <2>3, <2>5 DEF Gap
  <2>7. ~IsHead(k)
    BY <1>2, <1>4 DEF IsHead
  <2>8. Kept(v, k) = picture[v]
    BY <2>6 DEF Kept
  <2>9. Append(EndingAt(k - 1, r - 1), k) = EndingAt(k, (r - 1) + 1)
    BY <1>1, <2>1, EndingGrows
  <2> QED BY <2>1, <2>2, <2>7, <2>8, <2>9
<1> QED BY <1>3, <1>4

\* What a page must do with a packet for the invariant to hold of it again.
LEMMA WholeGrows ==
  ASSUME Inductive, NEW v \in Viewers, WholeOf(v), NEW k \in Numbers,
         UNCHANGED <<transport, source>>, got'[v] = Append(got[v], k),
         NEW m \in Nat, m = Len(got[v]),
         \A r \in 1..m + 1 : RunTo(v, m + 1, r)' =>
           IF IsTail(k) THEN Contains(decoded'[v], EndingAt(k, r))
           ELSE picture'[v] = EndingAt(k, r),
         \A p : Contains(decoded[v], p) => Contains(decoded'[v], p),
         transport = "stream" /\ IsTail(k) => picture'[v] = <<>>,
         transport = "datagram" /\ Carries(k) => last'[v] = <<SequenceNumber(k)>>
  PROVE  WholeOf(v)'
<1>1. /\ got[v] \in Seq(Numbers)
      /\ got'[v] # <<>> /\ Len(got'[v]) = m + 1 /\ got'[v][m + 1] = k
      /\ \A i \in 1..m : got'[v][i] = got[v][i]
  <2>1. got[v] \in Seq(Numbers)
    BY DEF Inductive, TypeOK
  <2> QED BY <2>1, AppendProperties
<1>2. \A p : (IsTail(p)' <=> IsTail(p)) /\ (Carries(p)' <=> Carries(p))
  BY DEF IsTail, Carries
<1>3. RunIsHeld(v)'
  <2>1. SUFFICES ASSUME NEW r \in 1..m + 1, RunTo(v, m + 1, r)', ~IsTail(k)
                 PROVE  picture'[v] = EndingAt(k, r)
    BY <1>1 DEF RunIsHeld, EndingAt, IsTail
  <2> QED BY <2>1
<1>4. StartsEmpty(v)'
  BY <1>1 DEF StartsEmpty, IsTail
<1>5. LastIsNoted(v)'
  BY <1>1 DEF LastIsNoted, SequenceNumber, Carries
<1>6. WholeIsDecoded(v)'
  <2>0. SUFFICES ASSUME NEW i \in 1..m + 1, NEW r \in 1..i,
                        RunTo(v, i, r)', IsTail(got[v][i])'
                 PROVE  Contains(decoded[v], EndingAt(got[v][i], r))'
    BY <1>1 DEF WholeIsDecoded
  <2>1. SUFFICES ASSUME IsTail(got'[v][i])
                 PROVE  Contains(decoded'[v], EndingAt(got'[v][i], r))
    BY <1>2, <2>0 DEF Contains, EndingAt, IsTail
  <2>2. CASE i = m + 1
    <3>1. RunTo(v, m + 1, r)' /\ r \in 1..m + 1
      BY <2>0, <2>2
    <3>2. IsTail(k) /\ got'[v][i] = k
      BY <1>1, <2>1, <2>2
    <3> QED BY <3>1, <3>2
  <2>3. CASE i \in 1..m
    <3>1. got'[v][i] = got[v][i]
      BY <1>1, <2>3
    <3>2. RunTo(v, i, r)' <=> RunTo(v, i, r)
      BY <1>1, <2>3, RunKeeps
    <3>3. RunTo(v, i, r) /\ IsTail(got[v][i])
      BY <2>0, <2>1, <3>1, <3>2
    <3>4. Contains(decoded[v], EndingAt(got[v][i], r))
      BY <2>3, <3>3 DEF WholeOf, WholeIsDecoded
    <3> QED BY <3>1, <3>4
  <2>4. i = m + 1 \/ i \in 1..m
    OBVIOUS
  <2> QED BY <2>2, <2>3, <2>4
<1> QED BY <1>3, <1>4, <1>5, <1>6 DEF WholeOf

\* What is decoded stays so, and a picture behind it is decoded as well.
LEMMA ContainsGrows ==
  ASSUME NEW S, NEW d \in Seq(S), NEW e \in Seq(S)
  PROVE  /\ \A p : Contains(d, p) => Contains(d \o e, p)
         /\ \A p : Contains(e, p) => Contains(d \o e, p)
<1>1. /\ d \o e \in Seq(S) /\ Len(d \o e) = Len(d) + Len(e)
      /\ Len(d) \in Nat /\ Len(e) \in Nat
      /\ \A i \in 1..Len(d) + Len(e) :
           (d \o e)[i] = IF i <= Len(d) THEN d[i] ELSE e[i - Len(d)]
  BY ConcatProperties
<1>2. ASSUME NEW p, Contains(d, p) PROVE Contains(d \o e, p)
  <2>1. PICK i \in 1..Len(d) : d[i] = p
    BY <1>2 DEF Contains
  <2>2. i \in 1..Len(d) + Len(e) /\ i <= Len(d)
    BY <1>1, <2>1
  <2>3. (d \o e)[i] = p /\ i \in 1..Len(d \o e)
    BY <1>1, <2>1, <2>2
  <2> QED BY <2>3 DEF Contains
<1>3. ASSUME NEW p, Contains(e, p) PROVE Contains(d \o e, p)
  <2>1. PICK i \in 1..Len(e) : e[i] = p
    BY <1>3 DEF Contains
  <2>2. /\ Len(d) + i \in 1..Len(d) + Len(e) /\ ~(Len(d) + i <= Len(d))
        /\ Len(d) + i - Len(d) = i
    BY <1>1, <2>1
  <2>3. (d \o e)[Len(d) + i] = p /\ Len(d) + i \in 1..Len(d \o e)
    BY <1>1, <2>1, <2>2
  <2> QED BY <2>3 DEF Contains
<1> QED BY <1>2, <1>3

\* The same of one picture.
LEMMA ContainsAppend ==
  ASSUME NEW S, NEW d \in Seq(S), NEW q \in S
  PROVE  /\ \A p : Contains(d, p) => Contains(Append(d, q), p)
         /\ Contains(Append(d, q), q)
<1>1. /\ Len(Append(d, q)) = Len(d) + 1 /\ Len(d) \in Nat
      /\ \A i \in 1..Len(d) : Append(d, q)[i] = d[i]
      /\ Append(d, q)[Len(d) + 1] = q
  BY AppendProperties
<1>2. \A i \in 1..Len(d) : i \in 1..Len(d) + 1
  BY <1>1
<1>3. Len(d) + 1 \in 1..Len(d) + 1
  BY <1>1
<1> QED BY <1>1, <1>2, <1>3 DEF Contains

\* The page takes a frame of a stream.
LEMMA TakeFrameWhole ==
  ASSUME Inductive, WholeInv, NEW v \in Viewers, TakeFrame(v)
  PROVE  \A w \in Viewers : WholeOf(w)'
<1> DEFINE k == Packet(v)
<1>1. /\ got' = [got EXCEPT ![v] = Append(@, k)]
      /\ IF Carries(k) THEN Collect(v, k) ELSE UNCHANGED <<picture, decoded>>
      /\ UNCHANGED <<transport, source, last>>
      /\ parsing[v] /\ FrameIsThere(v)
  BY DEF TakeFrame, server_vars
<1>2. transport = "stream" /\ FramedOf(v)
  BY <1>1 DEF Inductive, TypeOK, CollectedOf
<1>3. k \in Numbers
  BY <1>1, <1>2, StandsAtFrame DEF FrameIsThere
<1>4. /\ got \in [Viewers -> Seq(Numbers)]
      /\ picture \in [Viewers -> Seq(Numbers)]
      /\ decoded \in [Viewers -> Seq(Seq(Numbers))]
  BY DEF Inductive, TypeOK
<1> HIDE DEF k
<1>5. ASSUME NEW w \in Viewers, w # v PROVE WholeOf(w)'
  <2>1. /\ got'[w] = got[w] /\ last'[w] = last[w] /\ picture'[w] = picture[w]
        /\ decoded'[w] = decoded[w]
    BY <1>1, <1>4, <1>5 DEF Collect
  <2> QED BY <1>1, <2>1, WholeKeeps DEF WholeInv
<1>6. WholeOf(v)'
  <2>1. PICK m \in Nat : m = Len(got[v])
    BY <1>4
  <2>2. got'[v] = Append(got[v], k)
    BY <1>1, <1>4
  <2>3. /\ Carries(k) => Collect(v, k)
        /\ ~Carries(k) => UNCHANGED <<picture, decoded>>
    BY <1>1 DEF Carries
  <2>4. IsTail(k) => Carries(k)
    BY <1>3 DEF WholeInv, PartsInv, Carries, IsTail, Numbers
  <2>5. WholeOf(v) /\ PartsInv
    BY DEF WholeInv
  <2>6. /\ picture[v] \in Seq(Numbers) /\ decoded[v] \in Seq(Seq(Numbers))
        /\ Append(picture[v], k) \in Seq(Numbers)
    BY <1>3, <1>4, AppendProperties
  <2>7. /\ Carries(k) /\ IsTail(k) =>
             /\ decoded'[v] = Append(decoded[v], Append(picture[v], k))
             /\ picture'[v] = <<>>
        /\ Carries(k) /\ ~IsTail(k) => /\ picture'[v] = Append(picture[v], k)
                                      /\ decoded'[v] = decoded[v]
        /\ ~Carries(k) => decoded'[v] = decoded[v]
    BY <1>4, <2>3 DEF Collect
  <2>8. ASSUME NEW r \in 1..m + 1, RunTo(v, m + 1, r)'
        PROVE  IF IsTail(k) THEN Contains(decoded'[v], EndingAt(k, r))
               ELSE picture'[v] = EndingAt(k, r)
    <3>1. Append(picture[v], k) = EndingAt(k, r)
      BY <1>1, <1>2, <1>3, <2>1, <2>2, <2>5, <2>8, StreamHolds
    <3>2. Carries(k)
      BY <1>1, <1>3, <2>1, <2>2, <2>8, RunEnds
    <3>3. Contains(Append(decoded[v], Append(picture[v], k)),
                   Append(picture[v], k))
      BY <2>6, ContainsAppend
    <3> QED BY <2>7, <3>1, <3>2, <3>3
  <2>9. \A p : Contains(decoded[v], p) => Contains(decoded'[v], p)
    <3>1. \A p : Contains(decoded[v], p) =>
                   Contains(Append(decoded[v], Append(picture[v], k)), p)
      BY <2>6, ContainsAppend
    <3> QED BY <2>7, <3>1
  <2>10. IsTail(k) => picture'[v] = <<>>
    BY <2>4, <2>7
  <2> QED BY <1>1, <1>2, <1>3, <2>1, <2>2, <2>5, <2>8, <2>9, <2>10, WholeGrows
<1> QED BY <1>5, <1>6

\* The page takes a datagram.
LEMMA ReadDatagramWhole ==
  ASSUME Inductive, WholeInv, NEW v \in Viewers, NEW i \in DOMAIN net[v],
         ReadDatagram(v, i)
  PROVE  \A w \in Viewers : WholeOf(w)'
<1> DEFINE k == net[v][i]
<1>1. /\ got' = [got EXCEPT ![v] = Append(@, k)]
      /\ IF Carries(k) THEN processRTPPacket(v, k)
         ELSE UNCHANGED <<last, picture, decoded>>
      /\ UNCHANGED <<transport, source>>
  BY DEF ReadDatagram
<1>2. transport = "datagram" /\ CollectedOf(v)
  BY DEF Inductive, TypeOK, FramedOf
<1>3. k \in Numbers
  BY DEF Inductive, TypeOK
<1>4. /\ got \in [Viewers -> Seq(Numbers)]
      /\ picture \in [Viewers -> Seq(Numbers)]
      /\ decoded \in [Viewers -> Seq(Seq(Numbers))]
      /\ last \in [Viewers -> {<<>>} \cup {<<s>> : s \in 0..SeqSpace - 1}]
  BY DEF Inductive, TypeOK
<1> HIDE DEF k
<1>5. ASSUME NEW w \in Viewers, w # v PROVE WholeOf(w)'
  <2>1. /\ got'[w] = got[w] /\ last'[w] = last[w] /\ picture'[w] = picture[w]
        /\ decoded'[w] = decoded[w]
    BY <1>1, <1>4, <1>5 DEF processRTPPacket
  <2> QED BY <1>1, <2>1, WholeKeeps DEF WholeInv
<1>6. WholeOf(v)'
  <2> DEFINE now == Append(IF IsHead(k) THEN <<>> ELSE Kept(v, k), k)
             more == IF IsTail(k) THEN <<now>> ELSE <<>>
             flushed == Flushed(v, k)
  <2>1. PICK m \in Nat : m = Len(got[v])
    BY <1>4
  <2>2. got'[v] = Append(got[v], k)
    BY <1>1, <1>4
  <2>3. WholeOf(v) /\ PartsInv
    BY DEF WholeInv
  <2>4. /\ now \in Seq(Numbers) /\ Kept(v, k) \in Seq(Numbers)
        /\ decoded[v] \in Seq(Seq(Numbers))
    BY <1>2, <1>3, <1>4, CollectedGrows
  <2>5. flushed \in Seq(Seq(Numbers)) /\ more \in Seq(Seq(Numbers))
    BY <2>4 DEF Flushed
  <2> HIDE DEF now
  <2>6. /\ Carries(k) => /\ last'[v] = <<SequenceNumber(k)>>
                         /\ decoded'[v] = decoded[v] \o flushed \o more
                         /\ picture'[v] = IF IsTail(k) THEN <<>> ELSE now
        /\ ~Carries(k) => decoded'[v] = decoded[v]
    BY <1>1, <1>4 DEF processRTPPacket, now
  <2> HIDE DEF more, flushed
  <2>7. decoded[v] \o flushed \in Seq(Seq(Numbers))
    BY <2>4, <2>5, ConcatProperties
  <2>8. /\ \A p : Contains(decoded[v], p) => Contains(decoded[v] \o flushed, p)
        /\ \A p : Contains(decoded[v] \o flushed, p) =>
                     Contains(decoded[v] \o flushed \o more, p)
        /\ \A p : Contains(more, p) => Contains(decoded[v] \o flushed \o more, p)
    BY <2>4, <2>5, <2>7, ContainsGrows
  <2>9. ASSUME NEW r \in 1..m + 1, RunTo(v, m + 1, r)'
        PROVE  IF IsTail(k) THEN Contains(decoded'[v], EndingAt(k, r))
               ELSE picture'[v] = EndingAt(k, r)
    <3>1. now = EndingAt(k, r)
      BY <1>1, <1>2, <1>3, <2>1, <2>2, <2>3, <2>9, DatagramHolds DEF now
    <3>2. Carries(k)
      BY <1>1, <1>3, <2>1, <2>2, <2>9, RunEnds
    <3>3. IsTail(k) => Contains(more, now)
      BY DEF more, Contains
    <3> QED BY <2>6, <2>8, <3>1, <3>2, <3>3
  <2>10. \A p : Contains(decoded[v], p) => Contains(decoded'[v], p)
    BY <2>6, <2>8
  <2> QED BY <1>1, <1>2, <1>3, <2>1, <2>2, <2>3, <2>6, <2>9, <2>10, WholeGrows
<1> QED BY <1>5, <1>6

\* A packet is sent: nothing that was read is touched.
LEMMA SourceWhole ==
  ASSUME Inductive, WholeInv, SourcePads \/ \E tail \in BOOLEAN : SourceSends(tail)
  PROVE  WholeInv'
<1>1. PICK pkt : /\ source' = Append(source, pkt)
                 /\ UNCHANGED <<transport, got, last, picture, decoded>>
  BY DEF SourcePads, SourceSends, Sends, page_vars
<1>2. \A k \in Numbers : source'[k] = source[k]
  BY <1>1, SourceGrows
<1>3. \A w \in Viewers : WholeOf(w)'
  BY <1>1, <1>2, WholeKeeps DEF WholeInv
<1>4. PartsInv'
  BY PartsStep DEF WholeInv
<1> QED BY <1>3, <1>4 DEF WholeInv

\* A step that sends nothing and reads nothing.
LEMMA OtherWhole ==
  ASSUME Inductive, WholeInv,
         UNCHANGED <<transport, source, got, last, picture, decoded>>
  PROVE  WholeInv'
<1>1. \A w \in Viewers : WholeOf(w)'
  BY WholeKeeps DEF WholeInv
<1>2. PartsInv'
  BY DEF WholeInv, PartsInv, Numbers, IsTail
<1> QED BY <1>1, <1>2 DEF WholeInv

\* Every step keeps the invariant.
LEMMA WholeStep == Inductive /\ WholeInv /\ [Next]_vars => WholeInv'
<1> SUFFICES ASSUME Inductive, WholeInv, [Next]_vars PROVE WholeInv'
  OBVIOUS
<1>1. CASE SourcePads \/ \E tail \in BOOLEAN : SourceSends(tail)
  BY <1>1, SourceWhole
<1>2. CASE \E v \in Viewers :
             \/ Joins(v) \/ Leaves(v) \/ OnInterval(v) \/ LoopEnds(v) \/ Lose(v)
             \/ \E n \in 1..Total(v) : ReadStream(v, n)
  <2>1. UNCHANGED <<transport, source, got, last, picture, decoded>>
    BY <1>2 DEF Joins, Leaves, OnInterval, LoopEnds, Lose, ReadStream,
                server_vars, page_vars
  <2> QED BY <2>1, OtherWhole
<1>3. CASE UNCHANGED vars
  BY <1>3, OtherWhole DEF vars
<1>4. ASSUME NEW v \in Viewers, TakeFrame(v) PROVE WholeInv'
  <2>1. UNCHANGED source
    BY <1>4 DEF TakeFrame, server_vars
  <2>2. PartsInv'
    BY <2>1 DEF WholeInv, PartsInv, Numbers, IsTail
  <2>3. \A w \in Viewers : WholeOf(w)'
    BY <1>4, TakeFrameWhole
  <2> QED BY <2>2, <2>3 DEF WholeInv
<1>5. ASSUME NEW v \in Viewers, NEW i \in DOMAIN net[v], ReadDatagram(v, i)
      PROVE  WholeInv'
  <2>1. UNCHANGED source
    BY <1>5 DEF ReadDatagram
  <2>2. PartsInv'
    BY <2>1 DEF WholeInv, PartsInv, Numbers, IsTail
  <2>3. \A w \in Viewers : WholeOf(w)'
    BY <1>5, ReadDatagramWhole
  <2> QED BY <2>2, <2>3 DEF WholeInv
<1> QED BY <1>1, <1>2, <1>3, <1>4, <1>5 DEF Next

-----------------------------------------------------------------------------
(* The theorems.                                                            *)
LEMMA InductiveStep == Inductive /\ [Next]_vars => Inductive'
<1> SUFFICES ASSUME Inductive, [Next]_vars PROVE Inductive'
  OBVIOUS
<1>1. CASE UNCHANGED vars
  <2>1. TypeOK' /\ SourceInv'
    BY <1>1 DEF vars, Inductive, TypeOK, SourceInv, Numbers, Total
  <2>2. \A v \in Viewers : /\ (transport = "stream" => FramedOf(v))'
                           /\ (transport = "datagram" => CollectedOf(v))'
    BY <1>1, OthersKeep DEF vars
  <2> QED BY <2>1, <2>2 DEF Inductive
<1>2. CASE Next
  BY <1>2, SourceStep, ComesAndGoes, OnIntervalStep, TakeFrameStep, LoseStep,
     ReadDatagramStep DEF Next
<1> QED BY <1>1, <1>2

\* The inductive invariant holds in every reachable state.
THEOREM InductiveHolds == Spec => []Inductive
  BY InitInductive, InductiveStep, PTL DEF Spec

\* Every variable keeps its type: in particular a page never takes more bytes
\* from a stream than it has read, nor makes a packet of bytes that are none.
THEOREM RelayTypeCorrect == Spec => []TypeOK
<1>1. Inductive => TypeOK
  BY DEF Inductive
<1> QED BY <1>1, InductiveHolds, PTL

\* The page of the stream example finds every frame where it begins, for every
\* way of cutting the stream, every refusal of Write, every number of viewers.
THEOREM StreamStaysInSync == Spec => []StreamInSync
<1>1. Inductive => StreamInSync
  <2> SUFFICES ASSUME Inductive, transport = "stream", NEW v \in Viewers
               PROVE  IsPrefix(got[v], written[v])
    BY DEF StreamInSync
  <2>1. /\ got[v] \in Seq(Numbers) /\ written[v] \in Seq(Numbers)
        /\ Len(got[v]) <= Len(written[v])
        /\ \A i \in 1..Len(got[v]) : got[v][i] = written[v][i]
    BY DEF Inductive, TypeOK, FramedOf
  <2> QED BY <2>1 DEF IsPrefix
<1> QED BY <1>1, InductiveHolds, PTL

\* The page of the datagram example never decodes packets of two pictures, or
\* packets with one missing between them, as one, however datagrams are lost
\* and reordered, and where sequence numbers wrap around.
THEOREM PicturesStayApart == Spec => []PicturesAreNotMixed
<1>1. Inductive => PicturesAreNotMixed
  BY DEF Inductive, CollectedOf, PicturesAreNotMixed
<1> QED BY <1>1, InductiveHolds, PTL

\* What is read of a picture is held, in every reachable state.
THEOREM WholeHolds == Spec => []WholeInv
<1>1. Init => WholeInv
  BY InitWhole
<1>2. Inductive /\ WholeInv /\ [Next]_vars => WholeInv'
  BY WholeStep
<1> QED BY <1>1, <1>2, InductiveHolds, PTL DEF Spec

\* A picture whose packets a page reads one after the other is decoded whole:
\* on a stream behind another picture, by datagrams whatever was lost or
\* dropped before it, for any number of packets, with or without padding.
THEOREM WholePicturesReachDecoder == Spec => []WholePicturesAreDecoded
<1>1. Inductive /\ WholeInv => WholePicturesAreDecoded
  <2> SUFFICES ASSUME Inductive, WholeInv, NEW v \in Viewers,
                      NEW i \in DOMAIN got[v], WholeUpTo(v, i)
               PROVE  Contains(decoded[v],
                               EndingAt(got[v][i], source[got[v][i]].part))
    BY DEF WholePicturesAreDecoded, EndingAt
  <2>1. got[v] \in Seq(Numbers)
    BY DEF Inductive, TypeOK
  <2>2. i \in 1..Len(got[v]) /\ i \in Nat /\ got[v][i] \in Numbers
    BY <2>1
  <2> DEFINE k == got[v][i]
             r == source[k].part
  <2>3. r \in Nat
    <3>1. source[k] \in [frame : Nat, part : 0..MaxParts,
                         tail : BOOLEAN, empty : BOOLEAN]
      BY <2>2, ElementOfSeq DEF Inductive, TypeOK, Numbers
    <3> QED BY <3>1, ConstantsAssumption
  <2>4. r >= 1
    BY <2>2 DEF WholeUpTo, Carries, WholeInv, PartsInv
  <2>5. /\ r <= i /\ IsTail(k)
        /\ \A j \in 1..r : got[v][i - r + j] = k - r + j /\ Carries(k - r + j)
        /\ transport = "stream" /\ r < i => IsTail(got[v][i - r])
    BY DEF WholeUpTo
  <2>6. r \in 1..i
    BY <2>2, <2>3, <2>4, <2>5
  <2>7. RunTo(v, i, r)
    BY <2>5, <2>6 DEF RunTo
  <2>8. WholeIsDecoded(v)
    BY DEF WholeInv, WholeOf
  <2> QED BY <2>2, <2>5, <2>6, <2>7, <2>8 DEF WholeIsDecoded
<1> QED BY <1>1, InductiveHolds, WholeHolds, PTL
=============================================================================
