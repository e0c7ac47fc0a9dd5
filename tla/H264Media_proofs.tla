-------------------------- MODULE H264Media_proofs --------------------------
(* Proofs about H264Media, for any buffers, any MTU above two, any number   *)
(* of calls and any loss and reordering.  First what every step needs: the  *)
(* scan for start codes stays inside the buffer, the payloads fit the MTU,  *)
(* and all variables keep their types.  Then what sender and receiver       *)
(* promise: the scan is the split of the buffer, parameter sets are fresh,  *)
(* damage is contained, and nothing is lost or changed if the network loses *)
(* nothing.                                                                 *)
EXTENDS H264Media, FiniteSetTheorems, SequenceTheorems, WellFoundedInduction, TLAPS

-----------------------------------------------------------------------------
(* Numbers and sequences.                                                   *)

\* A set of positions that is not empty has a least one: the start code that
\* the scan meets first.
LEMMA LeastPosition ==
  ASSUME NEW S \in SUBSET Nat, S # {}
  PROVE  Min(S) \in S /\ \A y \in S : Min(S) <= y
<1>1. PICK x \in S : \A y \in S : ~(<<y, x>> \in OpToRel(<, Nat))
  BY NatLessThanWellFounded, WFMin
<1>2. ASSUME NEW y \in S, y < x PROVE FALSE
  <2>1. <<y, x>> \in Nat \X Nat /\ <<y, x>>[1] = y /\ <<y, x>>[2] = x
    OBVIOUS
  <2>2. <<y, x>> \in OpToRel(<, Nat)
    BY <1>2, <2>1, Zenon DEF OpToRel
  <2> QED BY <1>1, <2>2
<1>3. \A y \in S : x <= y
  BY <1>2
<1> QED BY <1>3 DEF Min

\* A sequence without one of its elements, as the network loses or hands over
\* a packet, has the others.
LEMMA RemoveAtType ==
  ASSUME NEW S, NEW s \in Seq(S), NEW i \in DOMAIN s
  PROVE  RemoveAt(s, i) \in Seq(S)
<1>1. i \in 1..Len(s) /\ Len(s) \in Nat
  OBVIOUS
<1>2. SubSeq(s, 1, i - 1) \in Seq(S)
  BY <1>1, SubSeqProperties
<1>3. SubSeq(s, i + 1, Len(s)) \in Seq(S)
  BY <1>1, SubSeqProperties
<1> QED BY <1>2, <1>3 DEF RemoveAt

\* A part of a sequence of bytes is one, and its length is known.
LEMMA PartOfBytes ==
  ASSUME NEW p \in Seq(Nat), NEW m \in Nat \ {0}, NEW n \in 0..Len(p)
  PROVE  /\ SubSeq(p, m, n) \in Seq(Nat)
         /\ Len(SubSeq(p, m, n)) = IF m <= n THEN n - m + 1 ELSE 0
<1>1. \A i \in m..n : p[i] \in Nat
  OBVIOUS
<1> QED BY <1>1, SubSeqProperties

\* Three of anything, put together as the aggregate does it.
LEMMA ThreeInOne ==
  ASSUME NEW S, NEW x \in S, NEW y \in S, NEW z \in S
  PROVE  /\ Append(<<x, y>>, z) = <<x, y, z>>
         /\ <<x>> \o <<y>> \o <<z>> = <<x, y, z>>
<1>1. <<x>> \in Seq(S) /\ <<y>> \in Seq(S) /\ <<z>> \in Seq(S)
      /\ <<x, y>> \in Seq(S) /\ <<x, y, z>> \in Seq(S)
      /\ Len(<<x>>) = 1 /\ Len(<<y>>) = 1 /\ Len(<<z>>) = 1
      /\ Len(<<x, y>>) = 2 /\ Len(<<x, y, z>>) = 3
  OBVIOUS
<1>2. Append(<<x, y>>, z) = <<x, y, z>>
  <2>1. /\ Append(<<x, y>>, z) \in Seq(S) /\ Len(Append(<<x, y>>, z)) = 3
        /\ \A i \in 1..2 : Append(<<x, y>>, z)[i] = <<x, y>>[i]
        /\ Append(<<x, y>>, z)[3] = z
    BY <1>1, AppendProperties
  <2>2. \A i \in 1..3 : Append(<<x, y>>, z)[i] = <<x, y, z>>[i]
    BY <2>1
  <2> QED BY <1>1, <2>1, <2>2, SeqEqual
<1>3. <<x>> \o <<y>> = <<x, y>>
  <2>1. /\ <<x>> \o <<y>> \in Seq(S) /\ Len(<<x>> \o <<y>>) = 2
        /\ \A i \in 1..2 : (<<x>> \o <<y>>)[i] = IF i <= 1 THEN x ELSE y
    BY <1>1, ConcatProperties
  <2>2. \A i \in 1..2 : (<<x>> \o <<y>>)[i] = <<x, y>>[i]
    BY <2>1
  <2> QED BY <1>1, <2>1, <2>2, SeqEqual
<1>4. <<x, y>> \o <<z>> = <<x, y, z>>
  BY <1>1, <1>2, AppendIsConcat
<1> QED BY <1>2, <1>3, <1>4

-----------------------------------------------------------------------------
(* The scan.                                                                *)

\* What the scan finds, from the beginning of a buffer or from a start code
\* inside it, is a later start code or the end of the buffer, and there is a
\* place between for the unit.
LEMMA NextStartFound ==
  ASSUME NEW p \in Seq(Nat), NEW f \in Nat, f < Len(p), f = 0 \/ IsCode(p, f)
  PROVE  /\ NextStart(p, f) \in 1..Len(p)
         /\ f < NextStart(p, f)
         /\ Offset(p, f) \in Nat
         /\ f + Offset(p, f) <= NextStart(p, f)
         /\ NextStart(p, f) = Len(p) \/ IsCode(p, NextStart(p, f))
<1>1. Offset(p, f) \in {0, 3, 4} /\ Len(p) \in Nat
  BY DEF Offset
<1>2. f + Offset(p, f) <= Len(p)
  BY DEF Offset, IsLongCode, IsCode
<1>3. CASE Hits(p, f) = {}
  BY <1>1, <1>2, <1>3 DEF NextStart
<1>4. CASE Hits(p, f) # {}
  <2> DEFINE i == Min(Hits(p, f))
  <2>1. Hits(p, f) \in SUBSET Nat
    BY DEF Hits
  <2>2. i \in Hits(p, f)
    BY <1>4, <2>1, LeastPosition
  <2>3. i \in 0..Len(p) - 1 /\ f + 3 <= i /\ CodeEnds(p, i)
    BY <2>2 DEF Hits
  <2> HIDE DEF i
  <2>4. IsLongCode(p, i - 1) => IsCode(p, i)
    <3>1. i - 1 + 3 = i + 2 /\ i - 1 + 1 = i /\ i - 1 + 2 = i + 1
      BY <2>3
    <3> QED BY <3>1 DEF IsLongCode, IsCode
  <2>5. IsCode(p, i)
    BY <2>3, <2>4 DEF CodeEnds
  <2>6. NextStart(p, f) = i
    BY <1>4, <2>5 DEF NextStart, i
  <2>7. IsLongCode(p, f) => f + 4 <= i
    <3>1. SUFFICES ASSUME IsLongCode(p, f), i = f + 3 PROVE FALSE
      BY <2>3
    <3> QED BY <3>1, <2>5 DEF IsLongCode, IsCode
  <2>8. f + Offset(p, f) <= i
    BY <1>1, <2>3, <2>7 DEF Offset
  <2> QED BY <1>1, <2>3, <2>5, <2>6, <2>8
<1> QED BY <1>3, <1>4

\* The unit in between is part of the buffer.
LEMMA NaluType ==
  ASSUME NEW p \in Seq(Nat), NEW f \in Nat, f < Len(p), f = 0 \/ IsCode(p, f)
  PROVE  Nalu(p, f) \in Seq(Nat)
<1>1. NextStart(p, f) \in 0..Len(p) /\ Offset(p, f) \in Nat
  BY NextStartFound
<1> QED BY <1>1, PartOfBytes DEF Nalu

-----------------------------------------------------------------------------
(* Payloads.  Those that may be in the network when n units were found.     *)
Whole(n) ==
  {pkt \in [kind : {"single", "stapa"}, ids : Seq(1..n), nalus : Seq(Seq(Nat))] :
     Len(pkt.ids) = Len(pkt.nalus) /\ pkt.ids # <<>>}

Fragments(n) ==
  [kind : {"fua"}, id : 1..n, type : Nat, part : Nat, s : BOOLEAN, e : BOOLEAN,
   data : Seq(Nat)]

Fitting(n) == {pkt \in Whole(n) \cup Fragments(n) : PacketSize(pkt) <= Mtu}

\* What may be there stays so when more units are found.
LEMMA FittingGrows ==
  ASSUME NEW m \in Nat, NEW n \in Nat, m <= n
  PROVE  Fitting(m) \subseteq Fitting(n)
<1>1. 1..m \subseteq 1..n
  OBVIOUS
<1>2. Seq(1..m) \subseteq Seq(1..n)
  BY <1>1, SeqMonotonic
<1> QED BY <1>1, <1>2 DEF Fitting, Whole, Fragments

\* A unit that is no larger than the MTU, alone.
LEMMA SingleFits ==
  ASSUME NEW n \in Nat, NEW id \in 1..n, NEW nalu \in Seq(Nat), Len(nalu) <= Mtu
  PROVE  Single(id, nalu) \in Fitting(n)
<1>1. <<id>> \in Seq(1..n) /\ <<nalu>> \in Seq(Seq(Nat))
  OBVIOUS
<1>2. /\ Single(id, nalu).kind = "single"
      /\ Single(id, nalu).nalus[1] = nalu
  BY DEF Single
<1>3. Single(id, nalu) \in Whole(n)
  BY <1>1 DEF Single, Whole
<1> QED BY <1>2, <1>3 DEF Fitting, PacketSize

\* Three units that together are no larger, in one packet.
LEMMA AggregateFits ==
  ASSUME NEW n \in Nat, NEW a \in 1..n, NEW b \in 1..n, NEW c \in 1..n,
         NEW x \in Seq(Nat), NEW y \in Seq(Nat), NEW z \in Seq(Nat),
         AggregateSize(<<x, y, z>>) <= Mtu
  PROVE  Aggregate(<<a, b, c>>, <<x, y, z>>) \in Fitting(n)
<1> DEFINE pkt == Aggregate(<<a, b, c>>, <<x, y, z>>)
<1>1. <<a, b, c>> \in Seq(1..n) /\ <<x, y, z>> \in Seq(Seq(Nat))
  OBVIOUS
<1>2. pkt.kind = "stapa" /\ pkt.nalus = <<x, y, z>>
  BY DEF Aggregate
<1>3. pkt \in Whole(n)
  BY <1>1 DEF Aggregate, Whole
<1> QED BY <1>2, <1>3 DEF Fitting, PacketSize

\* Each fragment of a unit that is larger than the MTU.
LEMMA FragmentsFit ==
  ASSUME NEW n \in Nat, NEW id \in 1..n, NEW nalu \in Seq(Nat), Len(nalu) > Mtu
  PROVE  CreateFUAPackets(id, nalu) \in Seq(Fitting(n))
<1>1. /\ MaxFragment \in Nat \ {0} /\ MaxFragment + 2 = Mtu
      /\ Len(nalu) \in Nat /\ Len(nalu) - 2 \in Nat
  BY MtuAssumption DEF MaxFragment
<1>2. FragmentCount(nalu) \in Nat
  <2>1. (Len(nalu) - 2) \div MaxFragment \in Nat
    BY <1>1
  <2> QED BY <2>1 DEF FragmentCount
<1>3. ASSUME NEW k \in 1..FragmentCount(nalu)
      PROVE  Fragment(id, nalu, k) \in Fitting(n)
  <2> DEFINE first == (k - 1) * MaxFragment + 2
             end == Least(first + MaxFragment - 1, Len(nalu))
  <2>1. first \in Nat \ {0}
    <3>1. k - 1 \in Nat
      BY <1>2
    <3>2. (k - 1) * MaxFragment \in Nat
      BY <1>1, <3>1
    <3> QED BY <3>2
  <2>2. end \in 0..Len(nalu) /\ end <= first + MaxFragment - 1
    BY <1>1, <2>1 DEF Least
  <2> HIDE DEF first, end
  <2>3. /\ SubSeq(nalu, first, end) \in Seq(Nat)
        /\ Len(SubSeq(nalu, first, end))
             = IF first <= end THEN end - first + 1 ELSE 0
    BY <2>1, <2>2, PartOfBytes
  <2>4. Len(SubSeq(nalu, first, end)) <= MaxFragment
    BY <1>1, <2>1, <2>2, <2>3
  <2>5. Data(nalu, first) = SubSeq(nalu, first, end)
    BY DEF Data, end
  <2>6. Fragment(id, nalu, k).kind = "fua"
        /\ Fragment(id, nalu, k).data = Data(nalu, first)
    BY DEF Fragment, first
  <2>7. nalu[1] \in Nat /\ k \in Nat
    BY <1>1, <1>2, MtuAssumption
  <2>8. Fragment(id, nalu, k) \in Fragments(n)
    <3>1. Data(nalu, (k - 1) * MaxFragment + 2) \in Seq(Nat)
      BY <2>3, <2>5 DEF first
    <3>2. (k = 1) \in BOOLEAN /\ (k = FragmentCount(nalu)) \in BOOLEAN
      OBVIOUS
    <3> QED BY <2>7, <3>1, <3>2 DEF Fragment, Fragments
  <2>9. PacketSize(Fragment(id, nalu, k)) = 2 + Len(SubSeq(nalu, first, end))
    BY <2>5, <2>6 DEF PacketSize
  <2> QED BY <1>1, <2>3, <2>4, <2>8, <2>9 DEF Fitting
<1> QED BY <1>2, <1>3 DEF CreateFUAPackets

-----------------------------------------------------------------------------
(* The inductive invariant.                                                 *)

\* The loop of EmitNALUs stands at the beginning of the buffer, at a start
\* code or at the end: it has to know this, because anywhere else it would
\* skip three bytes that need not be there.
AtStartCode == start = 0 \/ start = Len(payload) \/ IsCode(payload, start)

\* The packets in the network have the form and the size of a payload.
WireFits == wire \in Seq(Fitting(Len(found)))

Inductive == TypeOK /\ AtStartCode /\ WireFits

\* The inductive invariant holds at the start.
LEMMA InitInductive == Init => Inductive
<1> SUFFICES ASSUME Init PROVE Inductive
  OBVIOUS
<1>1. payload = <<>> /\ start = 0 /\ calls = 0 /\ disable_stapa_ \in BOOLEAN
      /\ sps_nalu_ = <<>> /\ pps_nalu_ = <<>> /\ found = <<>> /\ wire = <<>>
      /\ fua_buffer_ = <<>> /\ delivered = <<>> /\ arrived = <<>> /\ faults = 0
  BY DEF Init, PayloaderInit
<1>2. calls \in 0..MaxCalls /\ faults \in 0..MaxFaults
  BY <1>1, FramesAssumption, FaultsAssumption
<1>3. payload \in Seq(Nat) /\ found \in Seq(Seq(Nat) \ {<<>>})
      /\ fua_buffer_ \in Seq(Nat)
      /\ delivered \in Seq([id : Ids, nalu : Seq(Nat)])
      /\ arrived \in Seq([id : Ids, part : Nat, e : BOOLEAN])
      /\ wire \in Seq(Fitting(Len(found)))
  BY <1>1, EmptySeq
<1>4. start \in 0..Len(payload)
  BY <1>1
<1> QED BY <1>1, <1>2, <1>3, <1>4 DEF Inductive, TypeOK, AtStartCode, WireFits

\* More units found: what refers to earlier ones keeps its type.
LEMMA FoundGrows ==
  ASSUME Inductive, found' \in Seq(Seq(Nat) \ {<<>>}), Len(found) <= Len(found')
  PROVE  /\ Ids \subseteq Ids'
         /\ UNCHANGED delivered =>
              delivered' \in Seq([id : Ids', nalu : Seq(Nat)])
         /\ UNCHANGED arrived =>
              arrived' \in Seq([id : Ids', part : Nat, e : BOOLEAN])
         /\ wire \in Seq(Fitting(Len(found')))
<1>1. Len(found) \in Nat /\ Len(found') \in Nat
  BY DEF Inductive, TypeOK
<1>2. Ids \subseteq Ids'
  BY <1>1 DEF Ids
<1>3. Seq([id : Ids, nalu : Seq(Nat)]) \subseteq Seq([id : Ids', nalu : Seq(Nat)])
  <2>1. [id : Ids, nalu : Seq(Nat)] \subseteq [id : Ids', nalu : Seq(Nat)]
    BY <1>2
  <2> QED BY <2>1, SeqMonotonic
<1>4. Seq([id : Ids, part : Nat, e : BOOLEAN])
        \subseteq Seq([id : Ids', part : Nat, e : BOOLEAN])
  <2>1. [id : Ids, part : Nat, e : BOOLEAN]
          \subseteq [id : Ids', part : Nat, e : BOOLEAN]
    BY <1>2
  <2> QED BY <2>1, SeqMonotonic
<1>5. wire \in Seq(Fitting(Len(found')))
  BY <1>1, FittingGrows, SeqMonotonic DEF Inductive, WireFits
<1> QED BY <1>2, <1>3, <1>4, <1>5 DEF Inductive, TypeOK

\* A turn of the loop goes to a later start code or the end, and the unit it
\* found has the next number.
LEMMA TurnOfLoop ==
  ASSUME Inductive, Scanning, Advance
  PROVE  /\ payload' \in Seq(Nat) /\ start' \in 0..Len(payload')
         /\ AtStartCode'
         /\ found' \in Seq(Seq(Nat) \ {<<>>}) /\ Len(found) <= Len(found')
         /\ ThisNalu \in Seq(Nat)
         /\ ThisNalu # <<>> => ThisId \in Ids'
         /\ \A i \in Ids : found[i] \in Seq(Nat)
<1>1. /\ payload \in Seq(Nat) /\ start \in Nat /\ start < Len(payload)
      /\ start = 0 \/ IsCode(payload, start)
      /\ found \in Seq(Seq(Nat) \ {<<>>}) /\ Len(found) \in Nat
  BY DEF Inductive, TypeOK, Scanning, AtStartCode
<1>2. /\ NextStart(payload, start) \in 1..Len(payload)
      /\ NextStart(payload, start) = Len(payload)
           \/ IsCode(payload, NextStart(payload, start))
  BY <1>1, NextStartFound
<1>3. payload' = payload /\ start' = NextStart(payload, start)
  BY DEF Advance
<1>4. AtStartCode'
  BY <1>2, <1>3 DEF AtStartCode, IsCode, Byte
<1>5. ThisNalu \in Seq(Nat)
  BY <1>1, NaluType DEF ThisNalu
<1>6. CASE ThisNalu = <<>>
  BY <1>1, <1>2, <1>3, <1>4, <1>5, <1>6 DEF Advance, ThisNalu, Ids
<1>7. CASE ThisNalu # <<>>
  <2>1. found' = Append(found, ThisNalu)
    BY <1>7 DEF Advance, ThisNalu
  <2>2. found' \in Seq(Seq(Nat) \ {<<>>}) /\ Len(found') = Len(found) + 1
    BY <1>1, <1>5, <1>7, <2>1
  <2>3. ThisId \in Ids'
    BY <1>1, <2>2 DEF ThisId, Ids
  <2>4. \A i \in Ids : found[i] \in Seq(Nat)
    BY <1>1 DEF Ids
  <2> QED BY <1>1, <1>2, <1>3, <1>4, <1>5, <2>2, <2>3, <2>4
<1> QED BY <1>6, <1>7

\* A turn that sends nothing, or packets that fit, and holds units found.
LEMMA TurnKeeps ==
  ASSUME Inductive, Scanning, Advance,
         sps_nalu_' \in {<<>>} \cup {<<i>> : i \in Ids'},
         pps_nalu_' \in {<<>>} \cup {<<i>> : i \in Ids'},
         wire' \in Seq(Fitting(Len(found'))),
         UNCHANGED <<fua_buffer_, delivered, arrived, faults>>
  PROVE  Inductive'
<1>1. /\ payload' \in Seq(Nat) /\ start' \in 0..Len(payload')
      /\ AtStartCode'
      /\ found' \in Seq(Seq(Nat) \ {<<>>}) /\ Len(found) <= Len(found')
  BY TurnOfLoop
<1>2. /\ delivered' \in Seq([id : Ids', nalu : Seq(Nat)])
      /\ arrived' \in Seq([id : Ids', part : Nat, e : BOOLEAN])
  BY <1>1, FoundGrows
<1>3. /\ calls' \in 0..MaxCalls /\ disable_stapa_' \in BOOLEAN
      /\ fua_buffer_' \in Seq(Nat) /\ faults' \in 0..MaxFaults
  BY DEF Inductive, TypeOK, Advance
<1>4. TypeOK'
  BY <1>1, <1>2, <1>3 DEF TypeOK
<1> QED BY <1>1, <1>4 DEF Inductive, WireFits

\* The sets that are held stay units found.
LEMMA HeldStay ==
  ASSUME Inductive, Scanning, Advance
  PROVE  /\ sps_nalu_ \in {<<>>} \cup {<<i>> : i \in Ids'}
         /\ pps_nalu_ \in {<<>>} \cup {<<i>> : i \in Ids'}
         /\ wire \in Seq(Fitting(Len(found')))
<1>1. found' \in Seq(Seq(Nat) \ {<<>>}) /\ Len(found) <= Len(found')
  BY TurnOfLoop
<1>2. Ids \subseteq Ids' /\ wire \in Seq(Fitting(Len(found')))
  BY <1>1, FoundGrows
<1> QED BY <1>2 DEF Inductive, TypeOK

\* The packetizer scans, holds or sends.
LEMMA PayloaderStep ==
  ASSUME Inductive, PayloaderNext,
         UNCHANGED <<fua_buffer_, delivered, arrived, faults>>
  PROVE  Inductive'
<1>1. ASSUME NEW frame, Payload(frame) PROVE Inductive'
  <2>1. frame \in Seq(Nat) /\ calls + 1 \in 0..MaxCalls
    BY <1>1, FramesAssumption DEF Inductive, TypeOK, Payload
  <2>2. payload' \in Seq(Nat) /\ start' = 0 /\ start' \in 0..Len(payload')
        /\ calls' \in 0..MaxCalls
    BY <1>1, <2>1 DEF Payload
  <2>3. AtStartCode'
    BY <2>2 DEF AtStartCode
  <2>4. UNCHANGED <<disable_stapa_, sps_nalu_, pps_nalu_, found, wire,
                    fua_buffer_, delivered, arrived, faults>>
    BY <1>1 DEF Payload
  <2>5. TypeOK'
    BY <2>2, <2>4 DEF Inductive, TypeOK, Ids
  <2>6. WireFits'
    BY <2>4 DEF Inductive, WireFits
  <2> QED BY <2>3, <2>5, <2>6 DEF Inductive
<1>2. ASSUME SkipNalu PROVE Inductive'
  <2>1. Scanning /\ Advance /\ UNCHANGED <<sps_nalu_, pps_nalu_, wire>>
    BY <1>2 DEF SkipNalu
  <2> QED BY <2>1, HeldStay, TurnKeeps
<1>3. ASSUME SetSPS PROVE Inductive'
  <2>1. Scanning /\ Advance /\ UNCHANGED <<pps_nalu_, wire>>
        /\ ThisNalu # <<>> /\ sps_nalu_' = <<ThisId>>
    BY <1>3 DEF SetSPS
  <2>2. ThisId \in Ids'
    BY <2>1, TurnOfLoop
  <2> QED BY <2>1, <2>2, HeldStay, TurnKeeps
<1>4. ASSUME SetPPS PROVE Inductive'
  <2>1. Scanning /\ Advance /\ UNCHANGED <<sps_nalu_, wire>>
        /\ ThisNalu # <<>> /\ pps_nalu_' = <<ThisId>>
    BY <1>4 DEF SetPPS
  <2>2. ThisId \in Ids'
    BY <2>1, TurnOfLoop
  <2> QED BY <2>1, <2>2, HeldStay, TurnKeeps
<1>5. ASSUME Sendable, Advance
      PROVE  /\ Scanning
             /\ found' \in Seq(Seq(Nat) \ {<<>>})
             /\ Len(found') \in Nat
             /\ ThisNalu \in Seq(Nat) /\ ThisId \in 1..Len(found')
  <2>1. Scanning /\ ThisNalu # <<>>
    BY <1>5 DEF Sendable
  <2> QED BY <1>5, <2>1, TurnOfLoop DEF Ids
<1>6. ASSUME SendAggregate PROVE Inductive'
  <2>1. Sendable /\ Advance /\ Aggregates
    BY <1>6 DEF SendAggregate
  <2>2. PICK a \in Ids : sps_nalu_ = <<a>>
    BY <2>1 DEF Aggregates, Inductive, TypeOK
  <2>3. PICK b \in Ids : pps_nalu_ = <<b>>
    BY <2>1 DEF Aggregates, Inductive, TypeOK
  <2>4. found[a] \in Seq(Nat) /\ found[b] \in Seq(Nat)
        /\ a \in 1..Len(found') /\ b \in 1..Len(found')
    <3>1. Ids \subseteq Ids'
      BY <1>5, <2>1, FoundGrows, TurnOfLoop
    <3> QED BY <1>5, <2>1, <3>1, TurnOfLoop DEF Ids
  <2>5. Append(Held, ThisNalu) = <<found[a], found[b], ThisNalu>>
    <3>1. Held = <<found[a], found[b]>>
      BY <2>2, <2>3 DEF Held
    <3> QED BY <1>5, <2>1, <2>4, <3>1, ThreeInOne
  <2>6. sps_nalu_ \o pps_nalu_ \o <<ThisId>> = <<a, b, ThisId>>
    BY <1>5, <2>1, <2>2, <2>3, <2>4, ThreeInOne
  <2>7. AggregateSize(<<found[a], found[b], ThisNalu>>) <= Mtu
    BY <2>1, <2>5 DEF Aggregates
  <2>8. Aggregate(<<a, b, ThisId>>, <<found[a], found[b], ThisNalu>>)
          \in Fitting(Len(found'))
    BY <1>5, <2>1, <2>4, <2>7, AggregateFits
  <2>9. wire' \in Seq(Fitting(Len(found')))
    <3>1. wire' = Append(wire, Aggregate(<<a, b, ThisId>>,
                                 <<found[a], found[b], ThisNalu>>))
      BY <1>6, <2>5, <2>6 DEF SendAggregate
    <3> QED BY <1>5, <2>1, <2>8, <3>1, HeldStay, AppendProperties
  <2>10. sps_nalu_' = <<>> /\ pps_nalu_' = <<>>
    BY <1>6 DEF SendAggregate
  <2> QED BY <1>5, <2>1, <2>9, <2>10, TurnKeeps
<1>7. ASSUME SendSingle PROVE Inductive'
  <2>1. Sendable /\ Advance /\ UNCHANGED <<sps_nalu_, pps_nalu_>>
        /\ wire' = Append(wire, Single(ThisId, ThisNalu))
        /\ Len(ThisNalu) <= Mtu
    BY <1>7 DEF SendSingle
  <2>2. Single(ThisId, ThisNalu) \in Fitting(Len(found'))
    BY <1>5, <2>1, SingleFits
  <2>3. wire' \in Seq(Fitting(Len(found')))
    BY <1>5, <2>1, <2>2, HeldStay, AppendProperties
  <2> QED BY <1>5, <2>1, <2>3, HeldStay, TurnKeeps
<1>8. ASSUME SendFragments PROVE Inductive'
  <2>1. Sendable /\ Advance /\ UNCHANGED <<sps_nalu_, pps_nalu_>>
        /\ wire' = wire \o CreateFUAPackets(ThisId, ThisNalu)
        /\ Len(ThisNalu) > Mtu
    BY <1>8 DEF SendFragments
  <2>2. CreateFUAPackets(ThisId, ThisNalu) \in Seq(Fitting(Len(found')))
    BY <1>5, <2>1, FragmentsFit
  <2>3. wire' \in Seq(Fitting(Len(found')))
    BY <1>5, <2>1, <2>2, HeldStay, ConcatProperties
  <2> QED BY <1>5, <2>1, <2>3, HeldStay, TurnKeeps
<1> QED BY <1>1, <1>2, <1>3, <1>4, <1>6, <1>7, <1>8 DEF PayloaderNext

-----------------------------------------------------------------------------
(* The network and the client.                                              *)

\* Taking a packet away, what is left and what is written keep their types.
LEMMA WireStep ==
  ASSUME Inductive, ReceiverUnchanged, faults' \in 0..MaxFaults,
         NEW i \in DOMAIN wire, wire' = RemoveAt(wire, i),
         fua_buffer_' \in Seq(Nat),
         delivered' \in Seq([id : Ids, nalu : Seq(Nat)]),
         arrived' \in Seq([id : Ids, part : Nat, e : BOOLEAN])
  PROVE  Inductive'
<1>1. UNCHANGED <<payload, start, calls, disable_stapa_, sps_nalu_, pps_nalu_,
                  found>> /\ Ids' = Ids
  BY DEF ReceiverUnchanged, Ids
<1>2. wire' \in Seq(Fitting(Len(found)))
  BY RemoveAtType DEF Inductive, WireFits
<1>3. TypeOK'
  BY <1>1 DEF Inductive, TypeOK
<1>4. AtStartCode'
  BY <1>1 DEF Inductive, AtStartCode, IsCode, Byte
<1>5. WireFits'
  BY <1>1, <1>2 DEF WireFits
<1> QED BY <1>3, <1>4, <1>5 DEF Inductive

\* A packet that is there has the form of one.
LEMMA OnWire ==
  ASSUME Inductive, NEW i \in DOMAIN wire
  PROVE  /\ wire[i] \in Whole(Len(found)) \cup Fragments(Len(found))
         /\ PacketSize(wire[i]) <= Mtu
<1>1. wire[i] \in Fitting(Len(found))
  BY DEF Inductive, WireFits
<1> QED BY <1>1 DEF Fitting

\* A datagram leaves the wire.
LEMMA TakeStep ==
  ASSUME Inductive, NEW i \in DOMAIN wire, Take(i)
  PROVE  wire' = RemoveAt(wire, i) /\ faults' \in 0..MaxFaults
<1>1. i \in Nat /\ faults \in 0..MaxFaults
  BY DEF Inductive, TypeOK, WireFits
<1> QED BY <1>1, FaultsAssumption DEF Take

\* A datagram is lost or received.
LEMMA NetworkStep ==
  ASSUME Inductive,
         \/ Lose
         \/ \E i \in DOMAIN wire : ReceiveSingle(i)
         \/ \E i \in DOMAIN wire : ReceiveAggregate(i)
         \/ \E i \in DOMAIN wire : ReceiveFragment(i)
         \/ \E i \in DOMAIN wire : ReceiveLastFragment(i)
  PROVE  Inductive'
<1>1. /\ fua_buffer_ \in Seq(Nat)
      /\ delivered \in Seq([id : Ids, nalu : Seq(Nat)])
      /\ arrived \in Seq([id : Ids, part : Nat, e : BOOLEAN])
      /\ Ids = 1..Len(found)
  BY DEF Inductive, TypeOK, Ids
<1>2. ASSUME Lose PROVE Inductive'
  <2>1. PICK i \in DOMAIN wire : wire' = RemoveAt(wire, i)
    BY <1>2 DEF Lose
  <2>2. faults' \in 0..MaxFaults
    BY <1>2, FaultsAssumption DEF Lose, Inductive, TypeOK
  <2>3. ReceiverUnchanged /\ UNCHANGED <<fua_buffer_, delivered, arrived>>
    BY <1>2 DEF Lose, ReceiverUnchanged
  <2> QED BY <1>1, <2>1, <2>2, <2>3, WireStep
<1>3. ASSUME NEW i \in DOMAIN wire, ReceiveSingle(i) PROVE Inductive'
  <2>1. wire' = RemoveAt(wire, i) /\ faults' \in 0..MaxFaults
        /\ ReceiverUnchanged /\ UNCHANGED <<fua_buffer_, arrived>>
    BY <1>3, TakeStep DEF ReceiveSingle
  <2>2. wire[i] \in Whole(Len(found))
    BY <1>3, OnWire DEF ReceiveSingle, Fragments
  <2>3. wire[i].ids[1] \in Ids /\ wire[i].nalus[1] \in Seq(Nat)
    <3>1. /\ wire[i].ids \in Seq(Ids) /\ wire[i].nalus \in Seq(Seq(Nat))
          /\ wire[i].ids # <<>> /\ Len(wire[i].ids) = Len(wire[i].nalus)
      BY <1>1, <2>2 DEF Whole
    <3> QED BY <3>1
  <2>4. delivered' \in Seq([id : Ids, nalu : Seq(Nat)])
    <3> DEFINE unit == [id |-> wire[i].ids[1], nalu |-> wire[i].nalus[1]]
    <3>1. unit \in [id : Ids, nalu : Seq(Nat)]
      BY <2>3
    <3>2. delivered' = delivered \/ delivered' = Append(delivered, unit)
      BY <1>3 DEF ReceiveSingle
    <3> HIDE DEF unit
    <3>3. Append(delivered, unit) \in Seq([id : Ids, nalu : Seq(Nat)])
      BY <1>1, <3>1, AppendProperties
    <3> QED BY <1>1, <3>2, <3>3
  <2> QED BY <1>1, <2>1, <2>4, WireStep
<1>4. ASSUME NEW i \in DOMAIN wire, ReceiveAggregate(i) PROVE Inductive'
  <2>1. wire' = RemoveAt(wire, i) /\ faults' \in 0..MaxFaults
        /\ ReceiverUnchanged /\ UNCHANGED <<fua_buffer_, arrived>>
    BY <1>4, TakeStep DEF ReceiveAggregate
  <2>2. wire[i] \in Whole(Len(found))
    BY <1>4, OnWire DEF ReceiveAggregate, Fragments
  <2>3. /\ wire[i].ids \in Seq(Ids) /\ wire[i].nalus \in Seq(Seq(Nat))
        /\ Len(wire[i].ids) = Len(wire[i].nalus)
    BY <1>1, <2>2 DEF Whole
  <2>4. [k \in DOMAIN wire[i].ids |->
           [id |-> wire[i].ids[k], nalu |-> wire[i].nalus[k]]]
          \in Seq([id : Ids, nalu : Seq(Nat)])
    <3>1. \A k \in DOMAIN wire[i].ids :
            [id |-> wire[i].ids[k], nalu |-> wire[i].nalus[k]]
              \in [id : Ids, nalu : Seq(Nat)]
      BY <2>3
    <3>2. DOMAIN wire[i].ids = 1..Len(wire[i].ids) /\ Len(wire[i].ids) \in Nat
      BY <2>3
    <3> QED BY <3>1, <3>2
  <2>5. delivered' \in Seq([id : Ids, nalu : Seq(Nat)])
    BY <1>1, <1>4, <2>4, ConcatProperties DEF ReceiveAggregate
  <2> QED BY <1>1, <2>1, <2>5, WireStep
<1>5. ASSUME NEW i \in DOMAIN wire, wire[i].kind = "fua"
      PROVE  /\ wire[i].id \in Ids /\ wire[i].part \in Nat
             /\ wire[i].e \in BOOLEAN /\ wire[i].type \in Nat
             /\ wire[i].data \in Seq(Nat)
  <2>1. wire[i] \in Fragments(Len(found))
    BY <1>5, OnWire DEF Whole
  <2> QED BY <1>1, <2>1 DEF Fragments
<1>6. ASSUME NEW i \in DOMAIN wire, wire[i].kind = "fua", Arrives(wire[i])
      PROVE  arrived' \in Seq([id : Ids, part : Nat, e : BOOLEAN])
  <2>1. [id |-> wire[i].id, part |-> wire[i].part, e |-> wire[i].e]
          \in [id : Ids, part : Nat, e : BOOLEAN]
    BY <1>5, <1>6
  <2> QED BY <1>1, <1>6, <2>1, AppendProperties DEF Arrives
<1>7. ASSUME NEW i \in DOMAIN wire, ReceiveFragment(i) PROVE Inductive'
  <2>1. wire' = RemoveAt(wire, i) /\ faults' \in 0..MaxFaults
        /\ ReceiverUnchanged /\ UNCHANGED delivered
        /\ wire[i].kind = "fua" /\ Arrives(wire[i])
    BY <1>7, TakeStep DEF ReceiveFragment
  <2>2. fua_buffer_' \in Seq(Nat)
    BY <1>1, <1>5, <1>7, <2>1, ConcatProperties DEF ReceiveFragment
  <2>3. arrived' \in Seq([id : Ids, part : Nat, e : BOOLEAN])
    BY <1>6, <2>1
  <2> QED BY <1>1, <2>1, <2>2, <2>3, WireStep
<1>8. ASSUME NEW i \in DOMAIN wire, ReceiveLastFragment(i) PROVE Inductive'
  <2>1. wire' = RemoveAt(wire, i) /\ faults' \in 0..MaxFaults
        /\ ReceiverUnchanged /\ fua_buffer_' = <<>>
        /\ wire[i].kind = "fua" /\ Arrives(wire[i])
    BY <1>8, TakeStep DEF ReceiveLastFragment
  <2>2. <<wire[i].type>> \o fua_buffer_ \o wire[i].data \in Seq(Nat)
    <3>1. <<wire[i].type>> \in Seq(Nat)
      BY <1>5, <2>1
    <3>2. <<wire[i].type>> \o fua_buffer_ \in Seq(Nat)
      BY <1>1, <3>1, ConcatProperties
    <3> QED BY <1>5, <2>1, <3>2, ConcatProperties
  <2>3. delivered' \in Seq([id : Ids, nalu : Seq(Nat)])
    <3>1. [id |-> wire[i].id,
           nalu |-> <<wire[i].type>> \o fua_buffer_ \o wire[i].data]
            \in [id : Ids, nalu : Seq(Nat)]
      BY <1>5, <2>1, <2>2
    <3> QED BY <1>1, <1>8, <3>1, AppendProperties DEF ReceiveLastFragment
  <2>4. arrived' \in Seq([id : Ids, part : Nat, e : BOOLEAN])
    BY <1>6, <2>1
  <2>5. fua_buffer_' \in Seq(Nat)
    BY <2>1
  <2> QED BY <2>1, <2>3, <2>4, <2>5, WireStep
<1> QED BY <1>2, <1>3, <1>4, <1>7, <1>8

-----------------------------------------------------------------------------
(* The theorems.                                                            *)
LEMMA InductiveStep == Inductive /\ [Next]_vars => Inductive'
<1> SUFFICES ASSUME Inductive, [Next]_vars PROVE Inductive'
  OBVIOUS
<1>1. CASE UNCHANGED vars
  BY <1>1 DEF vars, Inductive, TypeOK, AtStartCode, WireFits, Ids, IsCode, Byte
<1>2. CASE PayloaderNext /\ UNCHANGED <<fua_buffer_, delivered, arrived, faults>>
  BY <1>2, PayloaderStep
<1>3. CASE \/ Lose
           \/ \E i \in DOMAIN wire : ReceiveSingle(i)
           \/ \E i \in DOMAIN wire : ReceiveAggregate(i)
           \/ \E i \in DOMAIN wire : ReceiveFragment(i)
           \/ \E i \in DOMAIN wire : ReceiveLastFragment(i)
  BY <1>3, NetworkStep
<1> QED BY <1>1, <1>2, <1>3 DEF Next

\* The inductive invariant holds in every reachable state.
THEOREM InductiveHolds == Spec => []Inductive
  BY InitInductive, InductiveStep, PTL DEF Spec

\* Every variable of the H.264 path keeps its type: in particular a parameter
\* set that is held, and the unit a client writes, is one that the scan found.
THEOREM MediaTypeCorrect == Spec => []TypeOK
<1>1. Inductive => TypeOK
  BY DEF Inductive
<1> QED BY <1>1, InductiveHolds, PTL

\* The subtraction in EmitNALUs that gives the size of a unit never falls
\* below zero, no byte behind the buffer is read for it, and every turn of the
\* loop gets on: for every buffer.
THEOREM ScanStaysInBounds == Spec => []ScanInBounds
<1>1. Inductive => ScanInBounds
  <2> SUFFICES ASSUME Inductive, Scanning PROVE ScanInBounds
    BY DEF ScanInBounds
  <2>1. /\ payload \in Seq(Nat) /\ start \in Nat /\ start < Len(payload)
        /\ start = 0 \/ IsCode(payload, start)
    BY DEF Inductive, TypeOK, Scanning, AtStartCode
  <2>2. /\ NextStart(payload, start) \in 1..Len(payload)
        /\ start < NextStart(payload, start)
        /\ start + Offset(payload, start) <= NextStart(payload, start)
    BY <2>1, NextStartFound
  <2> QED BY <2>1, <2>2 DEF ScanInBounds
<1> QED BY <1>1, InductiveHolds, PTL

\* No payload that Payload makes is larger than the MTU it was given.
THEOREM PayloadsFitMtu == Spec => []PacketsFitMtu
<1>1. Inductive => PacketsFitMtu
  BY OnWire DEF PacketsFitMtu
<1> QED BY <1>1, InductiveHolds, PTL

-----------------------------------------------------------------------------
(* The scan is the split of the buffer at its start codes.                  *)

\* The pieces of the buffer that begin before the place where the scan stands.
DoneStarts(p, at) ==
  {i + 3 : i \in {c \in Codes(p) : c < at}}
    \cup (IF IsBare(p) /\ 0 < at THEN {0} ELSE {})

DoneFull(p, at) == {i \in DoneStarts(p, at) : PieceAt(p, i) # <<>>}

\* The last units found are the pieces that begin in these places, in order.
FoundLast(units, p, all) ==
  /\ IsFiniteSet(all) /\ Cardinality(all) <= Len(units)
  /\ \A i \in all :
       units[(Len(units) - Cardinality(all)) + Cardinality(UpTo(all, i))]
         = PieceAt(p, i)

\* The scan stands at a start code; of its buffer it found what lies before,
\* and nothing else.
ScanInv ==
  /\ start = 0 \/ start = Len(payload) \/ start \in Codes(payload)
  /\ WellBegun(payload) => FoundLast(found, payload, DoneFull(payload, start))

\* Two start codes do not overlap.
LEMMA CodesApart ==
  ASSUME NEW p, NEW i \in Nat, NEW j \in Nat, IsCode(p, i), IsCode(p, j), i < j
  PROVE  i + 3 <= j
<1>1. Byte(p, i + 2) = 1 /\ Byte(p, j) = 0 /\ Byte(p, j + 1) = 0
  BY DEF IsCode
<1>2. j # i + 1 /\ j # i + 2
  <2>1. j = i + 1 => j + 1 = i + 2
    OBVIOUS
  <2> QED BY <1>1, <2>1
<1> QED BY <1>2

\* What the scan finds is the next start code.
LEMMA NextStartIsCode ==
  ASSUME NEW p \in Seq(Nat), NEW f \in Nat, f < Len(p), f = 0 \/ f \in Codes(p)
  PROVE  /\ NextStart(p, f) \in 1..Len(p)
         /\ NextStart(p, f) = Len(p) \/ NextStart(p, f) \in Codes(p)
         /\ \A c \in Codes(p) : f + 3 <= c => NextStart(p, f) <= c
<1> DEFINE e == NextStart(p, f)
<1>1. f = 0 \/ IsCode(p, f)
  BY DEF Codes
<1>2. e \in 1..Len(p) /\ f < e /\ (e = Len(p) \/ IsCode(p, e))
  BY <1>1, NextStartFound
<1>3. Hits(p, f) \in SUBSET Nat
  BY DEF Hits
<1>4. ASSUME NEW i \in Hits(p, f) PROVE i \in Nat /\ f + 3 <= i /\ IsCode(p, i)
  <2>1. i \in 0..Len(p) - 1 /\ f + 3 <= i /\ CodeEnds(p, i)
    BY DEF Hits
  <2>2. i - 1 + 3 = i + 2 /\ i - 1 + 1 = i /\ i - 1 + 2 = i + 1
    BY <2>1
  <2> QED BY <2>1, <2>2 DEF CodeEnds, IsLongCode, IsCode
<1>5. ASSUME NEW c \in Codes(p), f + 3 <= c PROVE c \in Hits(p, f)
  <2>1. c \in 0..Len(p) - 1 /\ IsCode(p, c)
    BY DEF Codes
  <2> QED BY <1>5, <2>1 DEF Hits, CodeEnds
<1>6. CASE Hits(p, f) = {}
  <2>1. e = Len(p)
    BY <1>6 DEF NextStart
  <2> QED BY <1>2, <1>5, <1>6, <2>1
<1>7. CASE Hits(p, f) # {}
  <2>1. Min(Hits(p, f)) \in Hits(p, f) /\ \A y \in Hits(p, f) : Min(Hits(p, f)) <= y
    BY <1>3, <1>7, LeastPosition
  <2>2. IsCode(p, Min(Hits(p, f)))
    BY <1>4, <2>1
  <2>3. e = Min(Hits(p, f))
    BY <1>7, <2>2 DEF NextStart
  <2>4. e \in Codes(p)
    BY <1>2, <1>4, <2>1, <2>2, <2>3 DEF Codes, Hits
  <2> QED BY <1>2, <1>5, <2>1, <2>3, <2>4
<1> QED BY <1>6, <1>7

\* The unit of one turn is one of the split, and no other begins between the
\* place where the turn began and the place where it ends.
LEMMA TurnIsUnit ==
  ASSUME NEW p \in Seq(Nat), NEW f \in Nat, f < Len(p), f = 0 \/ f \in Codes(p),
         WellBegun(p)
  PROVE  /\ Nalu(p, f) = PieceAt(p, f + Offset(p, f))
         /\ DoneStarts(p, NextStart(p, f))
              = DoneStarts(p, f) \cup {f + Offset(p, f)}
<1> DEFINE e == NextStart(p, f)
           first == f + Offset(p, f)
<1>1. /\ e \in 1..Len(p) /\ f < e /\ Offset(p, f) \in Nat /\ first <= e
      /\ e = Len(p) \/ e \in Codes(p)
      /\ \A c \in Codes(p) : f + 3 <= c => e <= c
  <2>1. f = 0 \/ IsCode(p, f)
    BY DEF Codes
  <2> QED BY <2>1, NextStartFound, NextStartIsCode
<1> HIDE DEF e
<1>2. \A c \in Codes(p) : c \in Nat /\ c < Len(p) /\ IsCode(p, c)
  BY DEF Codes
\* How the buffer may begin, and what counts before the end of the turn.
<1>3. /\ \A c \in Codes(p) : first <= c => e <= c
      /\ {c \in Codes(p) : c < e}
           = {c \in Codes(p) : c < f} \cup {c \in Codes(p) : c + 3 = first}
      /\ \/ first - 3 \in Codes(p) /\ first >= 3
            /\ (f = 0 => ~IsBare(p))
         \/ f = 0 /\ first = 0 /\ IsBare(p)
  <2>1. CASE IsCode(p, f)
    <3>1. Offset(p, f) = 3
      BY <2>1 DEF Offset, IsCode, IsLongCode
    <3>2. f \in Codes(p)
      BY <2>1 DEF Codes, IsCode
    <3>3. \A c \in Codes(p) : c < e => c <= f
      BY <1>1, <1>2, <2>1, CodesApart
    <3>4. first = f + 3 /\ first - 3 = f /\ first >= 3
      BY <3>1
    <3>5. \A c \in Codes(p) : c < e <=> c < f \/ c + 3 = first
      BY <1>1, <1>2, <3>3, <3>4
    <3>6. {c \in Codes(p) : c < e}
            = {c \in Codes(p) : c < f} \cup {c \in Codes(p) : c + 3 = first}
      BY <3>5
    <3>7. \A c \in Codes(p) : first <= c => e <= c
      BY <1>1, <3>4
    <3>8. f = 0 => ~IsBare(p)
      BY <2>1 DEF IsBare
    <3> HIDE DEF first
    <3> QED BY <3>2, <3>4, <3>6, <3>7, <3>8
  <2>2. CASE ~IsCode(p, f) /\ IsLongCode(p, f)
    <3>1. f = 0 /\ Offset(p, f) = 4 /\ first = 4
      BY <1>2, <2>2 DEF Offset
    <3>2. 1 \in Codes(p)
      BY <2>2, <3>1 DEF Codes, IsCode, IsLongCode
    <3>3. 0 \notin Codes(p)
      BY <1>2, <2>2, <3>1
    <3>4. \A c \in Codes(p) : c = 1 \/ 4 <= c
      BY <1>2, <3>2, <3>3, CodesApart
    <3>5. \A c \in Codes(p) : c < e => c = 1
      BY <1>1, <1>2, <3>1, <3>4
    <3>6. 1 < e
      BY <1>1, <3>1
    <3>7. {c \in Codes(p) : c < e} = {1} /\ {c \in Codes(p) : c < f} = {}
          /\ {c \in Codes(p) : c + 3 = first} = {1}
      BY <1>2, <3>1, <3>2, <3>5, <3>6
    <3>8. \A c \in Codes(p) : first <= c => e <= c
      BY <1>1, <1>2, <3>1
    <3>9. first - 3 = 1 /\ ~IsBare(p)
      BY <2>2, <3>1 DEF IsBare
    <3> QED BY <3>1, <3>2, <3>7, <3>8, <3>9
  <2>3. CASE ~IsCode(p, f) /\ ~IsLongCode(p, f)
    <3>1. f = 0 /\ Offset(p, f) = 0 /\ first = 0
      BY <1>2, <2>3 DEF Offset
    <3>2. IsBare(p) /\ {0, 1, 2} \cap Codes(p) = {}
      <4>1. IsBare(p)
        BY <2>3, <3>1 DEF IsBare
      <4>2. 0 \notin Codes(p)
        BY <1>2, <2>3, <3>1
      <4> QED BY <4>1, <4>2 DEF WellBegun
    <3>3. ASSUME NEW c \in Codes(p) PROVE e <= c /\ 3 <= c
      <4>1. c \in Nat /\ c # 0 /\ c # 1 /\ c # 2
        BY <1>2, <3>2
      <4>2. f + 3 <= c
        BY <3>1, <4>1
      <4> QED BY <1>1, <3>1, <4>2
    <3>4. ASSUME NEW c \in Codes(p)
          PROVE  ~(c < e) /\ ~(c < f) /\ ~(c + 3 = first)
      <4>1. c \in Nat /\ e <= c /\ first = 0 /\ f = 0
        BY <1>2, <3>1, <3>3
      <4> QED BY <1>1, <4>1
    <3>5. {c \in Codes(p) : c < e}
            = {c \in Codes(p) : c < f} \cup {c \in Codes(p) : c + 3 = first}
      BY <3>4
    <3>6. IsBare(p)
      BY <3>2
    <3> HIDE DEF first
    <3> QED BY <3>1, <3>3, <3>5, <3>6
  <2> QED BY <2>1, <2>2, <2>3
<1>4. Nalu(p, f) = PieceAt(p, first)
  <2> DEFINE later == {i \in Codes(p) : i >= first}
  <2>1. Nalu(p, f) = SubSeq(p, first + 1, e)
    BY DEF Nalu, e
  <2>2. CASE later = {}
    <3>1. e = Len(p)
      BY <1>1, <1>2, <2>2
    <3> QED BY <2>1, <2>2, <3>1 DEF PieceAt
  <2>3. CASE later # {}
    <3>1. later \in SUBSET Nat
      BY <1>2
    <3>2. Min(later) \in later /\ \A y \in later : Min(later) <= y
      BY <2>3, <3>1, LeastPosition
    <3>3. \A y \in later : e <= y
      BY <1>1, <1>2, <1>3
    <3>4. e \in later
      BY <1>1, <1>2, <3>2, <3>3
    <3>5. Min(later) = e
      BY <1>1, <3>1, <3>2, <3>3, <3>4
    <3> QED BY <2>1, <2>3, <3>5 DEF PieceAt
  <2> QED BY <2>2, <2>3
<1>5. DoneStarts(p, e) = DoneStarts(p, f) \cup {first}
  <2>1. CASE first - 3 \in Codes(p) /\ first >= 3
             /\ (f = 0 => ~IsBare(p))
    <3>1. {c \in Codes(p) : c + 3 = first} = {first - 3}
      BY <1>1, <1>2, <2>1
    <3>2. {c \in Codes(p) : c < e} = {c \in Codes(p) : c < f} \cup {first - 3}
      BY <1>3, <3>1
    <3>3. {i + 3 : i \in {c \in Codes(p) : c < e}}
            = {i + 3 : i \in {c \in Codes(p) : c < f}} \cup {first}
      <4>1. first - 3 + 3 = first
        BY <1>1
      <4> QED BY <3>2, <4>1
    <3>4. (IsBare(p) /\ 0 < e) <=> (IsBare(p) /\ 0 < f)
      BY <1>1, <2>1
    <3> QED BY <3>3, <3>4 DEF DoneStarts
  <2>2. CASE f = 0 /\ first = 0 /\ IsBare(p)
    <3>1. {c \in Codes(p) : c < e} = {} /\ {c \in Codes(p) : c < f} = {}
      BY <1>1, <1>2, <1>3, <2>2
    <3> QED BY <1>1, <2>2, <3>1 DEF DoneStarts
  <2> QED BY <1>3, <2>1, <2>2
<1> QED BY <1>4, <1>5 DEF e

\* The pieces that are done begin before the one of this turn.
LEMMA DoneIsBefore ==
  ASSUME NEW p \in Seq(Nat), NEW f \in Nat, f < Len(p), f = 0 \/ f \in Codes(p),
         NEW i \in DoneStarts(p, f)
  PROVE  i \in Nat /\ i < f + Offset(p, f)
<1>1. f + Offset(p, f) \in Nat /\ f <= f + Offset(p, f)
  BY DEF Offset
<1>2. CASE i = 0 /\ 0 < f
  BY <1>1, <1>2
<1>3. CASE \E c \in Codes(p) : c < f /\ i = c + 3
  <2>1. PICK c \in Codes(p) : c < f /\ i = c + 3
    BY <1>3
  <2>2. c \in Nat /\ IsCode(p, c)
    BY DEF Codes
  <2>3. f \in Codes(p) /\ IsCode(p, f) /\ f # 0
    BY <2>1, <2>2 DEF Codes
  <2>4. c + 3 <= f
    BY <2>1, <2>2, <2>3, CodesApart
  <2>5. Offset(p, f) \in {3, 4}
    <3>1. ~(~IsCode(p, f) /\ f = 0)
      BY <2>3
    <3> QED BY <3>1 DEF Offset
  <2> QED BY <2>1, <2>2, <2>4, <2>5
<1>4. (i = 0 /\ 0 < f) \/ \E c \in Codes(p) : c < f /\ i = c + 3
  BY DEF DoneStarts
<1> QED BY <1>2, <1>3, <1>4

\* One more piece behind those that were found, and one more unit found.
LEMMA FoundOneMore ==
  ASSUME NEW p, NEW all \in SUBSET Nat, NEW first \in Nat,
         \A i \in all : i < first,
         found \in Seq(Seq(Nat) \ {<<>>}), FoundLast(found, p, all),
         PieceAt(p, first) \in Seq(Nat) \ {<<>>},
         NEW next, next = Append(found, PieceAt(p, first)),
         NEW more, more = all \cup {first}
  PROVE  FoundLast(next, p, more)
<1>2. PICK n : n = Cardinality(all)
  OBVIOUS
<1>3. IsFiniteSet(all) /\ n \in Nat /\ n <= Len(found)
  BY <1>2, FS_CardinalityType DEF FoundLast
<1>4. first \notin all
  <2> SUFFICES ASSUME first \in all PROVE FALSE
    OBVIOUS
  <2>1. first < first
    OBVIOUS
  <2> QED BY <2>1
<1>5. IsFiniteSet(more) /\ Cardinality(more) = n + 1
  BY <1>2, <1>3, <1>4, FS_AddElement
<1>6. PICK len : len = Len(found)
  OBVIOUS
<1>7. /\ len \in Nat /\ Len(next) = len + 1
      /\ next[len + 1] = PieceAt(p, first)
      /\ \A k \in 1..len : next[k] = found[k]
  BY <1>6, AppendProperties
<1>8. (len + 1) - (n + 1) = len - n
  BY <1>3, <1>7
<1>9. ASSUME NEW i \in all
      PROVE  next[(len - n) + Cardinality(UpTo(more, i))] = PieceAt(p, i)
  <2>1. i \in Nat /\ i < first
    OBVIOUS
  <2>2. UpTo(more, i) = UpTo(all, i)
    <3>1. ~(first <= i)
      BY <2>1
    <3> QED BY <3>1 DEF UpTo
  <2>3. PICK k : k = Cardinality(UpTo(all, i))
    OBVIOUS
  <2>4. k \in Nat /\ k >= 1 /\ k <= n
    <3>1. UpTo(all, i) \in SUBSET all /\ i \in UpTo(all, i)
      BY <2>1 DEF UpTo
    <3>2. IsFiniteSet(UpTo(all, i)) /\ k <= n
      BY <1>2, <1>3, <2>3, <3>1, FS_Subset
    <3>3. k \in Nat
      BY <2>3, <3>2, FS_CardinalityType
    <3>4. k # 0
      BY <2>3, <3>1, <3>2, FS_EmptySet
    <3> QED BY <3>2, <3>3, <3>4
  <2>5. (len - n) + k \in 1..len
    BY <1>3, <1>6, <1>7, <2>4
  <2>6. found[(len - n) + k] = PieceAt(p, i)
    BY <1>2, <1>6, <2>3 DEF FoundLast
  <2> QED BY <1>7, <2>2, <2>3, <2>5, <2>6
<1>10. next[(len - n) + Cardinality(UpTo(more, first))] = PieceAt(p, first)
  <2>1. UpTo(more, first) = more
    <3>1. \A i \in more : i <= first
      OBVIOUS
    <3> QED BY <3>1 DEF UpTo
  <2>2. (len - n) + (n + 1) = len + 1
    BY <1>3, <1>7
  <2> QED BY <1>5, <1>7, <2>1, <2>2
<1>11. n + 1 <= len + 1
  BY <1>3, <1>6, <1>7
<1>12. \A i \in more : i \in all \/ i = first
  OBVIOUS
<1>13. \A i \in more :
         next[(Len(next) - Cardinality(more)) + Cardinality(UpTo(more, i))]
           = PieceAt(p, i)
  BY <1>5, <1>7, <1>8, <1>9, <1>10, <1>12
<1> QED BY <1>5, <1>7, <1>11, <1>13 DEF FoundLast

\* Scanning keeps the invariant.
LEMMA ScanTurn ==
  ASSUME Inductive, ScanInv, Scanning, Advance
  PROVE  ScanInv'
<1>1. /\ payload \in Seq(Nat) /\ start \in Nat /\ start < Len(payload)
      /\ start = 0 \/ start \in Codes(payload)
      /\ found \in Seq(Seq(Nat) \ {<<>>})
  BY DEF Inductive, TypeOK, Scanning, ScanInv
<1>2. /\ payload' = payload /\ start' = NextStart(payload, start)
      /\ found' = IF ThisNalu = <<>> THEN found ELSE Append(found, ThisNalu)
  BY DEF Advance, ThisNalu
<1>3. PICK first : first = start + Offset(payload, start)
  OBVIOUS
<1>4. start' = Len(payload') \/ start' \in Codes(payload')
  BY <1>1, <1>2, NextStartIsCode DEF Codes, IsCode, Byte
<1>5. ASSUME WellBegun(payload)
      PROVE  FoundLast(found, payload, DoneFull(payload, start))'
  <2>1. /\ ThisNalu = PieceAt(payload, first)
        /\ DoneStarts(payload, start') = DoneStarts(payload, start) \cup {first}
    BY <1>1, <1>2, <1>3, <1>5, TurnIsUnit DEF ThisNalu
  <2>2. PICK all : all = DoneFull(payload, start)
    OBVIOUS
  <2>3. FoundLast(found, payload, all)
    BY <1>5, <2>2 DEF ScanInv
  <2>4. \A i \in all : i \in Nat /\ i < first
    BY <1>1, <1>3, <2>2, DoneIsBefore DEF DoneFull
  <2>5. first \in Nat
    BY <1>1, <1>3 DEF Offset
  <2>6. CASE ThisNalu = <<>>
    <3>1. DoneFull(payload, start') = all
      BY <2>1, <2>2, <2>6 DEF DoneFull
    <3>2. found' = found
      BY <1>2, <2>6
    <3>3. DoneFull(payload, start)' = all
      BY <1>2, <3>1
    <3> QED BY <1>2, <2>3, <3>2, <3>3
  <2>7. CASE ThisNalu # <<>>
    <3>1. DoneFull(payload, start') = all \cup {first}
      BY <2>1, <2>2, <2>7 DEF DoneFull
    <3>2. found' = Append(found, PieceAt(payload, first))
      BY <1>2, <2>1, <2>7
    <3>3. PieceAt(payload, first) \in Seq(Nat) \ {<<>>}
      <4>1. start = 0 \/ IsCode(payload, start)
        BY <1>1 DEF Codes
      <4> QED BY <1>1, <2>1, <2>7, <4>1, NaluType DEF ThisNalu
    <3>4. all \in SUBSET Nat /\ \A i \in all : i < first
      BY <2>4
    <3>5. PICK next : next = Append(found, PieceAt(payload, first))
      OBVIOUS
    <3>6. PICK more : more = all \cup {first}
      OBVIOUS
    <3>7. /\ found \in Seq(Seq(Nat) \ {<<>>})
           /\ \A i \in all : i < first
      BY <1>1, <3>4
    <3>8. all \in SUBSET Nat
      BY <3>4
    <3>9. FoundLast(next, payload, more)
      BY <2>3, <2>5, <3>3, <3>5, <3>6, <3>7, <3>8, FoundOneMore
    <3>10. DoneFull(payload, start)' = more /\ found' = next /\ payload' = payload
      BY <1>2, <3>1, <3>2, <3>5, <3>6
    <3> QED BY <3>9, <3>10
  <2> QED BY <2>6, <2>7
<1> QED BY <1>2, <1>4, <1>5 DEF ScanInv

\* Every other step leaves the units found alone, and begins a buffer or leaves
\* the one that is there.
LEMMA ScanStep == Inductive /\ ScanInv /\ [Next]_vars => ScanInv'
<1> SUFFICES ASSUME Inductive, ScanInv, [Next]_vars PROVE ScanInv'
  OBVIOUS
<1>1. ASSUME NEW frame, Payload(frame) PROVE ScanInv'
  <2>1. payload' = frame /\ start' = 0 /\ found' = found
    BY <1>1 DEF Payload
  <2>2. found \in Seq(Seq(Nat) \ {<<>>})
    BY DEF Inductive, TypeOK
  <2>3. DoneFull(frame, 0) = {}
    <3>1. \A c \in Codes(frame) : ~(c < 0)
      BY DEF Codes
    <3>2. DoneStarts(frame, 0) = {}
      BY <3>1 DEF DoneStarts
    <3> QED BY <3>2 DEF DoneFull
  <2>4. /\ IsFiniteSet({}) /\ Cardinality({}) <= Len(found')
    BY <2>1, <2>2, FS_EmptySet
  <2>5. FoundLast(found, payload, DoneFull(payload, start))'
    BY <2>1, <2>3, <2>4, Zenon DEF FoundLast
  <2> QED BY <2>1, <2>5 DEF ScanInv
<1>2. CASE SkipNalu \/ SetSPS \/ SetPPS \/ SendAggregate \/ SendSingle
           \/ SendFragments
  BY <1>2, ScanTurn
     DEF SkipNalu, SetSPS, SetPPS, SendAggregate, SendSingle, SendFragments, Sendable
<1>3. CASE UNCHANGED <<payload, start, found>>
  BY <1>3 DEF ScanInv, FoundLast
<1>4. CASE \/ Lose
           \/ \E i \in DOMAIN wire : ReceiveSingle(i)
           \/ \E i \in DOMAIN wire : ReceiveAggregate(i)
           \/ \E i \in DOMAIN wire : ReceiveFragment(i)
           \/ \E i \in DOMAIN wire : ReceiveLastFragment(i)
           \/ UNCHANGED vars
  BY <1>3, <1>4 DEF Lose, ReceiveSingle, ReceiveAggregate, ReceiveFragment,
                    ReceiveLastFragment, ReceiverUnchanged, vars
<1> QED BY <1>1, <1>2, <1>4 DEF Next, PayloaderNext

\* For every buffer that begins with a start code or with a unit, and in every
\* call: when the loop of EmitNALUs ends, the last units it has found are the
\* pieces between the start codes, all of them, once each, and in their order.
THEOREM ScanSplitsTheBuffer == Spec => []ScanIsSplit
<1>1. Init => ScanInv
  <2> SUFFICES ASSUME Init PROVE ScanInv
    OBVIOUS
  <2>1. payload = <<>> /\ start = 0 /\ found = <<>>
    BY DEF Init, PayloaderInit
  <2>2. DoneFull(payload, start) = {}
    <3>1. \A c \in Codes(payload) : ~(c < 0)
      BY <2>1 DEF Codes
    <3>2. DoneStarts(payload, 0) = {}
      BY <3>1 DEF DoneStarts
    <3> QED BY <2>1, <3>2 DEF DoneFull
  <2>3. Cardinality({}) <= Len(found)
    BY <2>1, FS_EmptySet
  <2> QED BY <2>1, <2>2, <2>3, FS_EmptySet DEF ScanInv, FoundLast
<1>2. Inductive /\ ScanInv => ScanIsSplit
  <2> SUFFICES ASSUME Inductive, ScanInv, ~Scanning, WellBegun(payload)
               PROVE  /\ Len(found) - Cardinality(FullStarts(payload)) >= 0
                      /\ \A i \in FullStarts(payload) :
                           found[(Len(found) - Cardinality(FullStarts(payload)))
                                   + Cardinality(UpTo(FullStarts(payload), i))]
                             = PieceAt(payload, i)
    BY DEF ScanIsSplit
  <2>1. /\ payload \in Seq(Nat) /\ start = Len(payload) /\ Len(payload) \in Nat
        /\ Len(found) \in Nat
    BY DEF Inductive, TypeOK, Scanning
  <2>2. {c \in Codes(payload) : c < start} = Codes(payload)
    <3>1. \A c \in Codes(payload) : c < start
      BY <2>1 DEF Codes
    <3> QED BY <3>1
  <2>3. DoneFull(payload, start) = FullStarts(payload)
    <3>1. CASE 0 < start
      <4>1. DoneStarts(payload, start) = Starts(payload)
        BY <2>2, <3>1 DEF DoneStarts, Starts
      <4> QED BY <4>1 DEF DoneFull, FullStarts
    <3>2. CASE start = 0
      <4>1. payload = <<>>
        BY <2>1, <3>2, EmptySeq
      <4>2. Codes(payload) = {}
        BY <2>1, <3>2 DEF Codes
      <4>3. PieceAt(payload, 0) = <<>>
        <5>1. PieceAt(payload, 0) = SubSeq(payload, 0 + 1, Len(payload))
          BY <4>2 DEF PieceAt
        <5> QED BY <2>1, <3>2, <5>1, SubSeqEmpty
      <4>4. \A i \in Starts(payload) : i = 0
        BY <4>2 DEF Starts
      <4>5. \A i \in DoneStarts(payload, start) : FALSE
        BY <3>2, <4>2 DEF DoneStarts
      <4> QED BY <4>3, <4>4, <4>5 DEF DoneFull, FullStarts
    <3> QED BY <2>1, <3>1, <3>2
  <2>4. FoundLast(found, payload, FullStarts(payload))
    BY <2>3 DEF ScanInv
  <2>5. Cardinality(FullStarts(payload)) \in Nat
    BY <2>4, FS_CardinalityType DEF FoundLast
  <2> QED BY <2>1, <2>4, <2>5 DEF FoundLast
<1> QED BY <1>1, <1>2, ScanStep, InductiveHolds, PTL DEF Spec

-----------------------------------------------------------------------------
(* Parameter sets are fresh.                                                *)

\* A payload carries the units whose numbers it has, as they were found; an
\* aggregate's parameter sets are the last ones before its picture.
AsFound(pkt) ==
  \/ \E c \in Ids : pkt = Single(c, found[c])
  \/ \E a, b, c \in Ids :
       /\ pkt = Aggregate(<<a, b, c>>, <<found[a], found[b], found[c]>>)
       /\ LatestBefore(a, SPS, c) /\ LatestBefore(b, PPS, c)
       /\ ~IsParameterSet(found[c])
  \/ \E c \in Ids : \E k \in 1..FragmentCount(found[c]) :
       pkt = Fragment(c, found[c], k) /\ Len(found[c]) > Mtu

ContentInv == \A i \in DOMAIN wire : AsFound(wire[i])

\* A parameter set that is held is the last one found, and was found after
\* every picture that took sets along.
HeldIsLatest(held, type) ==
  held # <<>> =>
    /\ ~disable_stapa_
    /\ LatestBefore(held[1], type, Len(found) + 1)
    /\ \A i \in DOMAIN wire :
         wire[i].kind = "stapa" => wire[i].ids[3] < held[1]

HeldInv == HeldIsLatest(sps_nalu_, SPS) /\ HeldIsLatest(pps_nalu_, PPS)

\* No parameter set goes out twice.
FreshInv ==
  \A i, j \in DOMAIN wire :
    i # j /\ wire[i].kind = "stapa" /\ wire[j].kind = "stapa" =>
      \A k \in 1..3 : wire[i].ids[k] # wire[j].ids[k]

SendingInv == ContentInv /\ HeldInv /\ FreshInv

\* What an aggregate under way says.
LEMMA AggregateIs ==
  ASSUME NEW pkt, AsFound(pkt), pkt.kind = "stapa"
  PROVE  /\ pkt.ids[1] \in Ids /\ pkt.ids[2] \in Ids /\ pkt.ids[3] \in Ids
         /\ Len(pkt.ids) = 3 /\ Len(pkt.nalus) = 3
         /\ pkt.nalus[3] = found[pkt.ids[3]]
         /\ pkt.nalus[1] = found[pkt.ids[1]] /\ pkt.nalus[2] = found[pkt.ids[2]]
         /\ LatestBefore(pkt.ids[1], SPS, pkt.ids[3])
         /\ LatestBefore(pkt.ids[2], PPS, pkt.ids[3])
         /\ ~IsParameterSet(found[pkt.ids[3]])
<1>1. PICK a \in Ids, b \in Ids, c \in Ids :
        /\ pkt = Aggregate(<<a, b, c>>, <<found[a], found[b], found[c]>>)
        /\ LatestBefore(a, SPS, c) /\ LatestBefore(b, PPS, c)
        /\ ~IsParameterSet(found[c])
  <2>1. ~\E c \in Ids : pkt = Single(c, found[c])
    BY DEF Single
  <2>2. ~\E c \in Ids : \E k \in 1..FragmentCount(found[c]) :
          pkt = Fragment(c, found[c], k) /\ Len(found[c]) > Mtu
    BY DEF Fragment
  <2> QED BY <2>1, <2>2 DEF AsFound
<1>2. pkt.ids = <<a, b, c>> /\ pkt.nalus = <<found[a], found[b], found[c]>>
  BY <1>1 DEF Aggregate
<1> QED BY <1>1, <1>2

\* A turn of the loop adds the unit it found, if it found one.
LEMMA TurnFinds ==
  ASSUME Inductive, Scanning, Advance
  PROVE  /\ found \in Seq(Seq(Nat) \ {<<>>}) /\ Len(found) \in Nat
         /\ Len(found) <= Len(found') /\ Len(found') \in Nat
         /\ Ids \subseteq Ids' /\ \A i \in Ids : found'[i] = found[i]
         /\ ThisNalu = <<>> => found' = found
         /\ ThisNalu # <<>> =>
              /\ ThisId = Len(found) + 1 /\ Len(found') = ThisId
              /\ ThisId \in Ids' /\ found'[ThisId] = ThisNalu
         /\ disable_stapa_' = disable_stapa_
<1>1. found \in Seq(Seq(Nat) \ {<<>>}) /\ Len(found) \in Nat
  BY DEF Inductive, TypeOK
<1>2. ThisNalu \in Seq(Nat)
  BY TurnOfLoop
<1>3. CASE ThisNalu = <<>>
  <2>1. found' = found
    BY <1>3 DEF Advance, ThisNalu
  <2> QED BY <1>1, <1>3, <2>1 DEF Ids, Advance
<1>4. CASE ThisNalu # <<>>
  <2>1. found' = Append(found, ThisNalu)
    BY <1>4 DEF Advance, ThisNalu
  <2>2. /\ Len(found') = Len(found) + 1 /\ found'[Len(found) + 1] = ThisNalu
        /\ \A i \in 1..Len(found) : found'[i] = found[i]
    BY <1>1, <1>2, <1>4, <2>1, AppendProperties
  <2> QED BY <1>1, <1>4, <2>2 DEF Ids, ThisId, Advance
<1> QED BY <1>3, <1>4

\* What was as found stays so when more units are found.
LEMMA AsFoundStays ==
  ASSUME Len(found) \in Nat, Ids \subseteq Ids', \A i \in Ids : found'[i] = found[i]
  PROVE  \A pkt : AsFound(pkt) => AsFound(pkt)'
<1> SUFFICES ASSUME NEW pkt, AsFound(pkt) PROVE AsFound(pkt)'
  OBVIOUS
<1>1. ASSUME NEW a \in Ids, NEW c \in Ids, NEW type, LatestBefore(a, type, c)
      PROVE  LatestBefore(a, type, c)'
  <2>1. \A j \in a + 1..c - 1 : j \in Ids
    BY DEF Ids
  <2> QED BY <1>1, <2>1 DEF LatestBefore
<1>2. CASE \E c \in Ids : pkt = Single(c, found[c])
  <2>1. PICK c \in Ids : pkt = Single(c, found[c])
    BY <1>2
  <2>2. c \in Ids' /\ pkt = Single(c, found'[c])
    BY <2>1
  <2> QED BY <2>2 DEF AsFound, Single
<1>3. CASE \E a, b, c \in Ids :
             /\ pkt = Aggregate(<<a, b, c>>, <<found[a], found[b], found[c]>>)
             /\ LatestBefore(a, SPS, c) /\ LatestBefore(b, PPS, c)
             /\ ~IsParameterSet(found[c])
  <2>1. PICK a \in Ids, b \in Ids, c \in Ids :
             /\ pkt = Aggregate(<<a, b, c>>, <<found[a], found[b], found[c]>>)
             /\ LatestBefore(a, SPS, c) /\ LatestBefore(b, PPS, c)
             /\ ~IsParameterSet(found[c])
    BY <1>3
  <2>2. LatestBefore(a, SPS, c)' /\ LatestBefore(b, PPS, c)'
    BY <1>1, <2>1
  <2>3. /\ a \in Ids' /\ b \in Ids' /\ c \in Ids'
        /\ found'[a] = found[a] /\ found'[b] = found[b] /\ found'[c] = found[c]
    OBVIOUS
  <2> QED BY <2>1, <2>2, <2>3 DEF AsFound, Aggregate, IsParameterSet
<1>4. CASE \E c \in Ids : \E k \in 1..FragmentCount(found[c]) :
             pkt = Fragment(c, found[c], k) /\ Len(found[c]) > Mtu
  <2>1. PICK c \in Ids : \E k \in 1..FragmentCount(found[c]) :
             pkt = Fragment(c, found[c], k) /\ Len(found[c]) > Mtu
    BY <1>4
  <2>2. c \in Ids' /\ found'[c] = found[c]
    OBVIOUS
  <2>3. \E k \in 1..FragmentCount(found'[c]) :
             pkt = Fragment(c, found'[c], k) /\ Len(found'[c]) > Mtu
    BY <2>1, <2>2
  <2> QED BY <2>2, <2>3 DEF AsFound, FragmentCount, Fragment, Data
<1> QED BY <1>2, <1>3, <1>4 DEF AsFound

\* A set that is held stays the latest when a unit of another type is found.
LEMMA HeldStaysLatest ==
  ASSUME Inductive, Scanning, Advance, NEW held, NEW type,
         held # <<>>, held[1] \in Ids,
         HeldIsLatest(held, type), ThisNalu # <<>> => ThisNalu[1] # type,
         \A j \in DOMAIN wire' :
           wire'[j].kind = "stapa" => \E i \in DOMAIN wire : wire[i] = wire'[j]
  PROVE  HeldIsLatest(held, type)'
<1>1. LatestBefore(held[1], type, Len(found) + 1) /\ ~disable_stapa_'
  BY TurnFinds DEF HeldIsLatest
<1>2. LatestBefore(held[1], type, Len(found) + 1)'
  <2>1. /\ held[1] < Len(found) + 1 /\ found[held[1]][1] = type
        /\ \A j \in held[1] + 1..Len(found) : found[j][1] # type
    BY <1>1, TurnFinds DEF LatestBefore
  <2>2. held[1] \in Nat
    BY DEF Ids
  <2>3. CASE ThisNalu = <<>>
    <3>1. found' = found
      BY <2>3, TurnFinds
    <3> QED BY <1>1, <3>1 DEF LatestBefore
  <2>4. CASE ThisNalu # <<>>
    <3>1. /\ Len(found') = Len(found) + 1 /\ found'[Len(found) + 1] = ThisNalu
          /\ Len(found) \in Nat
          /\ \A i \in Ids : found'[i] = found[i]
      BY <2>4, TurnFinds
    <3>2. ASSUME NEW j \in held[1] + 1..Len(found') PROVE found'[j][1] # type
      <4>1. CASE j = Len(found) + 1
        BY <2>4, <3>1, <4>1
      <4>2. CASE j # Len(found) + 1
        <5>1. j \in held[1] + 1..Len(found) /\ j \in Ids
          BY <2>2, <3>1, <4>2 DEF Ids
        <5> QED BY <2>1, <3>1, <5>1
      <4> QED BY <4>1, <4>2
    <3>3. found'[held[1]][1] = type /\ held[1] < Len(found') + 1
      BY <2>1, <3>1, <2>2
    <3>4. Len(found') + 1 - 1 = Len(found')
      BY <3>1
    <3> QED BY <3>2, <3>3, <3>4 DEF LatestBefore
  <2> QED BY <2>3, <2>4
<1>3. \A j \in DOMAIN wire' : wire'[j].kind = "stapa" => wire'[j].ids[3] < held[1]
  BY DEF HeldIsLatest
<1> QED BY <1>1, <1>2, <1>3 DEF HeldIsLatest

\* A turn that sends no aggregate.
LEMMA SendingTurn ==
  ASSUME Inductive, SendingInv, Scanning, Advance,
         UNCHANGED sps_nalu_ \/ (sps_nalu_' = <<ThisId>> /\ ThisNalu # <<>>
                                  /\ ThisNalu[1] = SPS /\ ~disable_stapa_),
         UNCHANGED pps_nalu_ \/ (pps_nalu_' = <<ThisId>> /\ ThisNalu # <<>>
                                  /\ ThisNalu[1] = PPS /\ ~disable_stapa_),
         UNCHANGED sps_nalu_ /\ sps_nalu_ # <<>> /\ ThisNalu # <<>>
           => ThisNalu[1] # SPS,
         UNCHANGED pps_nalu_ /\ pps_nalu_ # <<>> /\ ThisNalu # <<>>
           => ThisNalu[1] # PPS,
         NEW new \in Seq(Fitting(Len(found'))), wire' = wire \o new,
         \A k \in DOMAIN new : AsFound(new[k])' /\ new[k].kind # "stapa"
  PROVE  SendingInv'
<1>1. /\ Len(found) \in Nat /\ Ids \subseteq Ids'
      /\ \A i \in Ids : found'[i] = found[i]
  BY TurnFinds
<1>2. /\ wire \in Seq(Fitting(Len(found'))) /\ Len(wire) \in Nat /\ Len(new) \in Nat
      /\ DOMAIN wire = 1..Len(wire) /\ DOMAIN new = 1..Len(new)
      /\ DOMAIN wire' = 1..Len(wire) + Len(new)
      /\ \A i \in DOMAIN wire : wire'[i] = wire[i]
      /\ \A i \in DOMAIN wire' \ DOMAIN wire :
           i - Len(wire) \in DOMAIN new /\ wire'[i] = new[i - Len(wire)]
  <2>1. wire \in Seq(Fitting(Len(found')))
    BY HeldStay
  <2> QED BY <2>1, ConcatProperties, LenProperties
<1>3. \A i \in DOMAIN wire' :
        wire'[i].kind = "stapa" => i \in DOMAIN wire /\ wire'[i] = wire[i]
  BY <1>2
<1>4. ContentInv'
  <2>1. ASSUME NEW i \in DOMAIN wire' PROVE AsFound(wire[i])'
    <3>1. CASE i \in DOMAIN wire
      <4>1. AsFound(wire[i]) /\ wire'[i] = wire[i]
        BY <1>2, <3>1 DEF SendingInv, ContentInv
      <4>2. PICK pkt : pkt = wire[i]
        OBVIOUS
      <4>3. AsFound(pkt)'
        BY <1>1, <4>1, <4>2, AsFoundStays
      <4> QED BY <4>1, <4>2, <4>3
    <3>2. CASE i \notin DOMAIN wire
      <4>1. i - Len(wire) \in DOMAIN new /\ wire'[i] = new[i - Len(wire)]
        BY <1>2, <3>2
      <4>2. PICK k \in DOMAIN new : wire'[i] = new[k]
        BY <4>1
      <4>3. AsFound(new[k])'
        OBVIOUS
      <4> QED BY <4>2, <4>3
    <3> QED BY <3>1, <3>2
  <2> QED BY <2>1 DEF ContentInv
<1>5. \A i \in DOMAIN wire : wire[i].kind = "stapa" => wire[i].ids[3] <= Len(found)
  BY AggregateIs DEF SendingInv, ContentInv, Ids
<1>6. ASSUME NEW held, NEW type, held = <<ThisId>>, ThisNalu # <<>>,
             ThisNalu[1] = type, ~disable_stapa_
      PROVE  HeldIsLatest(held, type)'
  <2>1. /\ ThisId = Len(found) + 1 /\ Len(found') = ThisId
        /\ found'[ThisId] = ThisNalu /\ ~disable_stapa_'
    BY <1>6, TurnFinds
  <2>2. held[1] = Len(found) + 1 /\ held[1] = Len(found')
    BY <1>6, <2>1
  <2>3. LatestBefore(held[1], type, Len(found) + 1)'
    BY <1>1, <1>6, <2>1, <2>2 DEF LatestBefore
  <2>4. \A i \in DOMAIN wire' : wire'[i].kind = "stapa" => wire'[i].ids[3] < held[1]
    <3> SUFFICES ASSUME NEW i \in DOMAIN wire', wire'[i].kind = "stapa"
                 PROVE  wire'[i].ids[3] < held[1]
      OBVIOUS
    <3>1. wire[i].ids[3] \in Ids /\ wire'[i] = wire[i]
      BY <1>3, AggregateIs DEF SendingInv, ContentInv
    <3> QED BY <1>1, <2>2, <3>1 DEF Ids
  <2> QED BY <2>1, <2>3, <2>4 DEF HeldIsLatest
<1>7. HeldIsLatest(sps_nalu_, SPS)'
  <2>1. PICK held : held = sps_nalu_'
    OBVIOUS
  <2>2. CASE UNCHANGED sps_nalu_ /\ sps_nalu_ # <<>>
    <3>1. HeldIsLatest(held, SPS) /\ held # <<>> /\ held[1] \in Ids
      BY <2>1, <2>2 DEF SendingInv, HeldInv, Inductive, TypeOK
    <3>2. HeldIsLatest(held, SPS)'
      BY <1>3, <2>2, <3>1, HeldStaysLatest
    <3> QED BY <2>1, <3>2
  <2>3. CASE UNCHANGED sps_nalu_ /\ sps_nalu_ = <<>>
    BY <2>3 DEF HeldIsLatest
  <2>4. CASE sps_nalu_' = <<ThisId>> /\ ThisNalu # <<>> /\ ThisNalu[1] = SPS
             /\ ~disable_stapa_
    <3>1. HeldIsLatest(held, SPS)'
      BY <1>6, <2>1, <2>4
    <3> QED BY <2>1, <3>1
  <2> QED BY <2>2, <2>3, <2>4
<1>8. HeldIsLatest(pps_nalu_, PPS)'
  <2>1. PICK held : held = pps_nalu_'
    OBVIOUS
  <2>2. CASE UNCHANGED pps_nalu_ /\ pps_nalu_ # <<>>
    <3>1. HeldIsLatest(held, PPS) /\ held # <<>> /\ held[1] \in Ids
      BY <2>1, <2>2 DEF SendingInv, HeldInv, Inductive, TypeOK
    <3>2. HeldIsLatest(held, PPS)'
      BY <1>3, <2>2, <3>1, HeldStaysLatest
    <3> QED BY <2>1, <3>2
  <2>3. CASE UNCHANGED pps_nalu_ /\ pps_nalu_ = <<>>
    BY <2>3 DEF HeldIsLatest
  <2>4. CASE pps_nalu_' = <<ThisId>> /\ ThisNalu # <<>> /\ ThisNalu[1] = PPS
             /\ ~disable_stapa_
    <3>1. HeldIsLatest(held, PPS)'
      BY <1>6, <2>1, <2>4
    <3> QED BY <2>1, <3>1
  <2> QED BY <2>2, <2>3, <2>4
<1>9. FreshInv'
  BY <1>3 DEF SendingInv, FreshInv
<1> QED BY <1>4, <1>7, <1>8, <1>9 DEF SendingInv, HeldInv

\* The held sets go out with the picture, and are no longer held.
LEMMA SendingAggregate ==
  ASSUME Inductive, SendingInv, SendAggregate
  PROVE  SendingInv'
<1>1. /\ Scanning /\ Advance /\ ThisNalu # <<>> /\ ~IsHeld(ThisNalu)
      /\ ~disable_stapa_ /\ sps_nalu_ # <<>> /\ pps_nalu_ # <<>>
      /\ sps_nalu_' = <<>> /\ pps_nalu_' = <<>>
      /\ wire' = Append(wire, Aggregate(sps_nalu_ \o pps_nalu_ \o <<ThisId>>,
                                        Append(Held, ThisNalu)))
  BY DEF SendAggregate, Sendable, Aggregates
<1>2. PICK a \in Ids, b \in Ids : sps_nalu_ = <<a>> /\ pps_nalu_ = <<b>>
  BY <1>1 DEF Inductive, TypeOK
<1>3. PICK c : c = ThisId
  OBVIOUS
<1>4. /\ found \in Seq(Seq(Nat) \ {<<>>}) /\ Len(found) \in Nat
      /\ Ids \subseteq Ids' /\ \A i \in Ids : found'[i] = found[i]
      /\ c = Len(found) + 1 /\ c = Len(found') /\ c \in Ids' /\ found'[c] = ThisNalu
  BY <1>1, <1>3, TurnFinds
<1>5. /\ LatestBefore(a, SPS, c) /\ LatestBefore(b, PPS, c)
      /\ \A i \in DOMAIN wire : wire[i].kind = "stapa" =>
           wire[i].ids[3] < a /\ wire[i].ids[3] < b
  BY <1>1, <1>2, <1>4 DEF SendingInv, HeldInv, HeldIsLatest
<1>6. PICK pkt : pkt = Aggregate(<<a, b, c>>, <<found[a], found[b], ThisNalu>>)
  OBVIOUS
<1>7. wire' = Append(wire, pkt)
  <2>1. found[a] \in Seq(Nat) /\ found[b] \in Seq(Nat) /\ ThisNalu \in Seq(Nat)
    BY <1>1, TurnOfLoop
  <2>2. Append(Held, ThisNalu) = <<found[a], found[b], ThisNalu>>
    <3>1. Held = <<found[a], found[b]>>
      BY <1>2 DEF Held
    <3> QED BY <2>1, <3>1, ThreeInOne
  <2>3. sps_nalu_ \o pps_nalu_ \o <<ThisId>> = <<a, b, c>>
    <3>1. a \in Nat /\ b \in Nat /\ c \in Nat
      BY <1>4 DEF Ids
    <3> QED BY <1>2, <1>3, <3>1, ThreeInOne
  <2> QED BY <1>1, <1>6, <2>2, <2>3
<1>8. AsFound(pkt)'
  <2>1. /\ a \in Ids' /\ b \in Ids' /\ c \in Ids'
        /\ found'[a] = found[a] /\ found'[b] = found[b] /\ found'[c] = ThisNalu
    BY <1>4
  <2>2. LatestBefore(a, SPS, c)' /\ LatestBefore(b, PPS, c)'
    <3>1. \A j \in a + 1..c - 1 : j \in Ids
      BY <1>4 DEF Ids
    <3>2. \A j \in b + 1..c - 1 : j \in Ids
      BY <1>4 DEF Ids
    <3> QED BY <1>4, <1>5, <3>1, <3>2 DEF LatestBefore
  <2>3. ~IsParameterSet(found'[c])
    BY <1>1, <2>1 DEF IsHeld, IsParameterSet
  <2>4. pkt = Aggregate(<<a, b, c>>, <<found'[a], found'[b], found'[c]>>)
    BY <1>6, <2>1
  <2> QED BY <2>1, <2>2, <2>3, <2>4 DEF AsFound, IsParameterSet, Aggregate
<1>9. /\ wire \in Seq(Fitting(Len(found))) /\ Len(wire) \in Nat
      /\ DOMAIN wire = 1..Len(wire) /\ DOMAIN wire' = 1..Len(wire) + 1
      /\ wire'[Len(wire) + 1] = pkt
      /\ \A i \in DOMAIN wire : wire'[i] = wire[i]
  <2>1. wire \in Seq(Fitting(Len(found)) \cup {pkt}) /\ wire \in Seq(Fitting(Len(found)))
    BY SeqMonotonic DEF Inductive, WireFits
  <2> QED BY <1>7, <2>1, AppendProperties, LenProperties
<1>10. ContentInv'
  <2>1. ASSUME NEW i \in DOMAIN wire' PROVE AsFound(wire[i])'
    <3>1. CASE i \in DOMAIN wire
      <4>1. AsFound(wire[i]) /\ wire'[i] = wire[i]
        BY <1>9, <3>1 DEF SendingInv, ContentInv
      <4>2. PICK p : p = wire[i]
        OBVIOUS
      <4>3. AsFound(p)'
        BY <1>4, <4>1, <4>2, AsFoundStays
      <4> QED BY <4>1, <4>2, <4>3
    <3>2. CASE i \notin DOMAIN wire
      <4>1. wire'[i] = pkt
        BY <1>9, <3>2
      <4> QED BY <1>8, <4>1
    <3> QED BY <3>1, <3>2
  <2> QED BY <2>1 DEF ContentInv
<1>11. HeldInv'
  BY <1>1 DEF HeldInv, HeldIsLatest
<1>12. FreshInv'
  <2>1. /\ pkt.ids[1] = a /\ pkt.ids[2] = b /\ pkt.ids[3] = c
        /\ a \in Nat /\ b \in Nat /\ c \in Nat
    BY <1>4, <1>6 DEF Aggregate, Ids
  <2>2. ASSUME NEW i \in DOMAIN wire, wire[i].kind = "stapa"
        PROVE  \A k \in 1..3 : wire[i].ids[k] # pkt.ids[k]
    <3>1. PICK ids : ids = wire[i].ids
      OBVIOUS
    <3>2. /\ ids[1] < ids[3] /\ ids[2] < ids[3]
          /\ ids[1] \in Nat /\ ids[2] \in Nat /\ ids[3] \in 1..Len(found)
      BY <2>2, <3>1, AggregateIs DEF SendingInv, ContentInv, LatestBefore, Ids
    <3>3. ids[3] < a /\ ids[3] < b
      BY <1>5, <2>2, <3>1
    <3>4. ids[1] # a
      BY <2>1, <3>2, <3>3
    <3>5. ids[2] # b
      BY <2>1, <3>2, <3>3
    <3>6. ids[3] # c
      BY <1>4, <3>2
    <3> QED BY <2>1, <3>1, <3>4, <3>5, <3>6
  <2>3. ASSUME NEW i \in DOMAIN wire', NEW j \in DOMAIN wire', i # j,
               wire'[i].kind = "stapa", wire'[j].kind = "stapa"
        PROVE  \A k \in 1..3 : wire'[i].ids[k] # wire'[j].ids[k]
    <3>1. CASE i \in DOMAIN wire /\ j \in DOMAIN wire
      BY <1>9, <2>3, <3>1 DEF SendingInv, FreshInv
    <3>2. CASE i \in DOMAIN wire /\ j \notin DOMAIN wire
      <4>1. wire'[j] = pkt /\ wire'[i] = wire[i]
        BY <1>9, <3>2
      <4> QED BY <2>2, <2>3, <3>2, <4>1
    <3>3. CASE i \notin DOMAIN wire /\ j \in DOMAIN wire
      <4>1. wire'[i] = pkt /\ wire'[j] = wire[j]
        BY <1>9, <3>3
      <4> QED BY <2>2, <2>3, <3>3, <4>1
    <3>4. CASE i \notin DOMAIN wire /\ j \notin DOMAIN wire
      BY <1>9, <2>3, <3>4
    <3> QED BY <3>1, <3>2, <3>3, <3>4
  <2> QED BY <2>3 DEF FreshInv
<1> QED BY <1>10, <1>11, <1>12 DEF SendingInv

\* The fragments of a unit are payloads of their own.
LEMMA FragmentsAreFound ==
  ASSUME Inductive, Scanning, Advance, NEW c, NEW nalu, c = ThisId,
         nalu = ThisNalu, nalu # <<>>, Len(nalu) > Mtu
  PROVE  \A k \in DOMAIN CreateFUAPackets(c, nalu) :
           /\ AsFound(CreateFUAPackets(c, nalu)[k])'
           /\ CreateFUAPackets(c, nalu)[k].kind # "stapa"
<1>1. c \in Ids' /\ found'[c] = nalu
  BY TurnFinds
<1> SUFFICES ASSUME NEW k \in DOMAIN CreateFUAPackets(c, nalu)
             PROVE  /\ AsFound(CreateFUAPackets(c, nalu)[k])'
                    /\ CreateFUAPackets(c, nalu)[k].kind # "stapa"
  OBVIOUS
<1>2. /\ k \in 1..FragmentCount(nalu)
      /\ CreateFUAPackets(c, nalu)[k] = Fragment(c, nalu, k)
  BY DEF CreateFUAPackets
<1>3. PICK pkt : pkt = CreateFUAPackets(c, nalu)[k]
  OBVIOUS
<1>4. pkt = Fragment(c, found'[c], k) /\ k \in 1..FragmentCount(found'[c])
  BY <1>1, <1>2, <1>3
<1>5. AsFound(pkt)'
  BY <1>1, <1>4 DEF AsFound, FragmentCount, Fragment, Data
<1> QED BY <1>2, <1>3, <1>5 DEF Fragment

\* A packet leaves the network.
LEMMA RemoveAtElements ==
  ASSUME NEW S, NEW s \in Seq(S), NEW i \in DOMAIN s
  PROVE  /\ Len(RemoveAt(s, i)) = Len(s) - 1
         /\ DOMAIN RemoveAt(s, i) = 1..Len(s) - 1
         /\ \A j \in 1..Len(s) - 1 :
              /\ j < i => RemoveAt(s, i)[j] = s[j]
              /\ j >= i => RemoveAt(s, i)[j] = s[j + 1]
<1>1. i \in 1..Len(s) /\ Len(s) \in Nat
  OBVIOUS
<1>2. PICK before : before = SubSeq(s, 1, i - 1)
  OBVIOUS
<1>3. PICK after : after = SubSeq(s, i + 1, Len(s))
  OBVIOUS
<1>4. /\ before \in Seq(S) /\ Len(before) = i - 1
      /\ \A j \in 1..i - 1 : before[j] = s[j]
  BY <1>1, <1>2, SubSeqProperties
<1>5. /\ after \in Seq(S) /\ Len(after) = Len(s) - i
      /\ \A j \in 1..Len(s) - i : after[j] = s[i + j]
  <2>1. \A j \in i + 1..Len(s) : s[j] \in S
    BY <1>1
  <2>2. /\ after \in Seq(S)
        /\ Len(after) = IF i + 1 <= Len(s) THEN Len(s) - (i + 1) + 1 ELSE 0
        /\ \A j \in 1..Len(s) - (i + 1) + 1 : after[j] = s[i + 1 + j - 1]
    BY <1>1, <1>3, <2>1, SubSeqProperties
  <2>3. Len(s) - (i + 1) + 1 = Len(s) - i
    BY <1>1
  <2>4. ASSUME NEW j \in 1..Len(s) - i PROVE after[j] = s[i + j]
    <3>1. after[j] = s[i + 1 + j - 1]
      BY <2>2, <2>3
    <3>2. i + 1 + j - 1 = i + j
      BY <1>1
    <3> QED BY <3>1, <3>2
  <2>5. Len(after) = Len(s) - i
    BY <1>1, <2>2
  <2> QED BY <2>2, <2>4, <2>5
<1>6. /\ RemoveAt(s, i) = before \o after /\ before \o after \in Seq(S)
      /\ Len(before \o after) = Len(s) - 1
      /\ \A j \in 1..Len(s) - 1 :
           (before \o after)[j] = IF j <= i - 1 THEN before[j]
                                  ELSE after[j - (i - 1)]
  <2>1. Len(before) + Len(after) = Len(s) - 1
    BY <1>1, <1>4, <1>5
  <2>2. /\ before \o after \in Seq(S)
        /\ Len(before \o after) = Len(before) + Len(after)
        /\ \A j \in 1..Len(before) + Len(after) :
             (before \o after)[j] = IF j <= Len(before) THEN before[j]
                                    ELSE after[j - Len(before)]
    BY <1>4, <1>5, ConcatProperties
  <2>3. RemoveAt(s, i) = before \o after
    BY <1>2, <1>3 DEF RemoveAt
  <2> QED BY <1>4, <2>1, <2>2, <2>3
<1>7. ASSUME NEW j \in 1..Len(s) - 1, j < i PROVE RemoveAt(s, i)[j] = s[j]
  BY <1>1, <1>4, <1>6, <1>7
<1>8. ASSUME NEW j \in 1..Len(s) - 1, j >= i PROVE RemoveAt(s, i)[j] = s[j + 1]
  <2>1. j - (i - 1) \in 1..Len(s) - i /\ i + (j - (i - 1)) = j + 1 /\ ~(j <= i - 1)
    BY <1>1, <1>8
  <2> QED BY <1>5, <1>6, <2>1
<1>9. DOMAIN RemoveAt(s, i) = 1..Len(s) - 1
  BY <1>6, LenProperties
<1> QED BY <1>6, <1>7, <1>8, <1>9

\* Those that are left are there as before, and still differ.
LEMMA SendingTake ==
  ASSUME Inductive, SendingInv, NEW i \in DOMAIN wire, wire' = RemoveAt(wire, i),
         ReceiverUnchanged
  PROVE  SendingInv'
<1>1. /\ UNCHANGED <<found, sps_nalu_, pps_nalu_, disable_stapa_>> /\ Ids' = Ids
      /\ Len(found) \in Nat
  BY DEF ReceiverUnchanged, Ids, Inductive, TypeOK
<1> DEFINE old(j) == IF j < i THEN j ELSE j + 1
<1>2. \A j \in DOMAIN wire' : old(j) \in DOMAIN wire /\ wire'[j] = wire[old(j)]
  <2>1. wire \in Seq(Fitting(Len(found))) /\ i \in 1..Len(wire) /\ Len(wire) \in Nat
        /\ DOMAIN wire = 1..Len(wire)
    BY DEF Inductive, WireFits
  <2>2. /\ DOMAIN wire' = 1..Len(wire) - 1
        /\ \A j \in 1..Len(wire) - 1 :
             (j < i => wire'[j] = wire[j]) /\ (j >= i => wire'[j] = wire[j + 1])
    BY <2>1, RemoveAtElements
  <2> QED BY <2>1, <2>2
<1>3. \A j, k \in DOMAIN wire' : j # k => old(j) # old(k)
  <2>1. \A j \in DOMAIN wire' : j \in Nat
    <3>1. wire' \in Seq(Fitting(Len(found)))
      BY RemoveAtType DEF Inductive, WireFits
    <3> QED BY <3>1
  <2>2. i \in Nat
    BY DEF Inductive, WireFits
  <2> QED BY <2>1, <2>2
<1> HIDE DEF old
<1>4. ContentInv'
  <2>1. ASSUME NEW j \in DOMAIN wire' PROVE AsFound(wire[j])'
    <3>1. PICK pkt : pkt = wire'[j]
      OBVIOUS
    <3>2. AsFound(pkt)
      BY <1>2, <3>1 DEF SendingInv, ContentInv
    <3>3. AsFound(pkt)'
      BY <1>1, <3>2, AsFoundStays
    <3> QED BY <3>1, <3>3
  <2> QED BY <2>1 DEF ContentInv
<1>5. HeldInv'
  BY <1>1, <1>2 DEF SendingInv, HeldInv, HeldIsLatest, LatestBefore
<1>6. FreshInv'
  BY <1>2, <1>3 DEF SendingInv, FreshInv
<1> QED BY <1>4, <1>5, <1>6 DEF SendingInv

\* Nothing but the packetizer and the network touch what is under way.
LEMMA SendingStep == Inductive /\ SendingInv /\ [Next]_vars => SendingInv'
<1> SUFFICES ASSUME Inductive, SendingInv, [Next]_vars PROVE SendingInv'
  OBVIOUS
<1>1. ASSUME Scanning, Advance, UNCHANGED wire
      PROVE  \E new \in Seq(Fitting(Len(found'))) :
               /\ wire' = wire \o new
               /\ \A k \in DOMAIN new : AsFound(new[k])' /\ new[k].kind # "stapa"
  <2>1. wire \in Seq(Fitting(Len(found))) /\ <<>> \in Seq(Fitting(Len(found')))
    BY EmptySeq DEF Inductive, WireFits
  <2>2. wire' = wire \o <<>>
    BY <1>1, <2>1, ConcatEmptySeq
  <2>3. PICK new : new = <<>>
    OBVIOUS
  <2>4. DOMAIN new = {}
    BY <2>3
  <2> QED BY <2>1, <2>2, <2>3, <2>4
<1>2. CASE SkipNalu
  <2>1. /\ Scanning /\ Advance /\ UNCHANGED <<sps_nalu_, pps_nalu_, wire>>
        /\ ThisNalu # <<>> => ThisNalu[1] # SPS /\ ThisNalu[1] # PPS
    BY <1>2 DEF SkipNalu, Skipped, SPS, PPS
  <2> QED BY <1>1, <2>1, SendingTurn
<1>3. CASE SetSPS
  <2>1. /\ Scanning /\ Advance /\ UNCHANGED <<pps_nalu_, wire>>
        /\ sps_nalu_' = <<ThisId>> /\ ThisNalu # <<>> /\ ThisNalu[1] = SPS
        /\ ~disable_stapa_ /\ ThisNalu[1] # PPS
    BY <1>3 DEF SetSPS, SPS, PPS
  <2>2. UNCHANGED sps_nalu_ => FALSE
    <3>1. ASSUME UNCHANGED sps_nalu_ PROVE FALSE
      <4>1. sps_nalu_ = <<ThisId>> /\ ThisId = Len(found) + 1 /\ Len(found) \in Nat
        BY <2>1, <3>1, TurnFinds
      <4>2. sps_nalu_[1] \in 1..Len(found)
        BY <4>1 DEF Inductive, TypeOK, Ids
      <4> QED BY <4>1, <4>2
    <3> QED BY <3>1
  <2> QED BY <1>1, <2>1, <2>2, SendingTurn
<1>4. CASE SetPPS
  <2>1. /\ Scanning /\ Advance /\ UNCHANGED <<sps_nalu_, wire>>
        /\ pps_nalu_' = <<ThisId>> /\ ThisNalu # <<>> /\ ThisNalu[1] = PPS
        /\ ~disable_stapa_ /\ ThisNalu[1] # SPS
    BY <1>4 DEF SetPPS, SPS, PPS
  <2>2. UNCHANGED pps_nalu_ => FALSE
    <3>1. ASSUME UNCHANGED pps_nalu_ PROVE FALSE
      <4>1. pps_nalu_ = <<ThisId>> /\ ThisId = Len(found) + 1 /\ Len(found) \in Nat
        BY <2>1, <3>1, TurnFinds
      <4>2. pps_nalu_[1] \in 1..Len(found)
        BY <4>1 DEF Inductive, TypeOK, Ids
      <4> QED BY <4>1, <4>2
    <3> QED BY <3>1
  <2> QED BY <1>1, <2>1, <2>2, SendingTurn
<1>5. ASSUME Sendable
      PROVE  /\ sps_nalu_ # <<>> => ThisNalu[1] # SPS
             /\ pps_nalu_ # <<>> => ThisNalu[1] # PPS
  BY <1>5 DEF Sendable, IsHeld, SendingInv, HeldInv, HeldIsLatest
<1>6. CASE SendSingle
  <2>1. /\ Scanning /\ Advance /\ UNCHANGED <<sps_nalu_, pps_nalu_>> /\ Sendable
        /\ ThisNalu # <<>> /\ Len(ThisNalu) <= Mtu
        /\ wire' = Append(wire, Single(ThisId, ThisNalu))
    BY <1>6 DEF SendSingle, Sendable
  <2>2. PICK pkt : pkt = Single(ThisId, ThisNalu)
    OBVIOUS
  <2>3. /\ ThisId \in Ids' /\ found'[ThisId] = ThisNalu /\ ThisNalu \in Seq(Nat)
        /\ Len(found') \in Nat
    BY <2>1, TurnFinds, TurnOfLoop
  <2>4. AsFound(pkt)' /\ pkt.kind # "stapa"
    <3>1. PICK c : c = ThisId
      OBVIOUS
    <3>2. c \in Ids' /\ pkt = Single(c, found'[c])
      BY <2>2, <2>3, <3>1
    <3> QED BY <3>2 DEF AsFound, Single
  <2>5. pkt \in Fitting(Len(found'))
    BY <2>1, <2>2, <2>3, SingleFits DEF Ids
  <2>6. wire \in Seq(Fitting(Len(found'))) /\ wire' = wire \o <<pkt>>
    <3>1. wire \in Seq(Fitting(Len(found')))
      BY <2>1, HeldStay
    <3> QED BY <2>1, <2>2, <2>5, <3>1, AppendIsConcat
  <2>7. <<pkt>> \in Seq(Fitting(Len(found'))) /\ \A k \in DOMAIN <<pkt>> : <<pkt>>[k] = pkt
    BY <2>5
  <2>8. \A k \in DOMAIN <<pkt>> : AsFound(<<pkt>>[k])' /\ <<pkt>>[k].kind # "stapa"
    BY <2>4, <2>7
  <2> QED BY <1>5, <2>1, <2>6, <2>7, <2>8, SendingTurn
<1>7. CASE SendFragments
  <2>1. /\ Scanning /\ Advance /\ UNCHANGED <<sps_nalu_, pps_nalu_>> /\ Sendable
        /\ ThisNalu # <<>> /\ Len(ThisNalu) > Mtu
        /\ wire' = wire \o CreateFUAPackets(ThisId, ThisNalu)
    BY <1>7 DEF SendFragments, Sendable
  <2>2. CreateFUAPackets(ThisId, ThisNalu) \in Seq(Fitting(Len(found')))
    BY <2>1, TurnFinds, TurnOfLoop, FragmentsFit DEF Ids
  <2>3. PICK c, nalu : c = ThisId /\ nalu = ThisNalu
    OBVIOUS
  <2>4. PICK new : new = CreateFUAPackets(c, nalu)
    OBVIOUS
  <2>5. \A k \in DOMAIN new : AsFound(new[k])' /\ new[k].kind # "stapa"
    BY <2>1, <2>3, <2>4, FragmentsAreFound
  <2> QED BY <1>5, <2>1, <2>2, <2>3, <2>4, <2>5, SendingTurn
<1>8. CASE SendAggregate
  BY <1>8, SendingAggregate
<1>9. CASE UNCHANGED <<found, sps_nalu_, pps_nalu_, disable_stapa_, wire>>
  <2>1. Ids' = Ids /\ Len(found) \in Nat
    BY <1>9 DEF Ids, Inductive, TypeOK
  <2>2. \A pkt : AsFound(pkt) => AsFound(pkt)'
    BY <1>9, <2>1, AsFoundStays
  <2>3. ContentInv'
    <3>1. ASSUME NEW i \in DOMAIN wire' PROVE AsFound(wire[i])'
      <4>1. PICK pkt : pkt = wire[i]
        OBVIOUS
      <4>2. AsFound(pkt)
        BY <1>9, <4>1 DEF SendingInv, ContentInv
      <4> QED BY <1>9, <2>2, <4>1, <4>2
    <3> QED BY <3>1 DEF ContentInv
  <2>4. HeldInv'
    BY <1>9 DEF SendingInv, HeldInv, HeldIsLatest, LatestBefore
  <2>5. FreshInv'
    BY <1>9 DEF SendingInv, FreshInv
  <2> QED BY <2>3, <2>4, <2>5 DEF SendingInv
<1>10. CASE \E frame : Payload(frame)
  BY <1>9, <1>10 DEF Payload
<1>11. CASE UNCHANGED vars
  BY <1>9, <1>11 DEF vars
<1>12. CASE \/ Lose
            \/ \E i \in DOMAIN wire : ReceiveSingle(i)
            \/ \E i \in DOMAIN wire : ReceiveAggregate(i)
            \/ \E i \in DOMAIN wire : ReceiveFragment(i)
            \/ \E i \in DOMAIN wire : ReceiveLastFragment(i)
  <2>1. \E i \in DOMAIN wire : wire' = RemoveAt(wire, i) /\ ReceiverUnchanged
    BY <1>12 DEF Lose, ReceiveSingle, ReceiveAggregate, ReceiveFragment,
                 ReceiveLastFragment, Take, ReceiverUnchanged
  <2> QED BY <2>1, SendingTake
<1> QED BY <1>2, <1>3, <1>4, <1>6, <1>7, <1>8, <1>10, <1>11, <1>12
        DEF Next, PayloaderNext

\* What is under way is as it was found, in every reachable state.
THEOREM SendingHolds == Spec => []SendingInv
<1>1. Init => SendingInv
  BY DEF Init, PayloaderInit, SendingInv, ContentInv, HeldInv, FreshInv, HeldIsLatest
<1> QED BY <1>1, SendingStep, InductiveHolds, PTL DEF Spec

\* For any buffers, over any number of calls: an aggregate has the last
\* parameter sets before its picture, and no set is in two of them.
THEOREM SetsAreFresh == Spec => []ParameterSetsFresh
<1>1. SendingInv => ParameterSetsFresh
  BY AggregateIs DEF SendingInv, ContentInv, FreshInv, ParameterSetsFresh
<1> QED BY <1>1, SendingHolds, PTL

-----------------------------------------------------------------------------
(* Damage is contained.                                                     *)

\* What arrived are fragments of units that were found.
ArrivedInv ==
  \A i \in DOMAIN arrived :
    /\ Len(found[arrived[i].id]) > Mtu
    /\ arrived[i].part \in 1..FragmentCount(found[arrived[i].id])
    /\ arrived[i].e = (arrived[i].part = FragmentCount(found[arrived[i].id]))

\* The k that end with the i-th are the first k of one unit, behind an end.
IsRun(frags, i, k, id) ==
  /\ \A j \in 1..k : frags[i - k + j].id = id /\ frags[i - k + j].part = j
  /\ k < i => frags[i - k].e

EndsInRun(k) == IsRun(arrived, Len(arrived), k, arrived[Len(arrived)].id)

\* The bytes of the first k fragments of a unit.
FirstBytes(nalu, k) == SubSeq(nalu, 2, k * MaxFragment + 1)

\* After such a run the buffer holds exactly their bytes: this, and not only
\* what the buffer holds at an end, is what the next fragment relies on.
BufferInv ==
  /\ EndsInRun(0) => fua_buffer_ = <<>>
  /\ \A k \in 1..Len(arrived) :
       EndsInRun(k) /\ ~arrived[Len(arrived)].e =>
         fua_buffer_ = FirstBytes(found[arrived[Len(arrived)].id], k)

ReceivingInv == ArrivedInv /\ BufferInv /\ DamageIsContained

\* Where the fragments of a unit end: each but the last is full, and the last
\* one ends with the unit.
LEMMA FragmentEnds ==
  ASSUME NEW L \in Nat, L > Mtu, NEW k \in 1..(L - 2) \div MaxFragment + 1
  PROVE  /\ MaxFragment \in Nat \ {0}
         /\ (k - 1) * MaxFragment \in Nat
         /\ k * MaxFragment = (k - 1) * MaxFragment + MaxFragment
         /\ (k - 1) * MaxFragment + 2 <= L
         /\ k < (L - 2) \div MaxFragment + 1 => k * MaxFragment + 2 <= L
         /\ k = (L - 2) \div MaxFragment + 1 => L <= k * MaxFragment + 1
<1> DEFINE q == (L - 2) \div MaxFragment
<1>1. MaxFragment \in Nat \ {0} /\ L - 2 \in Nat
  BY MtuAssumption DEF MaxFragment
<1>2. q \in Nat /\ MaxFragment * q <= L - 2 /\ L - 2 < MaxFragment * q + MaxFragment
  BY <1>1
<1> HIDE DEF q
<1>3. k - 1 \in Nat /\ k - 1 <= q /\ k \in Nat
  BY <1>2 DEF q
<1>4. (k - 1) * MaxFragment \in Nat /\ k * MaxFragment = (k - 1) * MaxFragment + MaxFragment
  BY <1>1, <1>3
<1>5. \A m \in Nat : m <= q => m * MaxFragment <= MaxFragment * q
  BY <1>1, <1>2
<1>6. (k - 1) * MaxFragment + 2 <= L
  BY <1>1, <1>2, <1>3, <1>4, <1>5
<1>7. ASSUME k < q + 1 PROVE k * MaxFragment + 2 <= L
  <2>1. k * MaxFragment <= MaxFragment * q
    BY <1>2, <1>3, <1>5, <1>7
  <2> QED BY <1>1, <1>2, <1>4, <2>1
<1>8. ASSUME k = q + 1 PROVE L <= k * MaxFragment + 1
  <2>1. (k - 1) * MaxFragment = MaxFragment * q
    BY <1>1, <1>2, <1>8
  <2> QED BY <1>1, <1>2, <1>4, <2>1
<1> QED BY <1>1, <1>4, <1>6, <1>7, <1>8 DEF q

\* Bytes that are put together in one order or the other are the same.
LEMMA BytesAssociate ==
  ASSUME NEW a \in Seq(Nat), NEW b \in Seq(Nat), NEW c \in Seq(Nat)
  PROVE  a \o b \o c = a \o (b \o c)
BY ConcatAssociative

\* A fragment continues the bytes of those before it, and the last completes
\* the unit.
LEMMA FragmentBytes ==
  ASSUME NEW nalu \in Seq(Nat), Len(nalu) > Mtu, NEW k \in 1..FragmentCount(nalu)
  PROVE  LET data == Data(nalu, (k - 1) * MaxFragment + 2)
         IN /\ FirstBytes(nalu, 0) = <<>>
            /\ k < FragmentCount(nalu) =>
                 FirstBytes(nalu, k - 1) \o data = FirstBytes(nalu, k)
            /\ k = FragmentCount(nalu) =>
                 <<nalu[1]>> \o FirstBytes(nalu, k - 1) \o data = nalu
<1> DEFINE at == (k - 1) * MaxFragment
           end == Least(at + 2 + MaxFragment - 1, Len(nalu))
<1>1. /\ Len(nalu) \in Nat /\ MaxFragment \in Nat \ {0} /\ k \in Nat /\ at \in Nat
      /\ k * MaxFragment = at + MaxFragment /\ at + 2 <= Len(nalu)
      /\ k < FragmentCount(nalu) => k * MaxFragment + 2 <= Len(nalu)
      /\ k = FragmentCount(nalu) => Len(nalu) <= k * MaxFragment + 1
  <2>1. k \in 1..(Len(nalu) - 2) \div MaxFragment + 1 /\ Len(nalu) \in Nat
    BY DEF FragmentCount
  <2> QED BY <2>1, FragmentEnds DEF FragmentCount
<1>2. Data(nalu, at + 2) = SubSeq(nalu, at + 2, end)
  BY DEF Data
<1>3. FirstBytes(nalu, k - 1) = SubSeq(nalu, 2, at + 1)
  BY DEF FirstBytes
<1>4. FirstBytes(nalu, k) = SubSeq(nalu, 2, at + MaxFragment + 1)
  BY <1>1 DEF FirstBytes
<1>5. /\ k < FragmentCount(nalu) => end = at + MaxFragment + 1 /\ end <= Len(nalu)
      /\ k = FragmentCount(nalu) => end = Len(nalu)
  BY <1>1 DEF Least
<1> HIDE DEF at, end
<1>6. FirstBytes(nalu, 0) = <<>>
  <2>1. 0 * MaxFragment + 1 = 1
    BY <1>1
  <2> QED BY <2>1, SubSeqEmpty DEF FirstBytes
<1>7. ASSUME NEW n \in at + 1..Len(nalu)
      PROVE  SubSeq(nalu, 2, at + 1) \o SubSeq(nalu, at + 2, n) = SubSeq(nalu, 2, n)
  <2>1. /\ 2 \in 1..Len(nalu) + 1 /\ at + 1 \in 2 - 1..Len(nalu)
        /\ n \in at + 1..Len(nalu) /\ at + 1 + 1 = at + 2
    BY <1>1
  <2> QED BY <2>1, ConcatAdjacentSubSeq
<1>8. ASSUME k < FragmentCount(nalu)
      PROVE  FirstBytes(nalu, k - 1) \o Data(nalu, at + 2) = FirstBytes(nalu, k)
  <2>1. end \in at + 1..Len(nalu)
    BY <1>1, <1>5, <1>8
  <2>2. SubSeq(nalu, 2, at + 1) \o SubSeq(nalu, at + 2, end) = SubSeq(nalu, 2, end)
    BY <1>7, <2>1
  <2>3. end = at + MaxFragment + 1
    BY <1>5, <1>8
  <2> QED BY <1>2, <1>3, <1>4, <2>2, <2>3, Zenon
<1>9. ASSUME k = FragmentCount(nalu)
      PROVE  <<nalu[1]>> \o FirstBytes(nalu, k - 1) \o Data(nalu, at + 2) = nalu
  <2>1. Len(nalu) \in at + 1..Len(nalu) /\ 1 \in 1..Len(nalu)
    BY <1>1
  <2>2. FirstBytes(nalu, k - 1) \o Data(nalu, at + 2) = SubSeq(nalu, 2, Len(nalu))
    BY <1>2, <1>3, <1>5, <1>7, <1>9, <2>1
  <2>3. SubSeq(nalu, 1, Len(nalu)) = <<nalu[1]>> \o SubSeq(nalu, 1 + 1, Len(nalu))
    BY <2>1, SubSeqRecursiveFirst
  <2>4. SubSeq(nalu, 1, Len(nalu)) = nalu
    BY SubSeqFull
  <2>5. PICK a, b, c : /\ a = <<nalu[1]>> /\ b = FirstBytes(nalu, k - 1)
                       /\ c = Data(nalu, at + 2)
    OBVIOUS
  <2>6. a \in Seq(Nat) /\ b \in Seq(Nat) /\ c \in Seq(Nat)
    <3>1. at + 1 \in 0..Len(nalu) /\ end \in 0..Len(nalu) /\ at + 2 \in Nat \ {0}
      BY <1>1, <1>5, <1>9
    <3>2. b \in Seq(Nat)
      <4>1. SubSeq(nalu, 2, at + 1) \in Seq(Nat)
        BY <3>1, PartOfBytes
      <4> QED BY <1>3, <2>5, <4>1
    <3>3. c \in Seq(Nat)
      BY <1>2, <2>5, <3>1, PartOfBytes
    <3>4. nalu[1] \in Nat
      BY <2>1
    <3> QED BY <2>5, <3>2, <3>3, <3>4
  <2>7. a \o b \o c = a \o (b \o c)
    BY <2>6, BytesAssociate
  <2>8. b \o c = SubSeq(nalu, 1 + 1, Len(nalu))
    <3>1. 1 + 1 = 2
      OBVIOUS
    <3> QED BY <2>2, <2>5, <3>1, Zenon
  <2>9. a \o b \o c = nalu
    BY <2>3, <2>4, <2>5, <2>7, <2>8, Zenon
  <2> QED BY <2>5, <2>9
<1> QED BY <1>6, <1>8, <1>9 DEF at

\* A unit that does not fit has a number of fragments.
LEMMA CountIsNumber ==
  ASSUME NEW L \in Nat, L > Mtu
  PROVE  (L - 2) \div MaxFragment + 1 \in Nat \ {0}
<1>1. \A x \in Nat, m \in Nat \ {0} : x \div m \in Nat
  OBVIOUS
<1>2. L - 2 \in Nat /\ MaxFragment \in Nat \ {0}
  BY MtuAssumption DEF MaxFragment
<1>3. (L - 2) \div MaxFragment \in Nat
  BY <1>1, <1>2
<1> QED BY <1>3

\* What arrived belongs to units that were found.
LEMMA ArrivedIds ==
  ASSUME Inductive
  PROVE  /\ DOMAIN arrived = 1..Len(arrived) /\ Len(arrived) \in Nat
         /\ \A i \in DOMAIN arrived :
              /\ arrived[i].id \in Ids /\ found[arrived[i].id] \in Seq(Nat)
              /\ Len(found[arrived[i].id]) \in Nat
<1>1. /\ arrived \in Seq([id : Ids, part : Nat, e : BOOLEAN])
      /\ found \in Seq(Seq(Nat) \ {<<>>})
  BY DEF Inductive, TypeOK
<1>2. DOMAIN arrived = 1..Len(arrived) /\ Len(arrived) \in Nat
  BY <1>1
<1>3. ASSUME NEW i \in DOMAIN arrived
      PROVE  /\ arrived[i].id \in Ids /\ found[arrived[i].id] \in Seq(Nat)
             /\ Len(found[arrived[i].id]) \in Nat
  <2>1. arrived[i] \in [id : Ids, part : Nat, e : BOOLEAN]
    BY <1>1, <1>2, <1>3, ElementOfSeq
  <2>2. PICK c : c = arrived[i].id
    OBVIOUS
  <2>3. c \in Ids
    BY <2>1, <2>2
  <2>4. found[c] \in Seq(Nat)
    BY <1>1, <2>3 DEF Ids
  <2> QED BY <2>2, <2>3, <2>4
<1> QED BY <1>2, <1>3

\* What a fragment under way says.
LEMMA FragmentIs ==
  ASSUME Inductive, NEW pkt, AsFound(pkt), pkt.kind = "fua"
  PROVE  /\ pkt.id \in Ids /\ found[pkt.id] \in Seq(Nat)
         /\ Len(found[pkt.id]) > Mtu
         /\ pkt.part \in 1..FragmentCount(found[pkt.id])
         /\ FragmentCount(found[pkt.id]) \in Nat
         /\ pkt.e = (pkt.part = FragmentCount(found[pkt.id]))
         /\ pkt.type = found[pkt.id][1]
         /\ pkt.data = Data(found[pkt.id], (pkt.part - 1) * MaxFragment + 2)
<1>1. PICK c \in Ids : \E k \in 1..FragmentCount(found[c]) :
        pkt = Fragment(c, found[c], k) /\ Len(found[c]) > Mtu
  <2>1. ~\E c \in Ids : pkt = Single(c, found[c])
    BY DEF Single
  <2>2. ~\E a, b, c \in Ids :
           pkt = Aggregate(<<a, b, c>>, <<found[a], found[b], found[c]>>)
    BY DEF Aggregate
  <2> QED BY <2>1, <2>2 DEF AsFound
<1>2. PICK k \in 1..FragmentCount(found[c]) :
        pkt = Fragment(c, found[c], k) /\ Len(found[c]) > Mtu
  BY <1>1
<1>3. found[c] \in Seq(Nat)
  BY DEF Inductive, TypeOK, Ids
<1>4. Len(found[c]) \in Nat
  BY <1>3
<1>5. FragmentCount(found[c]) \in Nat
  BY <1>2, <1>4, CountIsNumber DEF FragmentCount
<1>6. pkt.id = c /\ pkt.part = k
  BY <1>2 DEF Fragment
<1>7. pkt.type = found[c][1] /\ pkt.e = (k = FragmentCount(found[c]))
  BY <1>2 DEF Fragment
<1>8. pkt.data = Data(found[c], (k - 1) * MaxFragment + 2)
  BY <1>2 DEF Fragment
<1> QED BY <1>2, <1>3, <1>5, <1>6, <1>7, <1>8

\* A step that takes no fragment in leaves the buffer as it should be, and what
\* was written stays written.
LEMMA ReceivingStays ==
  ASSUME Inductive, ReceivingInv, UNCHANGED <<arrived, fua_buffer_>>,
         \A c \in Ids : found'[c] = found[c],
         \A d \in DOMAIN delivered :
           d \in DOMAIN delivered' /\ delivered'[d] = delivered[d]
  PROVE  ReceivingInv'
<1>1. /\ \A i \in DOMAIN arrived : found'[arrived[i].id] = found[arrived[i].id]
      /\ DOMAIN arrived = 1..Len(arrived) /\ Len(arrived) \in Nat
  BY ArrivedIds
<1>2. ArrivedInv'
  BY <1>1 DEF ReceivingInv, ArrivedInv, FragmentCount
<1>3. BufferInv'
  <2>1. EndsInRun(0)' => fua_buffer_' = <<>>
    BY DEF ReceivingInv, BufferInv, EndsInRun, IsRun
  <2>2. ASSUME NEW k \in 1..Len(arrived), EndsInRun(k)', ~arrived[Len(arrived)].e
        PROVE  fua_buffer_' = FirstBytes(found'[arrived[Len(arrived)].id], k)
    <3>1. EndsInRun(k)
      BY <2>2 DEF EndsInRun, IsRun
    <3>2. Len(arrived) \in DOMAIN arrived
      BY <1>1
    <3> QED BY <1>1, <2>2, <3>1, <3>2 DEF ReceivingInv, BufferInv
  <2> QED BY <2>1, <2>2 DEF BufferInv, FirstBytes
<1>4. DamageIsContained'
  <2>1. ASSUME NEW i \in DOMAIN arrived, ArrivedWhole(i)'
        PROVE  \E d \in DOMAIN delivered' :
                 /\ delivered'[d].id = arrived[i].id
                 /\ delivered'[d].nalu = found'[arrived[i].id]
    <3>1. ArrivedWhole(i)
      BY <1>1, <2>1 DEF ArrivedWhole, FragmentCount
    <3> QED BY <1>1, <2>1, <3>1 DEF ReceivingInv, DamageIsContained
  <2> QED BY <2>1 DEF DamageIsContained
<1> QED BY <1>2, <1>3, <1>4 DEF ReceivingInv

\* A fragment arrives.  If it ends a run, it continues the run that was there,
\* whose bytes are in the buffer.
LEMMA FragmentArrives ==
  ASSUME Inductive, ReceivingInv, NEW pkt, AsFound(pkt), pkt.kind = "fua",
         arrived' = Append(arrived, [id |-> pkt.id, part |-> pkt.part, e |-> pkt.e]),
         fua_buffer_' = IF pkt.e THEN <<>> ELSE fua_buffer_ \o pkt.data,
         UNCHANGED found,
         \A d \in DOMAIN delivered :
           d \in DOMAIN delivered' /\ delivered'[d] = delivered[d],
         pkt.e => \E d \in DOMAIN delivered' :
           delivered'[d] = [id |-> pkt.id,
                            nalu |-> <<pkt.type>> \o fua_buffer_ \o pkt.data]
  PROVE  ReceivingInv'
<1> DEFINE N == Len(arrived)
           nalu == found[pkt.id]
<1>1. /\ N \in Nat /\ Len(arrived') = N + 1
      /\ DOMAIN arrived = 1..N /\ DOMAIN arrived' = 1..N + 1
      /\ \A i \in 1..N : arrived'[i] = arrived[i]
      /\ arrived'[N + 1].id = pkt.id /\ arrived'[N + 1].part = pkt.part
      /\ arrived'[N + 1].e = pkt.e
  <2>1. arrived \in Seq([id : Ids, part : Nat, e : BOOLEAN])
    BY DEF Inductive, TypeOK
  <2>2. PICK new : new = [id |-> pkt.id, part |-> pkt.part, e |-> pkt.e]
    OBVIOUS
  <2>3. /\ N \in Nat /\ Len(arrived') = N + 1
        /\ DOMAIN arrived = 1..N /\ DOMAIN arrived' = 1..N + 1
        /\ \A i \in 1..N : arrived'[i] = arrived[i]
        /\ arrived'[N + 1] = new
    BY <2>1, <2>2
  <2> QED BY <2>2, <2>3
<1>2. /\ nalu \in Seq(Nat) /\ Len(nalu) > Mtu
      /\ pkt.part \in 1..FragmentCount(nalu) /\ FragmentCount(nalu) \in Nat
      /\ pkt.e = (pkt.part = FragmentCount(nalu))
      /\ pkt.type = nalu[1]
      /\ pkt.data = Data(nalu, (pkt.part - 1) * MaxFragment + 2)
  BY FragmentIs
<1>3. \A i \in 1..N :
        /\ arrived[i].part \in 1..FragmentCount(found[arrived[i].id])
        /\ arrived[i].e = (arrived[i].part = FragmentCount(found[arrived[i].id]))
  BY <1>1 DEF ReceivingInv, ArrivedInv
<1>4. FirstBytes(nalu, 0) = <<>>
  BY <1>2, FragmentBytes
<1> HIDE DEF N, nalu
<1>5. ArrivedInv'
  <2>1. ASSUME NEW i \in 1..N + 1
        PROVE  /\ Len(found[arrived'[i].id]) > Mtu
               /\ arrived'[i].part \in 1..FragmentCount(found[arrived'[i].id])
               /\ arrived'[i].e = (arrived'[i].part = FragmentCount(found[arrived'[i].id]))
    <3>1. CASE i \in 1..N
      BY <1>1, <3>1 DEF ReceivingInv, ArrivedInv
    <3>2. CASE i = N + 1
      BY <1>1, <1>2, <3>2 DEF nalu
    <3> QED BY <1>1, <3>1, <3>2
  <2> QED BY <1>1, <2>1 DEF ArrivedInv, FragmentCount
<1>6. ASSUME NEW k \in 1..N + 1, k <= FragmentCount(nalu),
             IsRun(arrived', N + 1, k, pkt.id)
      PROVE  k = pkt.part /\ fua_buffer_ = FirstBytes(nalu, k - 1)
  <2>1. k = pkt.part
    <3>1. (N + 1) - k + k = N + 1 /\ k \in 1..k
      BY <1>1
    <3>2. arrived'[(N + 1) - k + k].part = k
      BY <1>6, <3>1 DEF IsRun
    <3> QED BY <1>1, <3>1, <3>2, Zenon
  <2>2. CASE k = 1
    <3>1. 0 < N => arrived[N].e
      <4>1. ASSUME 0 < N PROVE arrived[N].e
        <5>1. (N + 1) - k = N /\ N \in 1..N /\ k < N + 1
          BY <1>1, <2>2, <4>1
        <5> QED BY <1>1, <1>6, <5>1 DEF IsRun
      <4> QED BY <4>1
    <3>2. EndsInRun(0)
      <4>1. N - 0 = N
        BY <1>1
      <4> QED BY <3>1, <4>1 DEF EndsInRun, IsRun, N
    <3>3. fua_buffer_ = <<>> /\ k - 1 = 0
      BY <2>2, <3>2 DEF ReceivingInv, BufferInv
    <3> QED BY <1>4, <2>1, <3>3
  <2>3. CASE k # 1
    <3>1. k - 1 \in 1..N /\ N \in 1..N
      BY <1>1, <2>3
    <3>2. ASSUME NEW j \in 1..k - 1
          PROVE  /\ arrived[N - (k - 1) + j].id = pkt.id
                 /\ arrived[N - (k - 1) + j].part = j
      <4>1. j \in 1..k /\ (N + 1) - k + j = N - (k - 1) + j /\ N - (k - 1) + j \in 1..N
        BY <1>1, <3>1
      <4> QED BY <1>1, <1>6, <4>1 DEF IsRun
    <3>3. arrived[N].id = pkt.id /\ arrived[N].part = k - 1
      <4>1. N - (k - 1) + (k - 1) = N /\ k - 1 \in 1..k - 1
        BY <1>1, <3>1
      <4> QED BY <3>2, <4>1
    <3>4. k - 1 < N => arrived[N - (k - 1)].e
      <4>1. ASSUME k - 1 < N PROVE arrived[N - (k - 1)].e
        <5>1. (N + 1) - k = N - (k - 1) /\ N - (k - 1) \in 1..N /\ k < N + 1
          BY <1>1, <3>1, <4>1
        <5> QED BY <1>1, <1>6, <5>1 DEF IsRun
      <4> QED BY <4>1
    <3>5. EndsInRun(k - 1)
      BY <3>2, <3>3, <3>4 DEF EndsInRun, IsRun, N
    <3>6. ~arrived[N].e
      <4>1. k - 1 # FragmentCount(nalu)
        BY <1>2, <1>6
      <4> QED BY <1>3, <3>1, <3>3, <4>1 DEF nalu
    <3>7. fua_buffer_ = FirstBytes(nalu, k - 1)
      BY <3>1, <3>3, <3>5, <3>6 DEF ReceivingInv, BufferInv, N, nalu
    <3> QED BY <2>1, <3>7
  <2> QED BY <2>2, <2>3
<1>7. BufferInv'
  <2>1. EndsInRun(0)' => fua_buffer_' = <<>>
    <3>1. 0 < N + 1 /\ (N + 1) - 0 = N + 1
      BY <1>1
    <3>2. EndsInRun(0)' => pkt.e
      BY <1>1, <3>1 DEF EndsInRun, IsRun
    <3> QED BY <3>2
  <2>2. ASSUME NEW k \in 1..N + 1, EndsInRun(k)', ~arrived'[N + 1].e
        PROVE  fua_buffer_' = FirstBytes(nalu, k)
    <3>1. IsRun(arrived', N + 1, k, pkt.id)
      <4>1. IsRun(arrived', Len(arrived'), k, arrived'[Len(arrived')].id)
        BY <2>2 DEF EndsInRun, IsRun
      <4>2. Len(arrived') = N + 1 /\ arrived'[Len(arrived')].id = pkt.id
        BY <1>1
      <4> QED BY <4>1, <4>2, Zenon
    <3>2. k = pkt.part
      <4>1. (N + 1) - k + k = N + 1 /\ k \in 1..k
        BY <1>1
      <4>2. arrived'[(N + 1) - k + k].part = k
        BY <3>1, <4>1 DEF IsRun
      <4> QED BY <1>1, <4>1, <4>2, Zenon
    <3>3. fua_buffer_ = FirstBytes(nalu, k - 1)
      <4>1. k <= FragmentCount(nalu)
        BY <1>2, <3>2
      <4> QED BY <1>6, <3>1, <4>1, Zenon
    <3>4. ~pkt.e /\ k \in 1..FragmentCount(nalu) /\ k < FragmentCount(nalu)
      <4>1. ~pkt.e
        BY <1>1, <2>2
      <4>2. k # FragmentCount(nalu)
        BY <1>2, <3>2, <4>1, Zenon
      <4> QED BY <1>2, <3>2, <4>1, <4>2
    <3>5. FirstBytes(nalu, k - 1) \o Data(nalu, (k - 1) * MaxFragment + 2)
            = FirstBytes(nalu, k)
      BY <1>2, <3>4, FragmentBytes
    <3>6. fua_buffer_' = fua_buffer_ \o pkt.data
      BY <3>4
    <3> QED BY <1>2, <3>2, <3>3, <3>5, <3>6, Zenon
  <2>3. found'[arrived'[N + 1].id] = nalu
    BY <1>1 DEF nalu
  <2> QED BY <1>1, <2>1, <2>2, <2>3 DEF BufferInv, FirstBytes
<1>8. DamageIsContained'
  <2>1. ASSUME NEW i \in 1..N + 1, ArrivedWhole(i)'
        PROVE  \E d \in DOMAIN delivered' :
                 /\ delivered'[d].id = arrived'[i].id
                 /\ delivered'[d].nalu = found'[arrived'[i].id]
    <3>1. CASE i \in 1..N
      <4>1. ArrivedWhole(i)
        <5> DEFINE n == FragmentCount(found[arrived[i].id])
        <5>1. arrived'[i] = arrived[i] /\ n \in Nat /\ i \in Nat
          <6>1. Len(found[arrived[i].id]) \in Nat
            BY <1>1, <3>1, ArrivedIds
          <6>2. Len(found[arrived[i].id]) > Mtu
            BY <1>1, <3>1 DEF ReceivingInv, ArrivedInv
          <6>3. n \in Nat
            BY <6>1, <6>2, CountIsNumber DEF FragmentCount
          <6> QED BY <1>1, <3>1, <6>3
        <5>2. n <= i /\ IsRun(arrived', i, n, arrived[i].id)
          <6>1. /\ FragmentCount(found'[arrived'[i].id]) <= i
                /\ IsRun(arrived', i, FragmentCount(found'[arrived'[i].id]),
                         arrived'[i].id)
            BY <2>1 DEF ArrivedWhole, FragmentCount, IsRun
          <6>2. n = FragmentCount(found'[arrived'[i].id])
            BY <5>1
          <6> HIDE DEF n
          <6> QED BY <5>1, <6>1, <6>2
        <5>3. \A k \in 1..n : i - n + k \in 1..N
          BY <1>1, <3>1, <5>1, <5>2
        <5>4. n < i /\ n # 0 => i - n \in 1..N
          BY <1>1, <3>1, <5>1, <5>2
        <5>5. n # 0
          BY <1>3, <3>1, <5>1
        <5> HIDE DEF n
        <5>6. n <= i /\ IsRun(arrived, i, n, arrived[i].id)
          BY <1>1, <5>2, <5>3, <5>4, <5>5 DEF IsRun
        <5> QED BY <5>6 DEF ArrivedWhole, IsRun, n
      <4>2. i \in DOMAIN arrived /\ arrived'[i] = arrived[i]
        BY <1>1, <3>1
      <4> QED BY <4>1, <4>2 DEF ReceivingInv, DamageIsContained
    <3>2. CASE i = N + 1
      <4> DEFINE n == FragmentCount(nalu)
      <4>1. found[arrived'[N + 1].id] = nalu
        BY <1>1 DEF nalu
      <4>2. n <= N + 1 /\ IsRun(arrived', N + 1, n, pkt.id)
        <5>1. /\ FragmentCount(found'[arrived'[i].id]) <= i
              /\ IsRun(arrived', i, FragmentCount(found'[arrived'[i].id]),
                       arrived'[i].id)
          BY <2>1 DEF ArrivedWhole, FragmentCount, IsRun
        <5>2. arrived'[i].id = pkt.id /\ i = N + 1
          BY <1>1, <3>2
        <5>3. FragmentCount(found'[arrived'[i].id]) = n
          BY <3>2, <4>1
        <5> HIDE DEF n
        <5> QED BY <5>1, <5>2, <5>3
      <4>3. n \in 1..N + 1
        BY <1>1, <1>2, <4>2
      <4>4. n = pkt.part /\ fua_buffer_ = FirstBytes(nalu, n - 1)
        <5>1. n <= FragmentCount(nalu)
          BY <1>2
        <5> HIDE DEF n
        <5> QED BY <1>6, <4>2, <4>3, <5>1, Zenon
      <4>5. <<nalu[1]>> \o FirstBytes(nalu, n - 1)
              \o Data(nalu, (n - 1) * MaxFragment + 2) = nalu
        BY <1>2, <4>4, FragmentBytes
      <4>6. pkt.e
        BY <1>2, <4>4
      <4>7. <<pkt.type>> \o fua_buffer_ \o pkt.data = nalu
        BY <1>2, <4>4, <4>5, Zenon
      <4>8. PICK d \in DOMAIN delivered' :
              delivered'[d] = [id |-> pkt.id, nalu |-> nalu]
        BY <4>6, <4>7
      <4>9. arrived'[i].id = pkt.id /\ found'[arrived'[i].id] = nalu
        BY <1>1, <3>2, <4>1
      <4>10. delivered'[d].id = pkt.id /\ delivered'[d].nalu = nalu
        BY <4>8
      <4> QED BY <4>9, <4>10
    <3> QED BY <1>1, <3>1, <3>2
  <2> QED BY <1>1, <2>1 DEF DamageIsContained
<1> QED BY <1>5, <1>7, <1>8 DEF ReceivingInv

\* What is written later does not touch what was written.
LEMMA WrittenStays ==
  ASSUME NEW S, NEW s \in Seq(S), NEW t \in Seq(S)
  PROVE  \A d \in DOMAIN s : d \in DOMAIN (s \o t) /\ (s \o t)[d] = s[d]
<1>1. /\ Len(s) \in Nat /\ Len(t) \in Nat /\ DOMAIN s = 1..Len(s)
      /\ s \o t \in Seq(S) /\ Len(s \o t) = Len(s) + Len(t)
      /\ \A i \in 1..Len(s) + Len(t) :
           (s \o t)[i] = IF i <= Len(s) THEN s[i] ELSE t[i - Len(s)]
  BY ConcatProperties
<1>2. DOMAIN (s \o t) = 1..Len(s) + Len(t)
  BY <1>1
<1> QED BY <1>1, <1>2

\* The packetizer does not touch the units that it found.
LEMMA FoundStays ==
  ASSUME Inductive, PayloaderNext
  PROVE  \A c \in Ids : found'[c] = found[c]
<1>1. CASE Scanning /\ Advance
  BY <1>1, TurnFinds
<1>2. CASE UNCHANGED found
  BY <1>2
<1> QED BY <1>1, <1>2 DEF PayloaderNext, Payload, SkipNalu, SetSPS, SetPPS,
           SendAggregate, SendSingle, SendFragments, Sendable

\* The units that an aggregate carries.
OfAggregate(more, pkt) ==
  /\ DOMAIN more = 1..3 /\ Len(more) = 3 /\ more # <<>>
  /\ \A k \in 1..3 : more[k].id = pkt.ids[k] /\ more[k].nalu = pkt.nalus[k]

\* What the client writes when it takes a packet in: a unit, the three of an
\* aggregate, the unit that a last fragment completes, or nothing.
LEMMA TakenWritten ==
  ASSUME Inductive, SendingInv, NEW i \in DOMAIN wire, NEW pkt, pkt = wire[i]
  PROVE  /\ AsFound(pkt)
         /\ ReceiveSingle(i) =>
              \/ delivered' = delivered
              \/ /\ [id |-> pkt.ids[1], nalu |-> pkt.nalus[1]]
                      \in [id : Ids, nalu : Seq(Nat)]
                 /\ delivered' = Append(delivered,
                                   [id |-> pkt.ids[1], nalu |-> pkt.nalus[1]])
         /\ ReceiveAggregate(i) =>
              \E more \in Seq([id : Ids, nalu : Seq(Nat)]) :
                delivered' = delivered \o more /\ OfAggregate(more, pkt)
         /\ ReceiveLastFragment(i) =>
              /\ [id |-> pkt.id, nalu |-> <<pkt.type>> \o fua_buffer_ \o pkt.data]
                   \in [id : Ids, nalu : Seq(Nat)]
              /\ delivered' = Append(delivered,
                   [id |-> pkt.id,
                    nalu |-> <<pkt.type>> \o fua_buffer_ \o pkt.data])
<1>1. AsFound(pkt)
  BY DEF SendingInv, ContentInv
<1>2. pkt \in Whole(Len(found)) \cup Fragments(Len(found))
  BY OnWire
<1>3. Ids = 1..Len(found) /\ fua_buffer_ \in Seq(Nat)
  BY DEF Ids, Inductive, TypeOK
<1>4. ASSUME pkt.kind # "fua"
      PROVE  /\ pkt.ids \in Seq(Ids) /\ pkt.nalus \in Seq(Seq(Nat))
             /\ Len(pkt.ids) = Len(pkt.nalus) /\ pkt.ids # <<>>
  <2>1. pkt \in Whole(Len(found))
    BY <1>2, <1>4 DEF Fragments
  <2> QED BY <1>3, <2>1 DEF Whole
<1>5. ASSUME ReceiveSingle(i)
      PROVE  \/ delivered' = delivered
             \/ /\ [id |-> pkt.ids[1], nalu |-> pkt.nalus[1]]
                     \in [id : Ids, nalu : Seq(Nat)]
                /\ delivered' = Append(delivered,
                                  [id |-> pkt.ids[1], nalu |-> pkt.nalus[1]])
  <2>1. pkt.kind # "fua"
    BY <1>5 DEF ReceiveSingle
  <2>2. pkt.ids[1] \in Ids /\ pkt.nalus[1] \in Seq(Nat)
    BY <1>4, <2>1
  <2>3. [id |-> pkt.ids[1], nalu |-> pkt.nalus[1]] \in [id : Ids, nalu : Seq(Nat)]
    BY <2>2
  <2> QED BY <1>5, <2>3 DEF ReceiveSingle
<1>6. ASSUME ReceiveAggregate(i)
      PROVE  \E more \in Seq([id : Ids, nalu : Seq(Nat)]) :
               delivered' = delivered \o more /\ OfAggregate(more, pkt)
  <2>1. pkt.kind # "fua" /\ pkt.kind = "stapa"
    BY <1>6 DEF ReceiveAggregate
  <2>2. /\ pkt.ids \in Seq(Ids) /\ pkt.nalus \in Seq(Seq(Nat))
        /\ Len(pkt.ids) = 3 /\ Len(pkt.nalus) = 3
    BY <1>1, <1>4, <2>1, AggregateIs
  <2>3. PICK more : more = [k \in DOMAIN pkt.ids |->
                              [id |-> pkt.ids[k], nalu |-> pkt.nalus[k]]]
    OBVIOUS
  <2>4. DOMAIN pkt.ids = 1..3
    BY <2>2
  <2>5. more = [k \in 1..3 |-> [id |-> pkt.ids[k], nalu |-> pkt.nalus[k]]]
    BY <2>3, <2>4
  <2>6. \A k \in 1..3 : pkt.ids[k] \in Ids /\ pkt.nalus[k] \in Seq(Nat)
    BY <2>2
  <2>7. /\ more \in Seq([id : Ids, nalu : Seq(Nat)]) /\ Len(more) = 3
        /\ \A k \in 1..3 : more[k].id = pkt.ids[k] /\ more[k].nalu = pkt.nalus[k]
    BY <2>5, <2>6
  <2>8. delivered' = delivered \o more
    BY <1>6, <2>3 DEF ReceiveAggregate
  <2>9. DOMAIN more = 1..3 /\ more # <<>>
    BY <2>5
  <2>10. OfAggregate(more, pkt)
    BY <2>7, <2>9 DEF OfAggregate
  <2> QED BY <2>7, <2>8, <2>10
<1>7. ASSUME ReceiveLastFragment(i)
      PROVE  /\ [id |-> pkt.id, nalu |-> <<pkt.type>> \o fua_buffer_ \o pkt.data]
                  \in [id : Ids, nalu : Seq(Nat)]
             /\ delivered' = Append(delivered,
                  [id |-> pkt.id,
                   nalu |-> <<pkt.type>> \o fua_buffer_ \o pkt.data])
  <2>1. pkt.kind = "fua"
    BY <1>7 DEF ReceiveLastFragment
  <2>2. pkt \in Fragments(Len(found))
    BY <1>2, <2>1 DEF Whole
  <2>3. pkt.id \in Ids /\ pkt.type \in Nat /\ pkt.data \in Seq(Nat)
    BY <1>3, <2>2 DEF Fragments
  <2>4. <<pkt.type>> \in Seq(Nat)
    BY <2>3
  <2>5. <<pkt.type>> \o fua_buffer_ \in Seq(Nat)
    BY <1>3, <2>4, ConcatProperties
  <2>6. <<pkt.type>> \o fua_buffer_ \o pkt.data \in Seq(Nat)
    BY <2>3, <2>5, ConcatProperties
  <2> QED BY <1>7, <2>3, <2>6 DEF ReceiveLastFragment
<1> QED BY <1>1, <1>5, <1>6, <1>7

\* Every step keeps the buffer in order.
LEMMA ReceivingStep ==
  Inductive /\ SendingInv /\ ReceivingInv /\ [Next]_vars => ReceivingInv'
<1> SUFFICES ASSUME Inductive, SendingInv, ReceivingInv, [Next]_vars
             PROVE  ReceivingInv'
  OBVIOUS
<1> DEFINE Written == [id : Ids, nalu : Seq(Nat)]
<1>1. delivered \in Seq(Written)
  BY DEF Inductive, TypeOK
<1>2. ASSUME NEW unit \in Written, delivered' = Append(delivered, unit)
      PROVE  /\ \A d \in DOMAIN delivered :
                  d \in DOMAIN delivered' /\ delivered'[d] = delivered[d]
             /\ \E d \in DOMAIN delivered' : delivered'[d] = unit
  <2>1. /\ Len(delivered) \in Nat /\ Len(delivered') = Len(delivered) + 1
        /\ delivered' \in Seq(Written)
        /\ \A d \in 1..Len(delivered) : delivered'[d] = delivered[d]
        /\ delivered'[Len(delivered) + 1] = unit
    BY <1>1, <1>2, AppendProperties
  <2>2. DOMAIN delivered = 1..Len(delivered)
        /\ DOMAIN delivered' = 1..Len(delivered) + 1
    BY <1>1, <2>1
  <2>3. Len(delivered) + 1 \in DOMAIN delivered'
    BY <2>1, <2>2
  <2>4. \A d \in DOMAIN delivered : d \in DOMAIN delivered'
    BY <2>1, <2>2
  <2> QED BY <2>1, <2>2, <2>3, <2>4
<1>3. CASE PayloaderNext /\ UNCHANGED <<fua_buffer_, delivered, arrived, faults>>
  BY <1>3, FoundStays, ReceivingStays
<1>4. CASE UNCHANGED vars
  BY <1>4, ReceivingStays DEF vars
<1>5. CASE Lose
  BY <1>5, ReceivingStays DEF Lose
<1>6. ASSUME NEW i \in DOMAIN wire, ReceiveSingle(i) PROVE ReceivingInv'
  <2>1. UNCHANGED <<arrived, fua_buffer_, found>>
    BY <1>6 DEF ReceiveSingle, ReceiverUnchanged
  <2>2. PICK pkt : pkt = wire[i]
    OBVIOUS
  <2>3. \/ delivered' = delivered
        \/ \E unit \in Written : delivered' = Append(delivered, unit)
    BY <1>6, <2>2, TakenWritten
  <2>4. \A d \in DOMAIN delivered :
          d \in DOMAIN delivered' /\ delivered'[d] = delivered[d]
    BY <1>2, <2>3
  <2> QED BY <2>1, <2>4, ReceivingStays
<1>7. ASSUME NEW i \in DOMAIN wire, ReceiveAggregate(i) PROVE ReceivingInv'
  <2>1. UNCHANGED <<arrived, fua_buffer_, found>>
    BY <1>7 DEF ReceiveAggregate, ReceiverUnchanged
  <2>2. PICK pkt : pkt = wire[i]
    OBVIOUS
  <2>3. PICK more \in Seq(Written) : delivered' = delivered \o more
    BY <1>7, <2>2, TakenWritten
  <2>4. \A d \in DOMAIN delivered :
          d \in DOMAIN delivered' /\ delivered'[d] = delivered[d]
    BY <1>1, <2>3, WrittenStays
  <2> QED BY <2>1, <2>4, ReceivingStays
<1>8. ASSUME NEW i \in DOMAIN wire, ReceiveFragment(i) PROVE ReceivingInv'
  <2>1. PICK pkt : pkt = wire[i]
    OBVIOUS
  <2>2. AsFound(pkt)
    BY <2>1, TakenWritten
  <2>3. /\ pkt.kind = "fua" /\ ~pkt.e /\ UNCHANGED <<delivered, found>>
        /\ arrived' = Append(arrived, [id |-> pkt.id, part |-> pkt.part, e |-> pkt.e])
        /\ fua_buffer_' = IF pkt.e THEN <<>> ELSE fua_buffer_ \o pkt.data
    BY <1>8, <2>1 DEF ReceiveFragment, ReceiverUnchanged, Arrives
  <2> QED BY <2>2, <2>3, FragmentArrives
<1>9. ASSUME NEW i \in DOMAIN wire, ReceiveLastFragment(i) PROVE ReceivingInv'
  <2>1. PICK pkt : pkt = wire[i]
    OBVIOUS
  <2>2. PICK unit : unit = [id |-> pkt.id,
                            nalu |-> <<pkt.type>> \o fua_buffer_ \o pkt.data]
    OBVIOUS
  <2>3. AsFound(pkt) /\ unit \in Written /\ delivered' = Append(delivered, unit)
    BY <1>9, <2>1, <2>2, TakenWritten
  <2>4. /\ pkt.kind = "fua" /\ pkt.e /\ UNCHANGED found
        /\ arrived' = Append(arrived, [id |-> pkt.id, part |-> pkt.part, e |-> pkt.e])
        /\ fua_buffer_' = IF pkt.e THEN <<>> ELSE fua_buffer_ \o pkt.data
    BY <1>9, <2>1 DEF ReceiveLastFragment, ReceiverUnchanged, Arrives
  <2>5. /\ \A d \in DOMAIN delivered :
             d \in DOMAIN delivered' /\ delivered'[d] = delivered[d]
        /\ \E d \in DOMAIN delivered' : delivered'[d] = unit
    BY <1>2, <2>3
  <2> QED BY <2>2, <2>3, <2>4, <2>5, FragmentArrives
<1> QED BY <1>3, <1>4, <1>5, <1>6, <1>7, <1>8, <1>9 DEF Next

\* The buffer is in order in every reachable state.
THEOREM ReceivingHolds == Spec => []ReceivingInv
<1>1. Init => ReceivingInv
  BY DEF Init, ReceivingInv, ArrivedInv, BufferInv, DamageIsContained
<1> QED BY <1>1, ReceivingStep, SendingHolds, InductiveHolds, PTL DEF Spec

\* For any loss and reordering: a unit whose fragments arrive together and in
\* order behind an end is written as it was found.
THEOREM DamageStaysContained == Spec => []DamageIsContained
BY ReceivingHolds, PTL DEF ReceivingInv

-----------------------------------------------------------------------------
(* Nothing is lost or changed on a network that loses nothing and keeps the *)
(* order.                                                                   *)

\* The unit that a payload is sent for, and whether more of it must follow.
Main(pkt) == IF pkt.kind = "fua" THEN pkt.id ELSE pkt.ids[Len(pkt.ids)]
Unfinished(pkt) == pkt.kind = "fua" /\ ~pkt.e
Begins(pkt) == pkt.kind = "fua" => pkt.part = 1

\* Payloads are in the order of their units, and fragments follow each other.
OrderInv ==
  /\ \A i, j \in DOMAIN wire : i < j =>
       /\ Main(wire[i]) <= Main(wire[j])
       /\ ~Unfinished(wire[i]) => Main(wire[i]) < Main(wire[j])
  /\ \A i \in DOMAIN wire :
       /\ Unfinished(wire[i]) =>
            /\ i < Len(wire)
            /\ wire[i + 1] = Fragment(wire[i].id, found[wire[i].id], wire[i].part + 1)
       /\ ~Unfinished(wire[i]) /\ i < Len(wire) => Begins(wire[i + 1])

\* The client's buffer holds what comes before the next payload.
FrontInv ==
  fua_buffer_ = IF wire # <<>> /\ wire[1].kind = "fua"
                THEN FirstBytes(found[wire[1].id], wire[1].part - 1)
                ELSE <<>>

\* What was written is what was found, in order, and comes before what is
\* under way; no picture is missing in both.
LogInv ==
  /\ \A i \in DOMAIN delivered : delivered[i].nalu = found[delivered[i].id]
  /\ \A i \in DOMAIN delivered : ~IsParameterSet(delivered[i].nalu) =>
       /\ \A j \in DOMAIN delivered :
            i < j /\ ~IsParameterSet(delivered[j].nalu)
              => delivered[i].id < delivered[j].id
       /\ \A j \in DOMAIN wire : delivered[i].id < Main(wire[j])
  /\ Pictures \subseteq {delivered[i].id : i \in DOMAIN delivered}
                          \cup {Main(wire[j]) : j \in DOMAIN wire}

LosslessInv == faults = 0 => OrderInv /\ FrontInv /\ LogInv

\* The unit of a payload is one that was found.
LEMMA MainIs ==
  ASSUME Inductive, NEW pkt, AsFound(pkt)
  PROVE  /\ Main(pkt) \in Ids
         /\ pkt.kind = "single" =>
              pkt.ids[1] = Main(pkt) /\ pkt.nalus[1] = found[Main(pkt)]
         /\ pkt.kind = "stapa" => pkt.ids[3] = Main(pkt)
         /\ pkt.kind = "fua" => pkt.id = Main(pkt)
<1>1. CASE \E c \in Ids : pkt = Single(c, found[c])
  <2>1. PICK c \in Ids : pkt = Single(c, found[c])
    BY <1>1
  <2>2. pkt.kind = "single" /\ pkt.ids = <<c>> /\ pkt.nalus = <<found[c]>>
    BY <2>1 DEF Single
  <2>3. Main(pkt) = c
    BY <2>2 DEF Main
  <2> QED BY <2>1, <2>2, <2>3
<1>2. CASE pkt.kind = "stapa"
  <2>1. Len(pkt.ids) = 3 /\ pkt.ids[3] \in Ids
    BY <1>2, AggregateIs
  <2> QED BY <1>2, <2>1 DEF Main
<1>3. CASE pkt.kind = "fua"
  BY <1>3, FragmentIs DEF Main
<1> QED BY <1>1, <1>2, <1>3 DEF AsFound, Aggregate, Fragment

\* What was written belongs to units that were found.
LEMMA WrittenIds ==
  ASSUME Inductive
  PROVE  /\ DOMAIN delivered = 1..Len(delivered) /\ Len(delivered) \in Nat
         /\ \A i \in DOMAIN delivered : delivered[i].id \in Ids
<1>1. delivered \in Seq([id : Ids, nalu : Seq(Nat)])
  BY DEF Inductive, TypeOK
<1>2. DOMAIN delivered = 1..Len(delivered) /\ Len(delivered) \in Nat
  BY <1>1
<1>3. \A i \in DOMAIN delivered : delivered[i] \in [id : Ids, nalu : Seq(Nat)]
  BY <1>1, <1>2, ElementOfSeq
<1> QED BY <1>2, <1>3

\* The packetizer appends the payloads of the unit it found, if it sends one.
LEMMA LosslessTurn ==
  ASSUME Inductive, SendingInv, OrderInv, FrontInv, LogInv, Scanning, Advance,
         UNCHANGED <<fua_buffer_, delivered>>,
         NEW new \in Seq(Fitting(Len(found'))), wire' = wire \o new,
         \A k \in DOMAIN new :
           /\ Main(new[k]) = ThisId
           /\ Unfinished(new[k]) <=> k < Len(new)
           /\ k < Len(new) =>
                new[k + 1] = Fragment(new[k].id, found'[new[k].id], new[k].part + 1),
         new # <<>> => ThisNalu # <<>> /\ Begins(new[1]),
         ThisNalu # <<>> /\ IsPicture(ThisNalu) => new # <<>>
  PROVE  OrderInv' /\ FrontInv' /\ LogInv'
<1> DEFINE L == Len(wire)
<1>1. /\ wire \in Seq(Fitting(Len(found')))
      /\ L \in Nat /\ DOMAIN wire = 1..L /\ DOMAIN new = 1..Len(new)
      /\ Len(new) \in Nat /\ Len(wire') = L + Len(new)
      /\ DOMAIN wire' = 1..L + Len(new)
      /\ \A i \in 1..L : wire'[i] = wire[i]
      /\ \A i \in 1..Len(new) : wire'[L + i] = new[i]
  <2>1. wire \in Seq(Fitting(Len(found')))
    BY HeldStay
  <2> QED BY <2>1, ConcatProperties, LenProperties
<1> HIDE DEF L
<1>2. /\ Len(found) \in Nat /\ Ids \subseteq Ids' /\ Ids = 1..Len(found)
      /\ \A i \in Ids : found'[i] = found[i]
      /\ ThisNalu = <<>> => found' = found
      /\ ThisNalu # <<>> => /\ ThisId = Len(found) + 1 /\ Len(found') = ThisId
                            /\ found'[ThisId] = ThisNalu
  BY TurnFinds DEF Ids
<1>3. \A i \in 1..L : AsFound(wire[i]) /\ Main(wire[i]) \in Ids
  BY <1>1, MainIs DEF SendingInv, ContentInv
<1>4. \A i \in DOMAIN wire' :
        \/ i \in 1..L /\ wire'[i] = wire[i]
        \/ \E k \in 1..Len(new) : i = L + k /\ wire'[i] = new[k] /\ ThisNalu # <<>>
  <2> SUFFICES ASSUME NEW i \in DOMAIN wire', i \notin 1..L
               PROVE  \E k \in 1..Len(new) :
                        i = L + k /\ wire'[i] = new[k] /\ ThisNalu # <<>>
    BY <1>1
  <2>1. i - L \in 1..Len(new) /\ i = L + (i - L)
    BY <1>1
  <2>2. new # <<>>
    BY <1>1, <2>1
  <2> QED BY <1>1, <2>1, <2>2
<1>5. ASSUME NEW i \in DOMAIN wire', NEW j \in DOMAIN wire', i < j
      PROVE  /\ Main(wire'[i]) <= Main(wire'[j])
             /\ ~Unfinished(wire'[i]) => Main(wire'[i]) < Main(wire'[j])
  <2>1. CASE i \in 1..L /\ j \in 1..L
    BY <1>1, <1>5, <2>1 DEF OrderInv
  <2>2. ASSUME NEW k \in 1..Len(new), j = L + k, wire'[j] = new[k], ThisNalu # <<>>
        PROVE  Main(wire'[j]) = Len(found) + 1
    BY <1>1, <1>2, <2>2
  <2>3. ASSUME i \in 1..L, j \notin 1..L
        PROVE  Main(wire'[i]) < Main(wire'[j])
    <3>1. Main(wire'[j]) = Len(found) + 1
      BY <1>4, <2>2, <2>3
    <3>2. Main(wire'[i]) \in 1..Len(found)
      <4>1. wire'[i] = wire[i]
        BY <1>1, <2>3
      <4>2. Main(wire[i]) \in 1..Len(found)
        BY <1>2, <1>3, <2>3
      <4> QED BY <4>1, <4>2, Zenon
    <3> QED BY <1>2, <3>1, <3>2
  <2>4. ASSUME i \notin 1..L, j \notin 1..L
        PROVE  Unfinished(wire'[i]) /\ Main(wire'[i]) = Main(wire'[j])
               /\ Main(wire'[i]) \in Nat
    <3>1. PICK k \in 1..Len(new) : i = L + k /\ wire'[i] = new[k] /\ ThisNalu # <<>>
      BY <1>4, <2>4
    <3>2. PICK m \in 1..Len(new) : j = L + m /\ wire'[j] = new[m] /\ ThisNalu # <<>>
      BY <1>4, <2>4
    <3>3. k < Len(new) /\ k \in DOMAIN new /\ m \in DOMAIN new
      BY <1>1, <1>5, <3>1, <3>2
    <3>4. Unfinished(new[k]) /\ Main(new[k]) = ThisId /\ Main(new[m]) = ThisId
      BY <3>3
    <3>5. ThisId \in Nat
      BY <1>2, <3>1
    <3> QED BY <3>1, <3>2, <3>4, <3>5
  <2>5. \A x \in DOMAIN wire' : Main(wire'[x]) \in Nat
    <3> SUFFICES ASSUME NEW x \in DOMAIN wire' PROVE Main(wire'[x]) \in Nat
      OBVIOUS
    <3>1. CASE x \in 1..L
      <4>1. wire'[x] = wire[x]
        BY <1>1, <3>1
      <4>2. Main(wire[x]) \in Nat
        BY <1>2, <1>3, <3>1
      <4> QED BY <4>1, <4>2, Zenon
    <3>2. CASE x \notin 1..L
      <4>1. PICK k \in 1..Len(new) : wire'[x] = new[k] /\ ThisNalu # <<>>
        BY <1>4, <3>2
      <4>2. Main(new[k]) = ThisId
        BY <1>1, <4>1
      <4> QED BY <1>2, <4>1, <4>2
    <3> QED BY <3>1, <3>2
  <2>6. ~(i \notin 1..L /\ j \in 1..L)
    BY <1>1, <1>5
  <2>7. Main(wire'[i]) \in Nat /\ Main(wire'[j]) \in Nat
    BY <2>5
  <2>8. CASE i \in 1..L /\ j \notin 1..L
    <3>1. Main(wire'[i]) < Main(wire'[j])
      BY <2>3, <2>8
    <3>2. \A a, b \in Nat : a < b => a <= b
      OBVIOUS
    <3> QED BY <2>7, <3>1, <3>2, Zenon
  <2>9. CASE i \notin 1..L /\ j \notin 1..L
    BY <2>4, <2>9
  <2> QED BY <2>1, <2>6, <2>8, <2>9
<1>6. ASSUME NEW i \in DOMAIN wire', Unfinished(wire'[i])
      PROVE  /\ i < Len(wire')
             /\ wire'[i + 1]
                  = Fragment(wire'[i].id, found'[wire'[i].id], wire'[i].part + 1)
  <2>1. CASE i \in 1..L
    <3>1. PICK pkt : pkt = wire[i]
      OBVIOUS
    <3>2. /\ i < L /\ i + 1 \in 1..L
          /\ wire[i + 1] = Fragment(pkt.id, found[pkt.id], pkt.part + 1)
      BY <1>1, <1>6, <2>1, <3>1 DEF OrderInv, L
    <3>3. pkt.id \in Ids
      BY <1>1, <1>3, <1>6, <2>1, <3>1, FragmentIs DEF Unfinished
    <3>4. found'[pkt.id] = found[pkt.id] /\ wire'[i] = pkt /\ wire'[i + 1] = wire[i + 1]
      BY <1>1, <1>2, <2>1, <3>1, <3>2, <3>3
    <3>5. i < Len(wire')
      BY <1>1, <3>2
    <3> QED BY <3>2, <3>4, <3>5
  <2>2. CASE i \notin 1..L
    <3>1. PICK k \in 1..Len(new) : i = L + k /\ wire'[i] = new[k]
      BY <1>4, <2>2
    <3>2. /\ k < Len(new)
          /\ new[k + 1] = Fragment(new[k].id, found'[new[k].id], new[k].part + 1)
      BY <1>1, <1>6, <3>1
    <3>3. i < Len(wire') /\ k + 1 \in 1..Len(new) /\ i + 1 = L + (k + 1)
      BY <1>1, <3>1, <3>2
    <3>4. wire'[i + 1] = new[k + 1]
      BY <1>1, <3>3
    <3> QED BY <3>1, <3>2, <3>3, <3>4
  <2> QED BY <2>1, <2>2
<1>7. ASSUME NEW i \in DOMAIN wire', ~Unfinished(wire'[i]), i < Len(wire')
      PROVE  Begins(wire'[i + 1])
  <2>1. CASE i \in 1..L /\ i < L
    <3>1. wire'[i] = wire[i] /\ wire'[i + 1] = wire[i + 1] /\ i \in DOMAIN wire
      BY <1>1, <2>1
    <3> QED BY <1>7, <2>1, <3>1 DEF OrderInv, L
  <2>2. CASE i \in 1..L /\ ~(i < L)
    <3>1. i = L /\ 1 \in 1..Len(new)
      BY <1>1, <1>7, <2>2
    <3>2. wire'[i + 1] = new[1] /\ new # <<>>
      BY <1>1, <3>1
    <3> QED BY <3>2
  <2>3. CASE i \notin 1..L
    <3>1. PICK k \in 1..Len(new) : i = L + k /\ wire'[i] = new[k]
      BY <1>4, <2>3
    <3>2. k < Len(new)
      BY <1>1, <1>7, <3>1
    <3> QED BY <1>1, <1>7, <3>1, <3>2
  <2> QED BY <2>1, <2>2, <2>3
<1>8. OrderInv'
  BY <1>5, <1>6, <1>7 DEF OrderInv, Main, Unfinished, Begins, Fragment,
     FragmentCount, Data
<1>9. FrontInv'
  <2>1. CASE wire # <<>>
    <3>1. PICK pkt : pkt = wire[1]
      OBVIOUS
    <3>2. 1 \in 1..L /\ wire'[1] = pkt /\ wire' # <<>>
      BY <1>1, <2>1, <3>1 DEF L
    <3>3. pkt.kind = "fua" => found'[pkt.id] = found[pkt.id]
      BY <1>2, <1>3, <3>1, <3>2, FragmentIs
    <3>4. fua_buffer_' = IF pkt.kind = "fua"
                         THEN FirstBytes(found'[pkt.id], pkt.part - 1) ELSE <<>>
      BY <2>1, <3>1, <3>3 DEF FrontInv
    <3> QED BY <3>2, <3>4 DEF FrontInv, FirstBytes
  <2>2. CASE wire = <<>> /\ new = <<>>
    <3>1. fua_buffer_' = <<>> /\ wire' = <<>>
      BY <2>2 DEF FrontInv
    <3> QED BY <3>1 DEF FrontInv
  <2>3. CASE wire = <<>> /\ new # <<>>
    <3>1. fua_buffer_' = <<>>
      BY <2>3 DEF FrontInv
    <3>2. L = 0 /\ 1 \in 1..Len(new) /\ wire'[1] = new[1] /\ wire' # <<>>
      <4>1. L = 0 /\ 1 \in 1..Len(new)
        BY <1>1, <2>3 DEF L
      <4>2. wire'[0 + 1] = new[1] /\ 0 + 1 = 1
        BY <1>1, <4>1
      <4> QED BY <1>1, <4>1, <4>2
    <3>3. new[1].kind = "fua" => new[1].part - 1 = 0
      BY <2>3 DEF Begins
    <3>4. \A nalu : FirstBytes(nalu, 0) = <<>>
      BY MtuAssumption, SubSeqEmpty DEF FirstBytes, MaxFragment
    <3> QED BY <3>1, <3>2, <3>3, <3>4 DEF FrontInv, FirstBytes
  <2> QED BY <2>1, <2>2, <2>3
<1>10. LogInv'
  <2>1. \A i \in DOMAIN delivered : delivered[i].id \in Ids
    BY WrittenIds
  <2>2. \A i \in DOMAIN delivered : delivered[i].nalu = found'[delivered[i].id]
    BY <1>2, <2>1 DEF LogInv
  <2>3. ASSUME NEW i \in DOMAIN delivered, ~IsParameterSet(delivered[i].nalu),
               NEW j \in DOMAIN wire'
        PROVE  delivered[i].id < Main(wire'[j])
    <3>1. CASE j \in 1..L
      BY <1>1, <2>3, <3>1 DEF LogInv
    <3>2. CASE j \notin 1..L
      <4>1. Main(wire'[j]) = Len(found) + 1
        BY <1>1, <1>2, <1>4, <3>2
      <4> QED BY <1>2, <2>1, <4>1
    <3> QED BY <3>1, <3>2
  <2>4. ASSUME NEW c \in DOMAIN found', IsPicture(found'[c])
        PROVE  \/ \E i \in DOMAIN delivered : delivered[i].id = c
               \/ \E j \in DOMAIN wire' : Main(wire'[j]) = c
    <3>1. CASE c \in Ids
      <4>1. c \in Pictures
        <5>1. DOMAIN found = Ids
          BY DEF Inductive, TypeOK, Ids
        <5> QED BY <1>2, <2>4, <3>1, <5>1 DEF Pictures
      <4>2. \/ \E i \in DOMAIN delivered : delivered[i].id = c
            \/ \E j \in DOMAIN wire : Main(wire[j]) = c
        BY <4>1 DEF LogInv
      <4>3. \A j \in DOMAIN wire : j \in DOMAIN wire' /\ wire'[j] = wire[j]
        BY <1>1
      <4> QED BY <4>2, <4>3
    <3>2. CASE c \notin Ids
      <4>1. DOMAIN found' = 1..Len(found')
        BY TurnOfLoop
      <4>2. ThisNalu # <<>> /\ c = ThisId /\ IsPicture(ThisNalu)
        BY <1>2, <2>4, <3>2, <4>1
      <4>3. 1 \in 1..Len(new)
        BY <1>1, <4>2
      <4>4. L + 1 \in DOMAIN wire' /\ wire'[L + 1] = new[1] /\ Main(new[1]) = c
        <5>1. Main(new[1]) = ThisId
          BY <1>1, <4>3
        <5> QED BY <1>1, <4>2, <4>3, <5>1
      <4> QED BY <4>4
    <3> QED BY <3>1, <3>2
  <2>5. Pictures' \subseteq {delivered[i].id : i \in DOMAIN delivered}
                              \cup {Main(wire'[j]) : j \in DOMAIN wire'}
    BY <2>4 DEF Pictures, IsPicture, IsParameterSet
  <2>6. \A i \in DOMAIN delivered : ~IsParameterSet(delivered[i].nalu) =>
          \A j \in DOMAIN delivered :
            i < j /\ ~IsParameterSet(delivered[j].nalu)
              => delivered[i].id < delivered[j].id
    BY DEF LogInv
  <2>7. \A i \in DOMAIN delivered : ~IsParameterSet(delivered[i].nalu) =>
          \A j \in DOMAIN wire' : delivered[i].id < Main(wire'[j])
    BY <2>3
  <2>8. delivered' = delivered
    OBVIOUS
  <2>9. /\ \A i \in DOMAIN delivered' : delivered'[i].nalu = found'[delivered'[i].id]
        /\ Pictures' \subseteq {delivered'[i].id : i \in DOMAIN delivered'}
                                  \cup {Main(wire'[j]) : j \in DOMAIN wire'}
    BY <2>2, <2>5, <2>8
  <2>10. \A i \in DOMAIN delivered' : ~IsParameterSet(delivered'[i].nalu) =>
           /\ \A j \in DOMAIN delivered' :
                i < j /\ ~IsParameterSet(delivered'[j].nalu)
                  => delivered'[i].id < delivered'[j].id
           /\ \A j \in DOMAIN wire' : delivered'[i].id < Main(wire'[j])
    BY <2>6, <2>7, <2>8
  <2> QED BY <2>9, <2>10, Zenon DEF LogInv, Main, IsParameterSet
<1> QED BY <1>8, <1>9, <1>10

\* The first payload is taken, and the others move up: they are in order still.
LEMMA OrderTaken ==
  ASSUME Inductive, OrderInv, 1 \in DOMAIN wire, wire' = RemoveAt(wire, 1),
         UNCHANGED found
  PROVE  /\ OrderInv'
         /\ DOMAIN wire = 1..Len(wire) /\ Len(wire) \in Nat
         /\ DOMAIN wire' = 1..Len(wire) - 1 /\ Len(wire') = Len(wire) - 1
         /\ \A j \in DOMAIN wire' : j + 1 \in DOMAIN wire /\ wire'[j] = wire[j + 1]
<1>1. /\ wire \in Seq(Fitting(Len(found))) /\ Len(wire) \in Nat
      /\ DOMAIN wire = 1..Len(wire)
  BY DEF Inductive, WireFits
<1>2. /\ DOMAIN wire' = 1..Len(wire) - 1
      /\ \A j \in 1..Len(wire) - 1 : j >= 1 => wire'[j] = wire[j + 1]
  BY <1>1, RemoveAtElements
<1>3. Len(wire') = Len(wire) - 1
  <2>1. wire' \in Seq(Fitting(Len(found)))
    BY <1>1, RemoveAtType
  <2>2. DOMAIN wire' = 1..Len(wire') /\ Len(wire') \in Nat
    BY <2>1
  <2>3. 1 <= Len(wire)
    BY <1>1
  <2>4. PICK m, n : m = Len(wire') /\ n = Len(wire)
    OBVIOUS
  <2>5. m \in Nat /\ n \in Nat /\ 1 <= n /\ 1..m = 1..n - 1
    BY <1>1, <1>2, <2>2, <2>3, <2>4, Zenon
  <2>6. \A x \in Nat, y \in Nat : 1 <= y /\ 1..x = 1..y - 1 => x = y - 1
    OBVIOUS
  <2> QED BY <2>4, <2>5, <2>6, Zenon
<1>4. \A j \in DOMAIN wire' : j + 1 \in DOMAIN wire /\ wire'[j] = wire[j + 1]
  BY <1>1, <1>2
<1>5. ASSUME NEW i \in DOMAIN wire', NEW j \in DOMAIN wire', i < j
      PROVE  /\ Main(wire'[i]) <= Main(wire'[j])
             /\ ~Unfinished(wire'[i]) => Main(wire'[i]) < Main(wire'[j])
  <2>1. PICK a \in DOMAIN wire, b \in DOMAIN wire :
          a < b /\ wire'[i] = wire[a] /\ wire'[j] = wire[b]
    <3>1. i + 1 < j + 1
      BY <1>1, <1>2, <1>5
    <3> QED BY <1>4, <3>1
  <2> QED BY <2>1 DEF OrderInv
<1>6. ASSUME NEW i \in DOMAIN wire'
      PROVE  /\ Unfinished(wire'[i]) =>
                  /\ i < Len(wire')
                  /\ wire'[i + 1] = Fragment(wire'[i].id, found'[wire'[i].id],
                                             wire'[i].part + 1)
             /\ ~Unfinished(wire'[i]) /\ i < Len(wire') => Begins(wire'[i + 1])
  <2>1. PICK a \in DOMAIN wire : a = i + 1 /\ wire'[i] = wire[a]
    BY <1>4
  <2>2. i \in Nat /\ a \in Nat /\ (a < Len(wire) <=> i < Len(wire'))
    BY <1>1, <1>2, <1>3, <2>1
  <2>3. i < Len(wire') => wire'[i + 1] = wire[a + 1]
    <3>1. ASSUME i < Len(wire') PROVE i + 1 \in DOMAIN wire'
      BY <1>1, <1>2, <1>3, <3>1
    <3> QED BY <1>4, <2>1, <3>1
  <2>4. /\ Unfinished(wire[a]) =>
             /\ a < Len(wire)
             /\ wire[a + 1] = Fragment(wire[a].id, found[wire[a].id], wire[a].part + 1)
        /\ ~Unfinished(wire[a]) /\ a < Len(wire) => Begins(wire[a + 1])
    BY DEF OrderInv
  <2> QED BY <2>1, <2>2, <2>3, <2>4
<1>7. OrderInv'
  BY <1>5, <1>6 DEF OrderInv, Main, Unfinished, Begins, Fragment,
     FragmentCount, Data
<1> QED BY <1>1, <1>2, <1>3, <1>4, <1>7, Zenon

\* The first payload is the last of its unit: the client writes the unit, and
\* waits for the beginning of another.
LEMMA LosslessWhole ==
  ASSUME Inductive, SendingInv, OrderInv, LogInv,
         1 \in DOMAIN wire, wire' = RemoveAt(wire, 1), UNCHANGED found,
         ~Unfinished(wire[1]), fua_buffer_' = <<>>,
         NEW more \in Seq([id : Ids, nalu : Seq(Nat)]), delivered' = delivered \o more,
         \A k \in DOMAIN more :
           /\ more[k].nalu = found[more[k].id]
           /\ IF k < Len(more) THEN IsParameterSet(more[k].nalu)
                               ELSE more[k].id = Main(wire[1]),
         more = <<>> => ~IsPicture(found[Main(wire[1])])
  PROVE  OrderInv' /\ FrontInv' /\ LogInv'
<1> DEFINE D == Len(delivered)
           M == Len(more)
<1>1. /\ OrderInv'
      /\ DOMAIN wire = 1..Len(wire) /\ Len(wire) \in Nat
      /\ DOMAIN wire' = 1..Len(wire) - 1 /\ Len(wire') = Len(wire) - 1
      /\ \A j \in DOMAIN wire' : j + 1 \in DOMAIN wire /\ wire'[j] = wire[j + 1]
  BY OrderTaken, Zenon
<1>2. /\ D \in Nat /\ M \in Nat /\ DOMAIN delivered = 1..D /\ DOMAIN more = 1..M
      /\ DOMAIN delivered' = 1..D + M
      /\ \A i \in 1..D : delivered'[i] = delivered[i]
      /\ \A k \in 1..M : delivered'[D + k] = more[k]
  <2>1. delivered \in Seq([id : Ids, nalu : Seq(Nat)])
    BY DEF Inductive, TypeOK
  <2> QED BY <2>1, ConcatProperties, LenProperties
<1> HIDE DEF D, M
<1>3. \A i \in DOMAIN delivered' :
        \/ i \in 1..D /\ delivered'[i] = delivered[i]
        \/ \E k \in 1..M : i = D + k /\ delivered'[i] = more[k]
  <2> SUFFICES ASSUME NEW i \in DOMAIN delivered', i \notin 1..D
               PROVE  \E k \in 1..M : i = D + k /\ delivered'[i] = more[k]
    BY <1>2
  <2>1. i - D \in 1..M /\ i = D + (i - D)
    BY <1>2
  <2> QED BY <1>2, <2>1
<1>4. \A k \in 1..M : ~IsParameterSet(more[k].nalu) => k = M /\ more[k].id = Main(wire[1])
  <2> SUFFICES ASSUME NEW k \in 1..M, ~IsParameterSet(more[k].nalu)
               PROVE  k = M /\ more[k].id = Main(wire[1])
    OBVIOUS
  <2>1. IF k < Len(more) THEN IsParameterSet(more[k].nalu)
                         ELSE more[k].id = Main(wire[1])
    BY <1>2
  <2>2. ~(k < M) /\ more[k].id = Main(wire[1])
    BY <2>1 DEF M
  <2> QED BY <1>2, <2>2
<1>5. Main(wire[1]) \in Ids
  BY MainIs DEF SendingInv, ContentInv
<1>6. \A j \in DOMAIN wire' : Main(wire[1]) < Main(wire'[j])
  <2>1. \A j \in DOMAIN wire' : j + 1 \in DOMAIN wire /\ 1 < j + 1
    BY <1>1
  <2> QED BY <1>1, <2>1 DEF OrderInv
<1>7. FrontInv'
  <2>1. CASE wire' = <<>>
    BY <2>1 DEF FrontInv
  <2>2. CASE wire' # <<>>
    <3>1. 1 \in DOMAIN wire' /\ 1 < Len(wire)
      <4>1. wire' \in Seq(Fitting(Len(found)))
        BY RemoveAtType DEF Inductive, WireFits
      <4>2. Len(wire') # 0 /\ Len(wire') \in Nat
        BY <2>2, <4>1
      <4> QED BY <1>1, <4>2
    <3>2. wire'[1] = wire[1 + 1]
      BY <1>1, <3>1
    <3>3. Begins(wire[1 + 1])
      BY <3>1 DEF OrderInv
    <3>4. wire'[1].kind = "fua" => wire'[1].part - 1 = 0
      BY <3>2, <3>3 DEF Begins
    <3>5. \A nalu : FirstBytes(nalu, 0) = <<>>
      BY MtuAssumption, SubSeqEmpty DEF FirstBytes, MaxFragment
    <3> QED BY <2>2, <3>4, <3>5 DEF FrontInv, FirstBytes
  <2> QED BY <2>1, <2>2
<1>8. LogInv'
  <2>1. \A i \in DOMAIN delivered' : delivered'[i].nalu = found[delivered'[i].id]
    <3>1. \A i \in 1..D : delivered[i].nalu = found[delivered[i].id]
      BY <1>2 DEF LogInv
    <3>2. \A k \in 1..M : more[k].nalu = found[more[k].id]
      BY <1>2
    <3> QED BY <1>3, <3>1, <3>2
  <2>2. ASSUME NEW i \in DOMAIN delivered', ~IsParameterSet(delivered'[i].nalu),
               NEW j \in DOMAIN delivered', ~IsParameterSet(delivered'[j].nalu), i < j
        PROVE  delivered'[i].id < delivered'[j].id
    <3>1. CASE i \in 1..D /\ j \in 1..D
      <4>1. delivered'[i] = delivered[i] /\ delivered'[j] = delivered[j]
        BY <1>2, <3>1
      <4> QED BY <1>2, <2>2, <3>1, <4>1 DEF LogInv
    <3>2. CASE i \in 1..D /\ j \notin 1..D
      <4>1. delivered'[j].id = Main(wire[1])
        BY <1>3, <1>4, <2>2, <3>2
      <4>2. delivered'[i] = delivered[i] /\ i \in DOMAIN delivered
        BY <1>2, <3>2
      <4> QED BY <2>2, <4>1, <4>2 DEF LogInv
    <3>3. CASE i \notin 1..D
      <4>1. PICK k \in 1..M : i = D + k /\ delivered'[i] = more[k]
        BY <1>3, <3>3
      <4>2. j \notin 1..D
        BY <1>2, <2>2, <4>1
      <4>3. PICK m \in 1..M : j = D + m /\ delivered'[j] = more[m]
        BY <1>3, <4>2
      <4>4. k = M /\ m = M
        BY <1>4, <2>2, <4>1, <4>3
      <4> QED BY <1>2, <2>2, <4>1, <4>3, <4>4
    <3> QED BY <3>1, <3>2, <3>3
  <2>3. ASSUME NEW i \in DOMAIN delivered', ~IsParameterSet(delivered'[i].nalu),
               NEW j \in DOMAIN wire'
        PROVE  delivered'[i].id < Main(wire'[j])
    <3>1. CASE i \in 1..D
      <4>1. delivered'[i] = delivered[i] /\ i \in DOMAIN delivered
            /\ j + 1 \in DOMAIN wire /\ wire'[j] = wire[j + 1]
        BY <1>1, <1>2, <3>1
      <4> QED BY <2>3, <4>1 DEF LogInv
    <3>2. CASE i \notin 1..D
      <4>1. delivered'[i].id = Main(wire[1])
        BY <1>3, <1>4, <2>3, <3>2
      <4> QED BY <1>6, <4>1
    <3> QED BY <3>1, <3>2
  <2>4. ASSUME NEW c \in Pictures
        PROVE  \/ \E i \in DOMAIN delivered' : delivered'[i].id = c
               \/ \E j \in DOMAIN wire' : Main(wire'[j]) = c
    <3>1. CASE \E i \in DOMAIN delivered : delivered[i].id = c
      <4>1. \A i \in DOMAIN delivered : i \in DOMAIN delivered' /\ delivered'[i] = delivered[i]
        BY <1>2
      <4> QED BY <3>1, <4>1
    <3>2. CASE c = Main(wire[1])
      <4>1. more # <<>>
        BY <2>4, <3>2 DEF Pictures
      <4>2. M \in 1..M
        BY <1>2, <4>1 DEF M
      <4>3. more[M].id = c
        BY <1>2, <3>2, <4>2 DEF M
      <4>4. D + M \in DOMAIN delivered' /\ delivered'[D + M] = more[M]
        BY <1>2, <4>2
      <4> QED BY <4>3, <4>4
    <3>3. ASSUME NEW j \in DOMAIN wire, Main(wire[j]) = c, j # 1
          PROVE  \E i \in DOMAIN wire' : Main(wire'[i]) = c
      <4>1. j - 1 \in DOMAIN wire' /\ j - 1 + 1 = j
        BY <1>1, <3>3
      <4>2. wire'[j - 1] = wire[j]
        BY <1>1, <4>1
      <4> QED BY <3>3, <4>1, <4>2
    <3> QED BY <3>1, <3>2, <3>3 DEF LogInv
  <2>5. Pictures' \subseteq {delivered'[i].id : i \in DOMAIN delivered'}
                              \cup {Main(wire'[j]) : j \in DOMAIN wire'}
    BY <2>4 DEF Pictures, IsPicture, IsParameterSet
  <2>6. \A i \in DOMAIN delivered' : ~IsParameterSet(delivered'[i].nalu) =>
          /\ \A j \in DOMAIN delivered' :
               i < j /\ ~IsParameterSet(delivered'[j].nalu)
                 => delivered'[i].id < delivered'[j].id
          /\ \A j \in DOMAIN wire' : delivered'[i].id < Main(wire'[j])
    BY <2>2, <2>3
  <2>7. \A i \in DOMAIN delivered' : delivered'[i].nalu = found'[delivered'[i].id]
    BY <2>1
  <2> QED BY <2>5, <2>6, <2>7, Zenon DEF LogInv, Main, IsParameterSet
<1> QED BY <1>1, <1>7, <1>8

\* The first payload is a fragment and more of its unit follow: its bytes wait
\* in the buffer for them.
LEMMA LosslessPart ==
  ASSUME Inductive, SendingInv, OrderInv, FrontInv, LogInv,
         1 \in DOMAIN wire, wire' = RemoveAt(wire, 1), UNCHANGED <<found, delivered>>,
         Unfinished(wire[1]), fua_buffer_' = fua_buffer_ \o wire[1].data
  PROVE  OrderInv' /\ FrontInv' /\ LogInv'
<1>1. /\ OrderInv'
      /\ DOMAIN wire = 1..Len(wire) /\ Len(wire) \in Nat
      /\ DOMAIN wire' = 1..Len(wire) - 1 /\ Len(wire') = Len(wire) - 1
      /\ \A j \in DOMAIN wire' : j + 1 \in DOMAIN wire /\ wire'[j] = wire[j + 1]
  BY OrderTaken, Zenon
<1>2. PICK pkt : pkt = wire[1]
  OBVIOUS
<1>3. /\ AsFound(pkt) /\ pkt.kind = "fua" /\ ~pkt.e
  BY <1>2 DEF SendingInv, ContentInv, Unfinished
<1>4. PICK nalu : nalu = found[pkt.id]
  OBVIOUS
<1>5. /\ nalu \in Seq(Nat) /\ Len(nalu) > Mtu
      /\ pkt.part \in 1..FragmentCount(nalu) /\ FragmentCount(nalu) \in Nat
      /\ pkt.e = (pkt.part = FragmentCount(nalu))
      /\ pkt.data = Data(nalu, (pkt.part - 1) * MaxFragment + 2)
  BY <1>3, <1>4, FragmentIs
<1>6. /\ 1 < Len(wire)
      /\ wire[1 + 1] = Fragment(pkt.id, nalu, pkt.part + 1)
  BY <1>2, <1>4 DEF OrderInv
<1>7. 1 \in DOMAIN wire' /\ wire'[1] = Fragment(pkt.id, nalu, pkt.part + 1)
  <2>1. 1 \in DOMAIN wire'
    BY <1>1, <1>6
  <2> QED BY <1>1, <1>6, <2>1, Zenon
<1>8. /\ wire'[1].kind = "fua" /\ wire'[1].id = pkt.id
      /\ wire'[1].part = pkt.part + 1
  BY <1>7 DEF Fragment
<1>9. FrontInv'
  <2>1. fua_buffer_ = FirstBytes(nalu, pkt.part - 1)
    <3>1. wire # <<>>
      BY <1>1
    <3> QED BY <1>2, <1>3, <1>4, <3>1 DEF FrontInv
  <2>2. fua_buffer_' = FirstBytes(nalu, pkt.part)
    <3>1. pkt.part < FragmentCount(nalu)
      <4>1. pkt.part # FragmentCount(nalu)
        BY <1>3, <1>5, Zenon
      <4> QED BY <1>5, <4>1
    <3>2. FirstBytes(nalu, pkt.part - 1)
            \o Data(nalu, (pkt.part - 1) * MaxFragment + 2) = FirstBytes(nalu, pkt.part)
      BY <1>5, <3>1, FragmentBytes
    <3> QED BY <1>2, <1>5, <2>1, <3>2, Zenon
  <2>3. wire' # <<>>
    BY <1>7
  <2>4. pkt.part = wire'[1].part - 1
    <3>1. pkt.part \in Nat /\ \A n \in Nat : n = (n + 1) - 1
      BY <1>5
    <3> QED BY <1>8, <3>1, Zenon
  <2>5. fua_buffer_' = FirstBytes(found'[wire'[1].id], wire'[1].part - 1)
    BY <1>4, <1>8, <2>2, <2>4
  <2> QED BY <1>8, <2>3, <2>5 DEF FrontInv, FirstBytes
<1>10. LogInv'
  <2>1. ASSUME NEW c \in Pictures
        PROVE  \/ \E i \in DOMAIN delivered : delivered[i].id = c
               \/ \E j \in DOMAIN wire' : Main(wire'[j]) = c
    <3>1. CASE \E i \in DOMAIN delivered : delivered[i].id = c
      BY <3>1
    <3>2. CASE c = Main(wire[1])
      <4>1. Main(wire'[1]) = c
        BY <1>2, <1>3, <1>8, <3>2 DEF Main
      <4> QED BY <1>7, <4>1
    <3>3. ASSUME NEW j \in DOMAIN wire, Main(wire[j]) = c, j # 1
          PROVE  \E i \in DOMAIN wire' : Main(wire'[i]) = c
      <4>1. j - 1 \in DOMAIN wire' /\ j - 1 + 1 = j
        BY <1>1, <3>3
      <4>2. wire'[j - 1] = wire[j]
        BY <1>1, <4>1
      <4> QED BY <3>3, <4>1, <4>2
    <3> QED BY <3>1, <3>2, <3>3 DEF LogInv
  <2>2. Pictures' \subseteq {delivered[i].id : i \in DOMAIN delivered}
                              \cup {Main(wire'[j]) : j \in DOMAIN wire'}
    BY <2>1 DEF Pictures, IsPicture, IsParameterSet
  <2>3. \A i \in DOMAIN delivered : ~IsParameterSet(delivered[i].nalu) =>
          /\ \A j \in DOMAIN delivered :
               i < j /\ ~IsParameterSet(delivered[j].nalu)
                 => delivered[i].id < delivered[j].id
          /\ \A j \in DOMAIN wire' : delivered[i].id < Main(wire'[j])
    BY <1>1 DEF LogInv
  <2>4. \A i \in DOMAIN delivered : delivered[i].nalu = found[delivered[i].id]
    BY DEF LogInv
  <2> QED BY <2>2, <2>3, <2>4, Zenon DEF LogInv, Main, IsParameterSet
<1> QED BY <1>1, <1>9, <1>10

\* What the client writes when it takes the last payload of a unit.
LEMMA LosslessTake ==
  ASSUME Inductive, SendingInv, OrderInv, FrontInv, LogInv, 1 \in DOMAIN wire,
         wire' = RemoveAt(wire, 1),
         \/ ReceiveSingle(1) \/ ReceiveAggregate(1)
         \/ ReceiveFragment(1) \/ ReceiveLastFragment(1)
  PROVE  OrderInv' /\ FrontInv' /\ LogInv'
<1> DEFINE Written == [id : Ids, nalu : Seq(Nat)]
<1>1. UNCHANGED found /\ delivered \in Seq(Written)
  BY DEF ReceiveSingle, ReceiveAggregate, ReceiveFragment, ReceiveLastFragment,
         ReceiverUnchanged, Inductive, TypeOK
<1>2. PICK pkt : pkt = wire[1]
  OBVIOUS
<1>3. AsFound(pkt)
  BY <1>2 DEF SendingInv, ContentInv
<1>4. pkt.kind # "fua" => fua_buffer_ = <<>>
  BY <1>2 DEF FrontInv
<1>5. ASSUME NEW unit \in Written, delivered' = Append(delivered, unit),
             unit.id = Main(pkt), unit.nalu = found[Main(pkt)],
             ~Unfinished(pkt), fua_buffer_' = <<>>
      PROVE  OrderInv' /\ FrontInv' /\ LogInv'
  <2>1. PICK more : more = <<unit>>
    OBVIOUS
  <2>2. /\ more \in Seq(Written) /\ more # <<>> /\ DOMAIN more = {1}
        /\ Len(more) = 1 /\ more[1] = unit
    BY <2>1
  <2>3. delivered' = delivered \o more
    BY <1>1, <1>5, <2>1, AppendIsConcat
  <2>4. \A k \in DOMAIN more :
           /\ more[k].nalu = found[more[k].id]
           /\ IF k < Len(more) THEN IsParameterSet(more[k].nalu)
                               ELSE more[k].id = Main(wire[1])
    BY <1>2, <1>5, <2>2
  <2> QED BY <1>1, <1>2, <1>5, <2>2, <2>3, <2>4, LosslessWhole
<1>6. CASE ReceiveSingle(1)
  <2>1. /\ pkt.kind = "single" /\ UNCHANGED fua_buffer_
        /\ delivered' = IF pkt.nalus[1][1] \in SingleTypes
                        THEN Append(delivered, [id |-> pkt.ids[1],
                                                nalu |-> pkt.nalus[1]])
                        ELSE delivered
    BY <1>2, <1>6 DEF ReceiveSingle
  <2>2. Main(pkt) \in Ids /\ pkt.ids[1] = Main(pkt) /\ pkt.nalus[1] = found[Main(pkt)]
    BY <1>3, <2>1, MainIs
  <2>3. ~Unfinished(pkt) /\ fua_buffer_' = <<>>
    BY <1>4, <2>1 DEF Unfinished
  <2>4. CASE found[Main(pkt)][1] \in SingleTypes
    <3>1. PICK unit : unit = [id |-> pkt.ids[1], nalu |-> pkt.nalus[1]]
      OBVIOUS
    <3>2. delivered' = Append(delivered, unit)
      BY <2>1, <2>2, <2>4, <3>1
    <3>3. unit \in Written
      <4>1. found[Main(pkt)] \in Seq(Nat)
        BY <2>2 DEF Inductive, TypeOK, Ids
      <4> QED BY <2>2, <3>1, <4>1
    <3>4. unit.id = Main(pkt) /\ unit.nalu = found[Main(pkt)]
      BY <2>2, <3>1
    <3> QED BY <1>5, <2>3, <3>2, <3>3, <3>4
  <2>5. CASE found[Main(pkt)][1] \notin SingleTypes
    <3>1. PICK more : more = <<>>
      OBVIOUS
    <3>2. more \in Seq(Written) /\ DOMAIN more = {}
      BY <3>1
    <3>3. delivered' = delivered \o more
      BY <1>1, <2>1, <2>2, <2>5, <3>1, ConcatEmptySeq
    <3>4. ~IsPicture(found[Main(wire[1])])
      BY <1>2, <2>5 DEF IsPicture
    <3> QED BY <1>1, <1>2, <2>3, <3>2, <3>3, <3>4, LosslessWhole
  <2> QED BY <2>4, <2>5
<1>7. CASE ReceiveAggregate(1)
  <2>1. pkt.kind = "stapa" /\ UNCHANGED fua_buffer_
    BY <1>2, <1>7 DEF ReceiveAggregate
  <2>2. PICK more \in Seq(Written) :
          delivered' = delivered \o more /\ OfAggregate(more, pkt)
    BY <1>2, <1>7, TakenWritten
  <2>3. /\ pkt.ids[3] = Main(pkt)
        /\ pkt.nalus[1] = found[pkt.ids[1]] /\ pkt.nalus[2] = found[pkt.ids[2]]
        /\ pkt.nalus[3] = found[pkt.ids[3]]
        /\ IsParameterSet(pkt.nalus[1]) /\ IsParameterSet(pkt.nalus[2])
    BY <1>3, <2>1, AggregateIs, MainIs DEF LatestBefore, IsParameterSet
  <2>4. /\ DOMAIN more = 1..3 /\ Len(more) = 3 /\ more # <<>>
        /\ \A k \in 1..3 : more[k].id = pkt.ids[k] /\ more[k].nalu = pkt.nalus[k]
    BY <2>2 DEF OfAggregate
  <2>5. ASSUME NEW k \in DOMAIN more
        PROVE  /\ more[k].nalu = found[more[k].id]
               /\ IF k < Len(more) THEN IsParameterSet(more[k].nalu)
                                   ELSE more[k].id = Main(wire[1])
    <3>1. k = 1 \/ k = 2 \/ k = 3
      BY <2>4
    <3> QED BY <1>2, <2>3, <2>4, <3>1
  <2>6. ~Unfinished(wire[1]) /\ fua_buffer_' = <<>>
    BY <1>2, <1>4, <2>1 DEF Unfinished
  <2> QED BY <1>1, <2>2, <2>4, <2>5, <2>6, LosslessWhole
<1>8. CASE ReceiveFragment(1)
  <2>1. Unfinished(wire[1]) /\ UNCHANGED delivered
        /\ fua_buffer_' = fua_buffer_ \o wire[1].data
    BY <1>8 DEF ReceiveFragment, Unfinished
  <2> QED BY <1>1, <2>1, LosslessPart
<1>9. CASE ReceiveLastFragment(1)
  <2>1. pkt.kind = "fua" /\ pkt.e /\ fua_buffer_' = <<>>
    BY <1>2, <1>9 DEF ReceiveLastFragment
  <2>2. PICK nalu : nalu = found[pkt.id]
    OBVIOUS
  <2>3. /\ nalu \in Seq(Nat) /\ Len(nalu) > Mtu
        /\ pkt.part \in 1..FragmentCount(nalu)
        /\ pkt.e = (pkt.part = FragmentCount(nalu))
        /\ pkt.type = nalu[1]
        /\ pkt.data = Data(nalu, (pkt.part - 1) * MaxFragment + 2)
    BY <1>3, <2>1, <2>2, FragmentIs
  <2>4. pkt.part = FragmentCount(nalu)
    BY <2>1, <2>3, Zenon
  <2>5. fua_buffer_ = FirstBytes(nalu, pkt.part - 1)
    <3>1. wire # <<>>
      BY DEF Inductive, WireFits
    <3> QED BY <1>2, <2>1, <2>2, <3>1 DEF FrontInv
  <2>6. <<nalu[1]>> \o FirstBytes(nalu, pkt.part - 1)
          \o Data(nalu, (pkt.part - 1) * MaxFragment + 2) = nalu
    BY <2>3, <2>4, FragmentBytes
  <2>7. <<pkt.type>> \o fua_buffer_ \o pkt.data = nalu
    BY <2>3, <2>5, <2>6, Zenon
  <2>8. PICK unit : unit = [id |-> pkt.id,
                            nalu |-> <<pkt.type>> \o fua_buffer_ \o pkt.data]
    OBVIOUS
  <2>9. unit \in Written /\ delivered' = Append(delivered, unit)
    BY <1>2, <1>9, <2>8, TakenWritten
  <2>10. unit.id = Main(pkt) /\ unit.nalu = found[Main(pkt)]
    BY <2>1, <2>2, <2>7, <2>8 DEF Main
  <2>11. ~Unfinished(pkt)
    BY <2>1 DEF Unfinished
  <2> QED BY <1>5, <2>1, <2>9, <2>10, <2>11
<1> QED BY <1>6, <1>7, <1>8, <1>9

\* Every step of a network that loses nothing and keeps the order.
LEMMA LosslessStep ==
  Inductive /\ SendingInv /\ LosslessInv /\ [Next]_vars => LosslessInv'
<1> SUFFICES ASSUME Inductive, SendingInv, LosslessInv, [Next]_vars, faults' = 0
             PROVE  OrderInv' /\ FrontInv' /\ LogInv'
  <2>1. Inductive /\ SendingInv /\ LosslessInv /\ [Next]_vars /\ ~(faults' = 0)
          => LosslessInv'
    BY DEF LosslessInv
  <2> QED BY <2>1 DEF LosslessInv
<1>1. faults \in Nat
  BY DEF Inductive, TypeOK
<1>2. faults = 0 => OrderInv /\ FrontInv /\ LogInv
  BY DEF LosslessInv
<1>3. ASSUME Scanning, Advance, UNCHANGED <<wire, fua_buffer_, delivered, faults>>,
             ThisNalu # <<>> => ~IsPicture(ThisNalu)
      PROVE  OrderInv' /\ FrontInv' /\ LogInv'
  <2>1. wire \in Seq(Fitting(Len(found))) /\ <<>> \in Seq(Fitting(Len(found')))
    BY EmptySeq DEF Inductive, WireFits
  <2>2. PICK new : new = <<>>
    OBVIOUS
  <2>3. wire' = wire \o new /\ DOMAIN new = {} /\ new \in Seq(Fitting(Len(found')))
    BY <1>3, <2>1, <2>2, ConcatEmptySeq
  <2> QED BY <1>2, <1>3, <2>2, <2>3, LosslessTurn
<1>4. CASE SkipNalu /\ UNCHANGED <<fua_buffer_, delivered, arrived, faults>>
  <2>1. ThisNalu # <<>> => ~IsPicture(ThisNalu)
    BY <1>4 DEF SkipNalu, IsPicture
  <2> QED BY <1>3, <1>4, <2>1 DEF SkipNalu
<1>5. CASE SetSPS /\ UNCHANGED <<fua_buffer_, delivered, arrived, faults>>
  <2>1. ~IsPicture(ThisNalu)
    BY <1>5 DEF SetSPS, IsPicture, IsParameterSet
  <2> QED BY <1>3, <1>5, <2>1 DEF SetSPS
<1>6. CASE SetPPS /\ UNCHANGED <<fua_buffer_, delivered, arrived, faults>>
  <2>1. ~IsPicture(ThisNalu)
    BY <1>6 DEF SetPPS, IsPicture, IsParameterSet
  <2> QED BY <1>3, <1>6, <2>1 DEF SetPPS
<1>7. ASSUME Scanning, Advance, ThisNalu # <<>>, UNCHANGED <<fua_buffer_, delivered, faults>>,
             NEW pkt \in Fitting(Len(found')), wire' = Append(wire, pkt),
             Main(pkt) = ThisId, pkt.kind # "fua"
      PROVE  OrderInv' /\ FrontInv' /\ LogInv'
  <2>1. wire \in Seq(Fitting(Len(found')))
    BY <1>7, HeldStay
  <2>2. PICK new : new = <<pkt>>
    OBVIOUS
  <2>3. wire' = wire \o new
    BY <1>7, <2>1, <2>2, AppendIsConcat
  <2>4. /\ new \in Seq(Fitting(Len(found'))) /\ DOMAIN new = {1}
        /\ Len(new) = 1 /\ new[1] = pkt /\ new # <<>>
    BY <2>2
  <2>5. ~Unfinished(pkt) /\ Begins(pkt)
    BY <1>7 DEF Unfinished, Begins
  <2>6. \A k \in DOMAIN new :
          /\ Main(new[k]) = ThisId
          /\ Unfinished(new[k]) <=> k < Len(new)
          /\ k < Len(new) =>
               new[k + 1] = Fragment(new[k].id, found'[new[k].id], new[k].part + 1)
    <3> SUFFICES ASSUME NEW k \in DOMAIN new
                 PROVE  /\ Main(new[k]) = ThisId
                        /\ Unfinished(new[k]) <=> k < Len(new)
                        /\ ~(k < Len(new))
      OBVIOUS
    <3>1. new[k] = pkt /\ ~(k < Len(new))
      BY <2>4
    <3> QED BY <1>7, <2>5, <3>1
  <2> QED BY <1>2, <1>7, <2>3, <2>4, <2>5, <2>6, LosslessTurn
<1>8. CASE SendSingle /\ UNCHANGED <<fua_buffer_, delivered, arrived, faults>>
  <2>1. /\ Scanning /\ Advance /\ ThisNalu # <<>> /\ Len(ThisNalu) <= Mtu
        /\ wire' = Append(wire, Single(ThisId, ThisNalu))
    BY <1>8 DEF SendSingle, Sendable
  <2>2. PICK pkt : pkt = Single(ThisId, ThisNalu)
    OBVIOUS
  <2>3. pkt \in Fitting(Len(found'))
    BY <2>1, <2>2, TurnFinds, TurnOfLoop, SingleFits DEF Ids
  <2>4. pkt.kind # "fua" /\ Main(pkt) = ThisId
    BY <2>2 DEF Single, Main
  <2> QED BY <1>7, <1>8, <2>1, <2>2, <2>3, <2>4
<1>9. CASE SendAggregate /\ UNCHANGED <<fua_buffer_, delivered, arrived, faults>>
  <2>1. /\ Scanning /\ Advance /\ ThisNalu # <<>> /\ Aggregates
        /\ wire' = Append(wire, Aggregate(sps_nalu_ \o pps_nalu_ \o <<ThisId>>,
                                          Append(Held, ThisNalu)))
    BY <1>9 DEF SendAggregate, Sendable
  <2>2. PICK a \in Ids, b \in Ids : sps_nalu_ = <<a>> /\ pps_nalu_ = <<b>>
    BY <2>1 DEF Aggregates, Inductive, TypeOK
  <2>3. PICK c, nalu : c = ThisId /\ nalu = ThisNalu
    OBVIOUS
  <2>4. /\ a \in Ids' /\ b \in Ids' /\ c \in Ids' /\ Len(found') \in Nat
        /\ found[a] \in Seq(Nat) /\ found[b] \in Seq(Nat) /\ nalu \in Seq(Nat)
    BY <2>1, <2>3, TurnFinds, TurnOfLoop
  <2>5. sps_nalu_ \o pps_nalu_ \o <<ThisId>> = <<a, b, c>>
    <3>1. a \in Nat /\ b \in Nat /\ c \in Nat
      BY <2>4 DEF Ids
    <3> QED BY <2>2, <2>3, <3>1, ThreeInOne
  <2>6. Append(Held, ThisNalu) = <<found[a], found[b], nalu>>
    <3>1. Held = <<found[a], found[b]>>
      BY <2>2 DEF Held
    <3> QED BY <2>3, <2>4, <3>1, ThreeInOne
  <2>7. PICK pkt : pkt = Aggregate(<<a, b, c>>, <<found[a], found[b], nalu>>)
    OBVIOUS
  <2>8. wire' = Append(wire, pkt)
    BY <2>1, <2>5, <2>6, <2>7
  <2>9. pkt \in Fitting(Len(found'))
    <3>1. AggregateSize(<<found[a], found[b], nalu>>) <= Mtu
      BY <2>1, <2>6 DEF Aggregates
    <3> QED BY <2>4, <2>7, <3>1, AggregateFits DEF Ids
  <2>10. pkt.kind # "fua" /\ Main(pkt) = c
    <3>1. pkt.ids = <<a, b, c>> /\ pkt.kind = "stapa"
      BY <2>7 DEF Aggregate
    <3> QED BY <3>1 DEF Main
  <2> QED BY <1>7, <1>9, <2>1, <2>3, <2>8, <2>9, <2>10
<1>10. CASE SendFragments /\ UNCHANGED <<fua_buffer_, delivered, arrived, faults>>
  <2>1. /\ Scanning /\ Advance /\ ThisNalu # <<>> /\ Len(ThisNalu) > Mtu
        /\ wire' = wire \o CreateFUAPackets(ThisId, ThisNalu)
    BY <1>10 DEF SendFragments, Sendable
  <2>2. PICK c, nalu : c = ThisId /\ nalu = ThisNalu
    OBVIOUS
  <2>3. /\ c \in Ids' /\ found'[c] = nalu /\ nalu \in Seq(Nat) /\ Len(nalu) \in Nat
        /\ Len(found') \in Nat /\ Len(nalu) > Mtu
    BY <2>1, <2>2, TurnFinds, TurnOfLoop
  <2>4. PICK new : new = CreateFUAPackets(c, nalu)
    OBVIOUS
  <2>5. new \in Seq(Fitting(Len(found')))
    BY <2>3, <2>4, FragmentsFit DEF Ids
  <2>6. FragmentCount(nalu) \in Nat \ {0}
    BY <2>3, CountIsNumber DEF FragmentCount
  <2>7. /\ DOMAIN new = 1..FragmentCount(nalu)
        /\ \A k \in 1..FragmentCount(nalu) : new[k] = Fragment(c, nalu, k)
    BY <2>4 DEF CreateFUAPackets
  <2>8. Len(new) = FragmentCount(nalu) /\ new # <<>>
    <3>1. DOMAIN new = 1..Len(new) /\ Len(new) \in Nat
      BY <2>5
    <3>2. 1 \in DOMAIN new
      BY <2>6, <2>7
    <3>3. PICK m, n : m = Len(new) /\ n = FragmentCount(nalu)
      OBVIOUS
    <3>4. m \in Nat /\ n \in Nat /\ 1..m = 1..n
      BY <2>6, <2>7, <3>1, <3>3
    <3>5. \A x \in Nat, y \in Nat : 1..x = 1..y => x = y
      OBVIOUS
    <3>6. m = n
      BY <3>4, <3>5, Zenon
    <3> QED BY <3>2, <3>3, <3>6
  <2>9. ASSUME NEW k \in DOMAIN new
        PROVE  /\ Main(new[k]) = c
               /\ Unfinished(new[k]) <=> k < Len(new)
               /\ k < Len(new) =>
                    new[k + 1] = Fragment(new[k].id, found'[new[k].id], new[k].part + 1)
    <3>1. /\ new[k].kind = "fua" /\ new[k].id = c /\ new[k].part = k
          /\ new[k].e = (k = FragmentCount(nalu))
      BY <2>7 DEF Fragment
    <3>2. Main(new[k]) = c
      BY <3>1 DEF Main
    <3>3. k \in Nat /\ k <= Len(new)
      BY <2>6, <2>7, <2>8
    <3>4. Unfinished(new[k]) <=> k < Len(new)
      <4>1. Unfinished(new[k]) <=> k # FragmentCount(nalu)
        BY <3>1, Zenon DEF Unfinished
      <4>2. k # FragmentCount(nalu) <=> k < Len(new)
        BY <2>6, <2>8, <3>3
      <4> QED BY <4>1, <4>2
    <3>5. ASSUME k < Len(new) PROVE new[k + 1] = Fragment(c, nalu, k + 1)
      <4>1. k + 1 \in 1..FragmentCount(nalu)
        BY <2>6, <2>8, <3>3, <3>5
      <4> QED BY <2>7, <4>1
    <3>6. k < Len(new) =>
            new[k + 1] = Fragment(new[k].id, found'[new[k].id], new[k].part + 1)
      BY <2>3, <3>1, <3>5
    <3> QED BY <3>2, <3>4, <3>6
  <2>10. Begins(new[1])
    <3>1. new[1].part = 1
      BY <2>6, <2>7 DEF Fragment
    <3> QED BY <3>1 DEF Begins
  <2> QED BY <1>2, <1>10, <2>1, <2>2, <2>4, <2>5, <2>8, <2>9, <2>10, LosslessTurn
<1>11. CASE UNCHANGED <<found, wire, fua_buffer_, delivered, faults>>
  BY <1>2, <1>11 DEF OrderInv, FrontInv, LogInv, Pictures
<1>12. ASSUME NEW i \in DOMAIN wire, Take(i)
       PROVE  i = 1 /\ faults = 0 /\ wire' = RemoveAt(wire, 1)
  BY <1>1, <1>12 DEF Take
<1>13. CASE Lose
  BY <1>1, <1>13 DEF Lose
<1>14. ASSUME NEW i \in DOMAIN wire,
              ReceiveSingle(i) \/ ReceiveAggregate(i)
                \/ ReceiveFragment(i) \/ ReceiveLastFragment(i)
       PROVE  OrderInv' /\ FrontInv' /\ LogInv'
  <2>1. Take(i)
    BY <1>14 DEF ReceiveSingle, ReceiveAggregate, ReceiveFragment, ReceiveLastFragment
  <2>2. i = 1 /\ faults = 0 /\ wire' = RemoveAt(wire, 1)
    BY <1>12, <2>1
  <2> QED BY <1>2, <1>14, <2>2, LosslessTake
<1>15. CASE \E frame : Payload(frame) /\ UNCHANGED <<fua_buffer_, delivered, arrived, faults>>
  BY <1>11, <1>15 DEF Payload
<1>16. CASE UNCHANGED vars
  BY <1>11, <1>16 DEF vars
<1> QED BY <1>4, <1>5, <1>6, <1>8, <1>9, <1>10, <1>13, <1>14, <1>15, <1>16
        DEF Next, PayloaderNext

\* For any buffers and any MTU above two: while nothing was lost and nothing
\* came out of turn, what is under way follows what was written.
THEOREM LosslessHolds == Spec => []LosslessInv
<1>1. Init => LosslessInv
  BY DEF Init, PayloaderInit, LosslessInv, OrderInv, FrontInv, LogInv, Pictures
<1> QED BY <1>1, LosslessStep, SendingHolds, InductiveHolds, PTL DEF Spec

\* When all of it arrived, every picture was written whole and in order.
THEOREM NothingIsLostOrChanged == Spec => []LosslessDelivery
<1>1. LosslessInv => LosslessDelivery
  <2> SUFFICES ASSUME LosslessInv, faults = 0, wire = <<>>
               PROVE  /\ \A i \in DOMAIN delivered :
                           delivered[i].nalu = found[delivered[i].id]
                      /\ \A i, j \in DOMAIN delivered :
                           i < j /\ ~IsParameterSet(delivered[i].nalu)
                                 /\ ~IsParameterSet(delivered[j].nalu)
                             => delivered[i].id < delivered[j].id
                      /\ Pictures \subseteq {delivered[i].id : i \in DOMAIN delivered}
    BY DEF LosslessDelivery
  <2>1. LogInv
    BY DEF LosslessInv
  <2>2. DOMAIN wire = {}
    OBVIOUS
  <2> QED BY <2>1, <2>2 DEF LogInv
<1> QED BY <1>1, LosslessHolds, PTL

-----------------------------------------------------------------------------
(* Parameter sets are not forgotten.                                        *)

\* A turn keeps the sets that were kept, if no set leaves its place but for a
\* packet or for a newer one, and if a set that it finds is held or sent.
LEMMA SetsTurn ==
  ASSUME Inductive, SetsAreNotForgotten, faults = 0, Scanning, Advance,
         UNCHANGED delivered, NEW new,
         \A pkt : (\E i \in DOMAIN wire : wire[i] = pkt)
                    \/ (\E k \in DOMAIN new : new[k] = pkt)
                  => \E i \in DOMAIN wire' : wire'[i] = pkt,
         \A id \in Ids : <<id>> \in {sps_nalu_, pps_nalu_} =>
           \/ <<id>> \in {sps_nalu_', pps_nalu_'}
           \/ \E k \in DOMAIN new : Completes(new[k], id)
           \/ ThisNalu # <<>> /\ ThisNalu[1] = found[id][1],
         ThisNalu # <<>> /\ ThisNalu[1] \in {SPS, PPS} =>
           \/ <<ThisId>> \in {sps_nalu_', pps_nalu_'}
           \/ \E k \in DOMAIN new : Completes(new[k], ThisId)
  PROVE  SetsAreNotForgotten'
<1>1. /\ Len(found) \in Nat /\ Len(found') \in Nat /\ Ids = 1..Len(found)
      /\ Len(found) <= Len(found') /\ \A i \in Ids : found'[i] = found[i]
      /\ ThisNalu = <<>> => found' = found
      /\ ThisNalu # <<>> =>
           /\ ThisId = Len(found) + 1 /\ Len(found') = ThisId
           /\ found'[ThisId] = ThisNalu
  BY TurnFinds DEF Ids
<1> SUFFICES ASSUME NEW id \in 1..Len(found'), NEW type \in {SPS, PPS},
                    found'[id][1] = type,
                    \A j \in id + 1..Len(found') : found'[j][1] # type
             PROVE  \/ <<id>> \in {sps_nalu_', pps_nalu_'}
                    \/ IsOnItsWay(id)' \/ IsWritten(id)'
  <2>1. \A id \in Ids' : \A type \in {SPS, PPS} :
          LatestBefore(id, type, Len(found) + 1)' =>
            /\ found'[id][1] = type
            /\ \A j \in id + 1..Len(found') : found'[j][1] # type
    <3>1. Len(found') + 1 - 1 = Len(found')
      BY <1>1
    <3> QED BY <3>1 DEF LatestBefore
  <2> QED BY <2>1 DEF SetsAreNotForgotten, Ids
<1>2. ASSUME NEW pkt, Completes(pkt, id), \E i \in DOMAIN wire' : wire'[i] = pkt
      PROVE  IsOnItsWay(id)'
  <2>1. Completes(pkt, id)'
    BY <1>2 DEF Completes
  <2> QED BY <1>2, <2>1 DEF IsOnItsWay
<1>3. CASE id \in Ids
  <2>1. LatestBefore(id, type, Len(found) + 1)
    <3>1. \A j \in id + 1..Len(found) : found[j][1] # type
      BY <1>1, <1>3
    <3> QED BY <1>1, <1>3, <3>1 DEF LatestBefore
  <2>2. CASE <<id>> \in {sps_nalu_, pps_nalu_}
    <3>1. ASSUME ThisNalu # <<>>, ThisNalu[1] = found[id][1]
          PROVE  FALSE
      <4>1. ThisId \in id + 1..Len(found') /\ found'[ThisId] = ThisNalu
        BY <1>1, <1>3, <3>1
      <4>2. found'[id] = found[id]
        BY <1>1, <1>3
      <4> QED BY <3>1, <4>1, <4>2
    <3>2. ASSUME NEW k \in DOMAIN new, Completes(new[k], id)
          PROVE  IsOnItsWay(id)'
      BY <1>2, <3>2
    <3> QED BY <1>3, <2>2, <3>1, <3>2
  <2>3. CASE IsOnItsWay(id)
    <3>1. PICK i \in DOMAIN wire : Completes(wire[i], id)
      BY <2>3 DEF IsOnItsWay
    <3> QED BY <1>2, <3>1
  <2>4. CASE IsWritten(id)
    BY <1>1, <1>3, <2>4 DEF IsWritten
  <2> QED BY <1>3, <2>1, <2>2, <2>3, <2>4 DEF SetsAreNotForgotten
<1>4. CASE id \notin Ids
  <2>1. ThisNalu # <<>> /\ id = ThisId /\ ThisNalu[1] = type
    BY <1>1, <1>4
  <2>2. ASSUME NEW k \in DOMAIN new, Completes(new[k], ThisId)
        PROVE  IsOnItsWay(id)'
    BY <1>2, <2>1, <2>2
  <2> QED BY <2>1, <2>2
<1> QED BY <1>3, <1>4

\* What the client takes in from the front of the network it writes: nothing
\* that is kept is lost.
LEMMA SetsTake ==
  ASSUME Inductive, SendingInv, SetsAreNotForgotten, faults = 0,
         1 \in DOMAIN wire, wire' = RemoveAt(wire, 1), LogInv',
         \/ ReceiveSingle(1) \/ ReceiveAggregate(1)
         \/ ReceiveFragment(1) \/ ReceiveLastFragment(1)
  PROVE  SetsAreNotForgotten'
<1>1. UNCHANGED <<found, sps_nalu_, pps_nalu_>> /\ Ids' = Ids
  BY DEF ReceiveSingle, ReceiveAggregate, ReceiveFragment, ReceiveLastFragment,
         ReceiverUnchanged, Ids
<1>2. delivered \in Seq([id : Ids, nalu : Seq(Nat)])
  BY DEF Inductive, TypeOK
<1>3. PICK pkt : pkt = wire[1]
  OBVIOUS
<1>4. AsFound(pkt)
  BY <1>3 DEF SendingInv, ContentInv
<1>5. ASSUME NEW unit \in [id : Ids, nalu : Seq(Nat)],
             delivered' = Append(delivered, unit)
      PROVE  /\ \A d \in DOMAIN delivered :
                  d \in DOMAIN delivered' /\ delivered'[d] = delivered[d]
             /\ \E d \in DOMAIN delivered' : delivered'[d].id = unit.id
  <2>1. /\ Len(delivered) \in Nat /\ DOMAIN delivered = 1..Len(delivered)
        /\ DOMAIN delivered' = 1..Len(delivered) + 1
        /\ delivered'[Len(delivered) + 1] = unit
        /\ \A d \in 1..Len(delivered) : delivered'[d] = delivered[d]
    BY <1>2, <1>5, AppendProperties
  <2>2. Len(delivered) + 1 \in DOMAIN delivered'
    BY <2>1
  <2> QED BY <2>1, <2>2
<1>6. ASSUME NEW more \in Seq([id : Ids, nalu : Seq(Nat)]),
             delivered' = delivered \o more
      PROVE  /\ \A d \in DOMAIN delivered :
                  d \in DOMAIN delivered' /\ delivered'[d] = delivered[d]
             /\ \A k \in DOMAIN more :
                  \E d \in DOMAIN delivered' : delivered'[d].id = more[k].id
  <2>1. /\ Len(delivered) \in Nat /\ DOMAIN delivered = 1..Len(delivered)
        /\ Len(more) \in Nat /\ DOMAIN more = 1..Len(more)
        /\ DOMAIN delivered' = 1..Len(delivered) + Len(more)
        /\ \A d \in 1..Len(delivered) : delivered'[d] = delivered[d]
        /\ \A k \in 1..Len(more) : delivered'[Len(delivered) + k] = more[k]
    BY <1>2, <1>6, ConcatProperties, LenProperties
  <2>2. \A d \in DOMAIN delivered :
          d \in DOMAIN delivered' /\ delivered'[d] = delivered[d]
    BY <2>1
  <2>3. ASSUME NEW k \in DOMAIN more
        PROVE  \E d \in DOMAIN delivered' : delivered'[d].id = more[k].id
    <3>1. /\ Len(delivered) + k \in DOMAIN delivered'
          /\ delivered'[Len(delivered) + k] = more[k]
      BY <2>1
    <3> QED BY <3>1
  <2> QED BY <2>2, <2>3
<1>7. ASSUME NEW id \in Ids, found[id][1] \in {SPS, PPS}, Completes(pkt, id)
      PROVE  \E d \in DOMAIN delivered' : delivered'[d].id = id
  <2>1. CASE pkt.kind = "single"
    <3>1. PICK c \in Ids : pkt = Single(c, found[c])
      BY <1>4, <2>1 DEF AsFound, Aggregate, Fragment
    <3>2. pkt.ids = <<c>> /\ pkt.nalus = <<found[c]>>
      BY <3>1 DEF Single
    <3>3. c = id
      BY <1>7, <2>1, <3>2 DEF Completes
    <3>4. found[id] \in Seq(Nat)
      <4>1. found \in Seq(Seq(Nat) \ {<<>>}) /\ id \in 1..Len(found)
        BY DEF Inductive, TypeOK, Ids
      <4> QED BY <4>1, ElementOfSeq
    <3>5. delivered' = Append(delivered, [id |-> id, nalu |-> found[id]])
      BY <1>3, <1>7, <2>1, <3>2, <3>3
      DEF ReceiveSingle, ReceiveAggregate, ReceiveFragment, ReceiveLastFragment,
          SingleTypes, SPS, PPS
    <3>6. PICK unit : unit = [id |-> id, nalu |-> found[id]]
      OBVIOUS
    <3>7. unit \in [id : Ids, nalu : Seq(Nat)] /\ unit.id = id
      BY <3>4, <3>6
    <3> QED BY <1>5, <3>5, <3>6, <3>7
  <2>2. CASE pkt.kind = "stapa"
    <3>1. ReceiveAggregate(1)
      BY <1>3, <2>2
      DEF ReceiveSingle, ReceiveFragment, ReceiveLastFragment
    <3>2. PICK more \in Seq([id : Ids, nalu : Seq(Nat)]) :
            delivered' = delivered \o more /\ OfAggregate(more, pkt)
      BY <1>3, <3>1, TakenWritten
    <3>3. Len(pkt.ids) = 3 /\ \E k \in DOMAIN pkt.ids : pkt.ids[k] = id
      BY <1>4, <1>7, <2>2, AggregateIs DEF Completes
    <3>4. DOMAIN pkt.ids = 1..3
      <4>1. pkt \in Whole(Len(found)) \cup Fragments(Len(found))
        BY <1>3, OnWire
      <4>2. pkt.ids \in Seq(1..Len(found))
        BY <2>2, <4>1 DEF Whole, Fragments
      <4> QED BY <3>3, <4>2
    <3>5. PICK k \in 1..3 : more[k].id = id /\ k \in DOMAIN more
      BY <3>2, <3>3, <3>4 DEF OfAggregate
    <3> QED BY <1>6, <3>2, <3>5
  <2>3. CASE pkt.kind = "fua"
    <3>1. ReceiveLastFragment(1) /\ pkt.id = id
      BY <1>3, <1>7, <2>3
      DEF ReceiveSingle, ReceiveAggregate, ReceiveFragment, Completes
    <3>2. PICK unit : unit = [id |-> pkt.id,
                              nalu |-> <<pkt.type>> \o fua_buffer_ \o pkt.data]
      OBVIOUS
    <3>3. unit \in [id : Ids, nalu : Seq(Nat)] /\ delivered' = Append(delivered, unit)
      BY <1>3, <3>1, <3>2, TakenWritten
    <3>4. unit.id = id
      BY <3>1, <3>2
    <3> QED BY <1>5, <3>3, <3>4
  <2> QED BY <1>4, <2>1, <2>2, <2>3 DEF AsFound, Single, Aggregate, Fragment
<1>8. \A d \in DOMAIN delivered : d \in DOMAIN delivered' /\ delivered'[d] = delivered[d]
  <2>1. CASE ReceiveSingle(1)
    <3>1. \/ delivered' = delivered
          \/ \E unit \in [id : Ids, nalu : Seq(Nat)] :
               delivered' = Append(delivered, unit)
      BY <1>3, <2>1, TakenWritten
    <3> QED BY <1>5, <3>1
  <2>2. CASE ReceiveAggregate(1)
    <3>1. \E more \in Seq([id : Ids, nalu : Seq(Nat)]) : delivered' = delivered \o more
      BY <1>3, <2>2, TakenWritten
    <3> QED BY <1>6, <3>1
  <2>3. CASE ReceiveLastFragment(1)
    <3>1. \E unit \in [id : Ids, nalu : Seq(Nat)] : delivered' = Append(delivered, unit)
      BY <1>3, <2>3, TakenWritten
    <3> QED BY <1>5, <3>1
  <2>4. CASE ReceiveFragment(1)
    BY <2>4 DEF ReceiveFragment
  <2> QED BY <2>1, <2>2, <2>3, <2>4
<1>9. ASSUME NEW id \in Ids, NEW d \in DOMAIN delivered', delivered'[d].id = id
      PROVE  IsWritten(id)'
  <2>1. delivered'[d].nalu = found'[delivered'[d].id]
    BY DEF LogInv
  <2> QED BY <1>9, <2>1 DEF IsWritten
<1>10. ASSUME NEW j \in DOMAIN wire, j # 1
       PROVE  \E i \in DOMAIN wire' : wire'[i] = wire[j]
  <2>1. wire \in Seq(Fitting(Len(found))) /\ DOMAIN wire = 1..Len(wire)
        /\ Len(wire) \in Nat
    BY DEF Inductive, WireFits
  <2>2. /\ DOMAIN wire' = 1..Len(wire) - 1
        /\ \A i \in 1..Len(wire) - 1 : i >= 1 => wire'[i] = wire[i + 1]
    BY <2>1, RemoveAtElements
  <2>3. j - 1 \in 1..Len(wire) - 1 /\ j - 1 >= 1 /\ (j - 1) + 1 = j
    BY <1>10, <2>1
  <2> QED BY <2>2, <2>3
<1> SUFFICES ASSUME NEW id \in Ids, NEW type \in {SPS, PPS},
                    LatestBefore(id, type, Len(found) + 1)
             PROVE  \/ <<id>> \in {sps_nalu_', pps_nalu_'}
                    \/ IsOnItsWay(id)' \/ IsWritten(id)'
  BY <1>1 DEF SetsAreNotForgotten, LatestBefore
<1>11. CASE <<id>> \in {sps_nalu_, pps_nalu_}
  BY <1>1, <1>11
<1>12. CASE IsOnItsWay(id)
  <2>1. PICK j \in DOMAIN wire : Completes(wire[j], id)
    BY <1>12 DEF IsOnItsWay
  <2>2. CASE j = 1
    <3>1. found[id][1] \in {SPS, PPS}
      BY DEF LatestBefore
    <3> QED BY <1>3, <1>7, <1>9, <2>1, <2>2, <3>1
  <2>3. CASE j # 1
    <3>1. PICK other : other = wire[j]
      OBVIOUS
    <3>2. Completes(other, id)'
      BY <2>1, <3>1 DEF Completes
    <3>3. \E i \in DOMAIN wire' : wire'[i] = other
      BY <1>10, <2>3, <3>1
    <3> QED BY <3>2, <3>3 DEF IsOnItsWay
  <2> QED BY <2>2, <2>3
<1>13. CASE IsWritten(id)
  <2>1. PICK d \in DOMAIN delivered : delivered[d].id = id
    BY <1>13 DEF IsWritten
  <2> QED BY <1>8, <1>9, <2>1
<1> QED BY <1>11, <1>12, <1>13 DEF SetsAreNotForgotten

\* As long as nothing is lost or comes out of turn, every step keeps each set
\* until it is written or replaced.
LEMMA SetsStep ==
  Inductive /\ SendingInv /\ LosslessInv /\ LosslessInv' /\ SetsAreNotForgotten
    /\ [Next]_vars => SetsAreNotForgotten'
<1> SUFFICES ASSUME Inductive, SendingInv, LosslessInv, LosslessInv',
                    SetsAreNotForgotten, [Next]_vars, faults' = 0
             PROVE  SetsAreNotForgotten'
  <2>1. ~(faults' = 0) => SetsAreNotForgotten'
    BY DEF SetsAreNotForgotten
  <2> QED BY <2>1
<1>1. faults \in Nat
  BY DEF Inductive, TypeOK
<1> DEFINE Quiet == UNCHANGED <<fua_buffer_, delivered, arrived, faults>>
<1>2. ASSUME Scanning, Advance, Quiet, UNCHANGED wire,
             \A id \in Ids : <<id>> \in {sps_nalu_, pps_nalu_} =>
               \/ <<id>> \in {sps_nalu_', pps_nalu_'}
               \/ ThisNalu # <<>> /\ ThisNalu[1] = found[id][1],
             ThisNalu # <<>> /\ ThisNalu[1] \in {SPS, PPS} =>
               <<ThisId>> \in {sps_nalu_', pps_nalu_'}
      PROVE  SetsAreNotForgotten'
  <2>1. PICK new : new = <<>>
    OBVIOUS
  <2>2. DOMAIN new = {}
    BY <2>1
  <2> QED BY <1>2, <2>2, SetsTurn
<1>3. CASE SkipNalu /\ Quiet
  <2>1. ~(ThisNalu # <<>> /\ ThisNalu[1] \in {SPS, PPS})
    BY <1>3 DEF SkipNalu, Skipped, SPS, PPS
  <2> QED BY <1>2, <1>3, <2>1 DEF SkipNalu
<1>4. ASSUME NEW id \in Ids
      PROVE  /\ sps_nalu_ = <<id>> => found[id][1] = SPS
             /\ pps_nalu_ = <<id>> => found[id][1] = PPS
  BY DEF SendingInv, HeldInv, HeldIsLatest, LatestBefore
<1>5. CASE SetSPS /\ Quiet
  BY <1>2, <1>4, <1>5 DEF SetSPS, SPS, PPS
<1>6. CASE SetPPS /\ Quiet
  BY <1>2, <1>4, <1>6 DEF SetPPS, SPS, PPS
<1>7. ASSUME Scanning, Advance, Quiet, NEW new \in Seq(Fitting(Len(found'))),
             wire' = wire \o new,
             \A id \in Ids : <<id>> \in {sps_nalu_, pps_nalu_} =>
               \/ <<id>> \in {sps_nalu_', pps_nalu_'}
               \/ \E k \in DOMAIN new : Completes(new[k], id),
             \E k \in DOMAIN new : Completes(new[k], ThisId)
      PROVE  SetsAreNotForgotten'
  <2>1. wire \in Seq(Fitting(Len(found')))
    BY <1>7, HeldStay
  <2>2. /\ Len(wire) \in Nat /\ Len(new) \in Nat
        /\ DOMAIN wire = 1..Len(wire) /\ DOMAIN new = 1..Len(new)
        /\ DOMAIN wire' = 1..Len(wire) + Len(new)
        /\ \A i \in 1..Len(wire) : wire'[i] = wire[i]
        /\ \A i \in 1..Len(new) : wire'[Len(wire) + i] = new[i]
    BY <1>7, <2>1, ConcatProperties, LenProperties
  <2>3. ASSUME NEW i \in DOMAIN wire
        PROVE  i \in DOMAIN wire' /\ wire'[i] = wire[i]
    BY <2>2
  <2>4. ASSUME NEW k \in DOMAIN new
        PROVE  /\ Len(wire) + k \in DOMAIN wire'
               /\ wire'[Len(wire) + k] = new[k]
    BY <2>2
  <2>5. \A pkt : (\E i \in DOMAIN wire : wire[i] = pkt)
                   \/ (\E k \in DOMAIN new : new[k] = pkt)
                 => \E i \in DOMAIN wire' : wire'[i] = pkt
    BY <2>3, <2>4, Zenon
  <2> QED BY <1>7, <2>5, SetsTurn
<1>8. ASSUME Scanning, Advance, Quiet, NEW pkt \in Fitting(Len(found')),
             wire' = Append(wire, pkt),
             \A id \in Ids : <<id>> \in {sps_nalu_, pps_nalu_} =>
               <<id>> \in {sps_nalu_', pps_nalu_'} \/ Completes(pkt, id),
             Completes(pkt, ThisId)
      PROVE  SetsAreNotForgotten'
  <2>1. wire \in Seq(Fitting(Len(found')))
    BY <1>8, HeldStay
  <2>2. PICK new : new = <<pkt>>
    OBVIOUS
  <2>3. wire' = wire \o new
    BY <1>8, <2>1, <2>2, AppendIsConcat
  <2>4. new \in Seq(Fitting(Len(found'))) /\ 1 \in DOMAIN new /\ new[1] = pkt
    BY <2>2
  <2>5. ASSUME NEW id, Completes(pkt, id)
        PROVE  \E k \in DOMAIN new : Completes(new[k], id)
    BY <2>4, <2>5
  <2> QED BY <1>7, <1>8, <2>3, <2>4, <2>5
<1>9. CASE SendSingle /\ Quiet
  <2>1. /\ Scanning /\ Advance /\ ThisNalu # <<>> /\ Len(ThisNalu) <= Mtu
        /\ wire' = Append(wire, Single(ThisId, ThisNalu))
        /\ UNCHANGED <<sps_nalu_, pps_nalu_>>
    BY <1>9 DEF SendSingle, Sendable
  <2>2. PICK pkt : pkt = Single(ThisId, ThisNalu)
    OBVIOUS
  <2>3. pkt \in Fitting(Len(found'))
    BY <2>1, <2>2, TurnFinds, TurnOfLoop, SingleFits DEF Ids
  <2>4. Completes(pkt, ThisId)
    <3>1. pkt.kind = "single" /\ pkt.ids = <<ThisId>>
      BY <2>2 DEF Single
    <3>2. 1 \in DOMAIN pkt.ids /\ pkt.ids[1] = ThisId
      BY <3>1
    <3> QED BY <3>1, <3>2 DEF Completes
  <2> QED BY <1>8, <1>9, <2>1, <2>2, <2>3, <2>4
<1>10. CASE SendAggregate /\ Quiet
  <2>1. /\ Scanning /\ Advance /\ ThisNalu # <<>> /\ Aggregates
        /\ wire' = Append(wire, Aggregate(sps_nalu_ \o pps_nalu_ \o <<ThisId>>,
                                          Append(Held, ThisNalu)))
    BY <1>10 DEF SendAggregate, Sendable
  <2>2. PICK a \in Ids, b \in Ids : sps_nalu_ = <<a>> /\ pps_nalu_ = <<b>>
    BY <2>1 DEF Aggregates, Inductive, TypeOK
  <2>3. PICK c, nalu : c = ThisId /\ nalu = ThisNalu
    OBVIOUS
  <2>4. /\ a \in Ids' /\ b \in Ids' /\ c \in Ids' /\ Len(found') \in Nat
        /\ found[a] \in Seq(Nat) /\ found[b] \in Seq(Nat) /\ nalu \in Seq(Nat)
    <3>1. Ids \subseteq Ids' /\ c \in Ids' /\ Len(found') \in Nat
      BY <2>1, <2>3, TurnFinds
    <3>2. nalu \in Seq(Nat)
      BY <2>1, <2>3, TurnOfLoop
    <3>3. found \in Seq(Seq(Nat) \ {<<>>}) /\ a \in 1..Len(found) /\ b \in 1..Len(found)
      BY <2>2 DEF Inductive, TypeOK, Ids
    <3>4. found[a] \in Seq(Nat) \ {<<>>} /\ found[b] \in Seq(Nat) \ {<<>>}
      BY <3>3, ElementOfSeq
    <3> QED BY <3>1, <3>2, <3>4
  <2>5. sps_nalu_ \o pps_nalu_ \o <<ThisId>> = <<a, b, c>>
    <3>1. a \in Nat /\ b \in Nat /\ c \in Nat
      BY <2>4 DEF Ids
    <3> QED BY <2>2, <2>3, <3>1, ThreeInOne
  <2>6. Append(Held, ThisNalu) = <<found[a], found[b], nalu>>
    <3>1. Held = <<found[a], found[b]>>
      BY <2>2 DEF Held
    <3> QED BY <2>3, <2>4, <3>1, ThreeInOne
  <2>7. PICK pkt : pkt = Aggregate(<<a, b, c>>, <<found[a], found[b], nalu>>)
    OBVIOUS
  <2>8. wire' = Append(wire, pkt)
    BY <2>1, <2>5, <2>6, <2>7
  <2>9. pkt \in Fitting(Len(found'))
    <3>1. AggregateSize(<<found[a], found[b], nalu>>) <= Mtu
      BY <2>1, <2>6 DEF Aggregates
    <3> QED BY <2>4, <2>7, <3>1, AggregateFits DEF Ids
  <2>10. Completes(pkt, a) /\ Completes(pkt, b) /\ Completes(pkt, c)
    <3>1. pkt.ids = <<a, b, c>> /\ pkt.kind = "stapa"
      BY <2>7 DEF Aggregate
    <3>2. /\ {1, 2, 3} \subseteq DOMAIN pkt.ids
          /\ pkt.ids[1] = a /\ pkt.ids[2] = b /\ pkt.ids[3] = c
      BY <3>1
    <3> QED BY <3>1, <3>2 DEF Completes
  <2>11. \A id \in Ids : <<id>> \in {sps_nalu_, pps_nalu_} => Completes(pkt, id)
    <3> SUFFICES ASSUME NEW id \in Ids, <<id>> \in {<<a>>, <<b>>}
                 PROVE  Completes(pkt, id)
      BY <2>2
    <3>1. id = a \/ id = b
      OBVIOUS
    <3> QED BY <2>10, <3>1
  <2> QED BY <1>8, <1>10, <2>1, <2>3, <2>8, <2>9, <2>10, <2>11
<1>11. CASE SendFragments /\ Quiet
  <2>1. /\ Scanning /\ Advance /\ ThisNalu # <<>> /\ Len(ThisNalu) > Mtu
        /\ wire' = wire \o CreateFUAPackets(ThisId, ThisNalu)
        /\ UNCHANGED <<sps_nalu_, pps_nalu_>>
    BY <1>11 DEF SendFragments, Sendable
  <2>2. PICK c, nalu : c = ThisId /\ nalu = ThisNalu
    OBVIOUS
  <2>3. /\ c \in Ids' /\ nalu \in Seq(Nat) /\ Len(nalu) \in Nat
        /\ Len(found') \in Nat /\ Len(nalu) > Mtu
    BY <2>1, <2>2, TurnFinds, TurnOfLoop
  <2>4. PICK new : new = CreateFUAPackets(c, nalu)
    OBVIOUS
  <2>5. new \in Seq(Fitting(Len(found')))
    BY <2>3, <2>4, FragmentsFit DEF Ids
  <2>6. PICK n : n = FragmentCount(nalu)
    OBVIOUS
  <2>7. n \in Nat \ {0}
    BY <2>3, <2>6, CountIsNumber DEF FragmentCount
  <2>8. n \in DOMAIN new /\ new[n] = Fragment(c, nalu, n)
    BY <2>4, <2>6, <2>7 DEF CreateFUAPackets
  <2>9. Completes(new[n], c)
    <3>1. /\ new[n].kind = "fua" /\ new[n].id = c
          /\ new[n].e = (n = FragmentCount(nalu))
      BY <2>8 DEF Fragment
    <3> QED BY <2>6, <3>1, Zenon DEF Completes
  <2> QED BY <1>7, <1>11, <2>1, <2>2, <2>4, <2>5, <2>8, <2>9
<1> HIDE DEF Quiet
<1>12. CASE UNCHANGED <<found, sps_nalu_, pps_nalu_, wire, delivered, faults>>
  BY <1>12 DEF SetsAreNotForgotten, LatestBefore, IsOnItsWay, IsWritten,
               Completes, Ids
<1>13. CASE \E frame : Payload(frame) /\ Quiet
  BY <1>12, <1>13 DEF Payload, Quiet
<1>14. CASE UNCHANGED vars
  BY <1>12, <1>14 DEF vars
<1>15. CASE Lose
  BY <1>1, <1>15 DEF Lose
<1>16. ASSUME NEW i \in DOMAIN wire,
              ReceiveSingle(i) \/ ReceiveAggregate(i)
                \/ ReceiveFragment(i) \/ ReceiveLastFragment(i)
       PROVE  SetsAreNotForgotten'
  <2>1. Take(i)
    BY <1>16 DEF ReceiveSingle, ReceiveAggregate, ReceiveFragment, ReceiveLastFragment
  <2>2. i = 1 /\ faults = 0 /\ wire' = RemoveAt(wire, 1)
    BY <1>1, <2>1 DEF Take
  <2>3. LogInv'
    BY DEF LosslessInv
  <2> QED BY <1>16, <2>2, <2>3, SetsTake
<1> QED BY <1>3, <1>5, <1>6, <1>9, <1>10, <1>11, <1>13, <1>14, <1>15, <1>16
        DEF Next, PayloaderNext, Quiet

\* For any buffers and any MTU above two: a parameter set that was found is
\* held, under way or written, as long as there is no newer one.
THEOREM SetsAreKept == Spec => []SetsAreNotForgotten
<1>1. Init => SetsAreNotForgotten
  BY DEF Init, PayloaderInit, SetsAreNotForgotten, Ids
<1> QED BY <1>1, SetsStep, LosslessHolds, SendingHolds, InductiveHolds, PTL DEF Spec
=============================================================================
