----------------------------- MODULE H264Media -----------------------------
(* The path of H.264 video in the media_stream example: H264Payloader, a    *)
(* network of datagrams that may lose and reorder, and the client's         *)
(* H264Depacketizer, which writes what it puts together to a file.          *)
(* The RTP header is left out: the client reads the payload only, and looks *)
(* neither at sequence number nor marker.                                   *)
EXTENDS H264Payloader

CONSTANT MaxFaults  \* bound: packets lost or taken out of turn

ASSUME FaultsAssumption == MaxFaults \in Nat

VARIABLES
  fua_buffer_,  \* the bytes of fragments since the last end bit
  delivered,    \* the units written: [id of the last packet, bytes]
  arrived,      \* history: the fragments that arrived, without their data
  faults        \* history: the packets lost or taken out of turn so far

vars == <<payload, start, calls, disable_stapa_, sps_nalu_, pps_nalu_, found,
          wire, fua_buffer_, delivered, arrived, faults>>

Init ==
  /\ PayloaderInit
  /\ fua_buffer_ = <<>> /\ delivered = <<>> /\ arrived = <<>>
  /\ faults = 0

-----------------------------------------------------------------------------
(* The network.                                                             *)
Take(i) == /\ i # 1 => faults < MaxFaults
           /\ wire' = RemoveAt(wire, i)
           /\ faults' = IF i = 1 THEN faults ELSE faults + 1

Lose ==
  /\ faults < MaxFaults
  /\ \E i \in DOMAIN wire : wire' = RemoveAt(wire, i)
  /\ faults' = faults + 1
  /\ UNCHANGED <<payload, start, calls, disable_stapa_, sps_nalu_, pps_nalu_,
                 found, fua_buffer_, delivered, arrived>>

-----------------------------------------------------------------------------
(* H264Packet::ParseBody, by the type of the payload.                       *)
SingleTypes == 1..12 \cup 19..23

ReceiverUnchanged ==
  UNCHANGED <<payload, start, calls, disable_stapa_, sps_nalu_, pps_nalu_,
              found>>

\* A type that is not in the list is an error: nothing is written.
ReceiveSingle(i) ==
  /\ wire[i].kind = "single"
  /\ Take(i)
  /\ delivered' = IF wire[i].nalus[1][1] \in SingleTypes
                  THEN Append(delivered, [id |-> wire[i].ids[1],
                                          nalu |-> wire[i].nalus[1]])
                  ELSE delivered
  /\ ReceiverUnchanged /\ UNCHANGED <<fua_buffer_, arrived>>

ReceiveAggregate(i) ==
  /\ wire[i].kind = "stapa"
  /\ Take(i)
  /\ delivered' = delivered \o [k \in DOMAIN wire[i].ids |->
                     [id |-> wire[i].ids[k], nalu |-> wire[i].nalus[k]]]
  /\ ReceiverUnchanged /\ UNCHANGED <<fua_buffer_, arrived>>

Arrives(f) ==
  arrived' = Append(arrived, [id |-> f.id, part |-> f.part, e |-> f.e])

\* The bytes go behind those already there; the start bit is not looked at.
ReceiveFragment(i) ==
  /\ wire[i].kind = "fua" /\ ~wire[i].e
  /\ Take(i) /\ Arrives(wire[i])
  /\ fua_buffer_' = fua_buffer_ \o wire[i].data
  /\ ReceiverUnchanged /\ UNCHANGED delivered

\* Mutant of ReceiveLastFragment: the buffer is not cleared.
ReceiveLastFragment_Keeps(i) ==
  /\ wire[i].kind = "fua" /\ wire[i].e
  /\ Take(i) /\ Arrives(wire[i])
  /\ delivered' = Append(delivered,
                    [id |-> wire[i].id,
                     nalu |-> <<wire[i].type>> \o fua_buffer_ \o wire[i].data])
  /\ fua_buffer_' = fua_buffer_ \o wire[i].data
  /\ ReceiverUnchanged

\* The end bit: what the buffer holds is a unit, whatever it came from.
ReceiveLastFragment(i) ==
  /\ wire[i].kind = "fua" /\ wire[i].e
  /\ Take(i) /\ Arrives(wire[i])
  /\ delivered' = Append(delivered,
                    [id |-> wire[i].id,
                     nalu |-> <<wire[i].type>> \o fua_buffer_ \o wire[i].data])
  /\ fua_buffer_' = <<>>
  /\ ReceiverUnchanged

Next ==
  \/ PayloaderNext /\ UNCHANGED <<fua_buffer_, delivered, arrived, faults>>
  \/ Lose
  \/ \E i \in DOMAIN wire : ReceiveSingle(i)
  \/ \E i \in DOMAIN wire : ReceiveAggregate(i)
  \/ \E i \in DOMAIN wire : ReceiveFragment(i)
  \/ \E i \in DOMAIN wire : ReceiveLastFragment(i)

Spec == Init /\ [][Next]_vars

-----------------------------------------------------------------------------
\* Every variable has its type; a held parameter set is a unit found earlier.
Ids == 1..Len(found)

TypeOK ==
  /\ payload \in Seq(Nat) /\ start \in 0..Len(payload)
  /\ calls \in 0..MaxCalls /\ disable_stapa_ \in BOOLEAN
  /\ found \in Seq(Seq(Nat) \ {<<>>})
  /\ sps_nalu_ \in {<<>>} \cup {<<i>> : i \in Ids}
  /\ pps_nalu_ \in {<<>>} \cup {<<i>> : i \in Ids}
  /\ fua_buffer_ \in Seq(Nat)
  /\ delivered \in Seq([id : Ids, nalu : Seq(Nat)])
  /\ arrived \in Seq([id : Ids, part : Nat, e : BOOLEAN])
  /\ faults \in 0..MaxFaults

\* The unsigned size of a unit, next_start - (start + offset), never falls
\* below zero, and the loop always gets on.
ScanInBounds ==
  Scanning => /\ start + Offset(payload, start) <= NextStart(payload, start)
              /\ start < NextStart(payload, start)
              /\ NextStart(payload, start) <= Len(payload)

\* The start codes of a buffer, the three bytes that Annex B of H.264 has in
\* front of every unit.  A buffer either begins with one, or with the zero
\* that Annex B allows before one, or it is bare: what is before its first code
\* is a unit too.
Codes(p) == {i \in 0..Len(p) - 1 : IsCode(p, i)}

IsBare(p) == ~IsCode(p, 0) /\ ~IsLongCode(p, 0)

\* A bare buffer has a unit in front, and thus no code in its first bytes.
WellBegun(p) == IsBare(p) => {1, 2} \cap Codes(p) = {}

\* Where the pieces between the codes begin, and the piece that begins there.
\* The unit of Annex B is the piece without the zeros at its end.
Starts(p) == {i + 3 : i \in Codes(p)} \cup (IF IsBare(p) THEN {0} ELSE {})

PieceAt(p, first) ==
  LET later == {i \in Codes(p) : i >= first}
  IN SubSeq(p, first + 1, IF later = {} THEN Len(p) ELSE Min(later))

FullStarts(p) == {i \in Starts(p) : PieceAt(p, i) # <<>>}

UpTo(S, i) == {j \in S : j <= i}

\* When a call of Payload has seen its buffer, the last units it found are the
\* pieces of the buffer that are not empty: every one of them, once each, in
\* the order in which they lie in it, and as they lie there.
ScanIsSplit ==
  ~Scanning /\ WellBegun(payload) =>
    LET all == FullStarts(payload)
        old == Len(found) - Cardinality(all)
    IN /\ old >= 0
       /\ \A i \in all : found[old + Cardinality(UpTo(all, i))] = PieceAt(payload, i)

\* "Also check for 4-byte start code": between two units the scan stops where
\* the start code begins, and leaves none of its zeros to the unit in front.
LongCodesAreSeen ==
  Scanning /\ start > 0 => ~IsLongCode(payload, start - 1)

PacketSize(pkt) ==
  CASE pkt.kind = "single" -> Len(pkt.nalus[1])
    [] pkt.kind = "stapa"  -> AggregateSize(pkt.nalus)
    [] pkt.kind = "fua"    -> 2 + Len(pkt.data)

\* "mtu is the maximum size each fragment can have": no payload is larger,
\* alone, aggregated or as a fragment.
PacketsFitMtu == \A i \in DOMAIN wire : PacketSize(wire[i]) <= Mtu

\* A picture that goes out in one packet with parameter sets goes with the last
\* ones that were found before it, and a set goes out in one packet only.  A
\* set may wait while the packet would exceed the MTU.
LatestBefore(id, type, i) ==
  /\ id < i /\ found[id][1] = type
  /\ \A j \in id + 1..i - 1 : found[j][1] # type

ParameterSetsFresh ==
  \A i \in DOMAIN wire : wire[i].kind = "stapa" =>
    LET ids == wire[i].ids IN
      /\ LatestBefore(ids[1], SPS, ids[3]) /\ LatestBefore(ids[2], PPS, ids[3])
      /\ \A j \in DOMAIN wire \ {i} : wire[j].kind = "stapa" =>
           \A k \in 1..3 : ids[k] # wire[j].ids[k]

\* A packet whose arrival gives the client the rest of a unit.
Completes(pkt, id) ==
  IF pkt.kind = "fua" THEN pkt.id = id /\ pkt.e
                      ELSE \E k \in DOMAIN pkt.ids : pkt.ids[k] = id

IsOnItsWay(id) == \E i \in DOMAIN wire : Completes(wire[i], id)

IsWritten(id) ==
  \E d \in DOMAIN delivered :
    delivered[d].id = id /\ delivered[d].nalu = found[id]

\* A parameter set is not forgotten while it waits: as long as no other of its
\* type was found, it is held, or on its way, or the client wrote it.
SetsAreNotForgotten ==
  faults = 0 =>
    \A id \in Ids :
      \A type \in {SPS, PPS} : LatestBefore(id, type, Len(found) + 1) =>
        <<id>> \in {sps_nalu_, pps_nalu_} \/ IsOnItsWay(id) \/ IsWritten(id)

\* Over a network that neither loses nor reorders, the client writes every
\* picture whole, and the units in the order in which they were found, but for
\* parameter sets, which may have waited; a unit of a type the client does not
\* know is left out.
IsParameterSet(nalu) == nalu[1] \in {SPS, PPS}

IsPicture(nalu) == nalu[1] \in SingleTypes \ Skipped /\ ~IsParameterSet(nalu)

Pictures == {i \in DOMAIN found : IsPicture(found[i])}

LosslessDelivery ==
  faults = 0 /\ wire = <<>> =>
    /\ \A i \in DOMAIN delivered : delivered[i].nalu = found[delivered[i].id]
    /\ \A i, j \in DOMAIN delivered :
         i < j /\ ~IsParameterSet(delivered[i].nalu)
               /\ ~IsParameterSet(delivered[j].nalu)
           => delivered[i].id < delivered[j].id
    /\ Pictures \subseteq {delivered[i].id : i \in DOMAIN delivered}

\* Whatever is lost or reordered, damage ends with the next end bit: a unit
\* whose fragments arrive together and in order, when the fragment before
\* them was an end, is written as it was found.
ArrivedWhole(i) ==
  LET id == arrived[i].id
      n == FragmentCount(found[id])
  IN /\ n <= i
     /\ \A k \in 1..n : arrived[i - n + k].id = id /\ arrived[i - n + k].part = k
     /\ n < i => arrived[i - n].e

DamageIsContained ==
  \A i \in DOMAIN arrived : ArrivedWhole(i) =>
    \E d \in DOMAIN delivered :
      /\ delivered[d].id = arrived[i].id
      /\ delivered[d].nalu = found[arrived[i].id]
=============================================================================
