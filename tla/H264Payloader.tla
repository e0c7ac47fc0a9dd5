--------------------------- MODULE H264Payloader ---------------------------
(* H264Payloader (src/examples/media_stream/h264_rtp_packetizer.cc): one    *)
(* call of Payload cuts an Annex-B buffer at its start codes and turns the  *)
(* NAL units into RTP payloads that are to fit the MTU.  Each action is one *)
(* turn of the loop of EmitNALUs.  Bytes are small numbers: a NAL unit's    *)
(* first byte is its type (the NRI bits are left out), and positions count  *)
(* from 0 as in the code.                                                   *)
EXTENDS Naturals, Sequences, SequencesExt

CONSTANTS
  Mtu,      \* the mtu given to Payload
  MaxCalls, \* bound: calls of Payload in one behaviour
  Frames    \* the buffers an application may give to each of them

\* For an MTU of 2 CreateFUAPackets never ends, and below 2 the size of a
\* fragment, mtu minus two as an unsigned number, is no longer bounded.
ASSUME MtuAssumption == Mtu \in Nat /\ Mtu > 2

ASSUME FramesAssumption ==
  MaxCalls \in Nat /\ Frames \in [1..MaxCalls -> SUBSET Seq(Nat)]

SPS == 7
PPS == 8
Skipped == {9, 12}   \* access unit delimiter and filler data

VARIABLES
  payload,         \* the buffer of the current or last call
  start,           \* how far EmitNALUs has come in it
  calls,           \* the calls made so far
  disable_stapa_,  \* DisableSTAPA was given TRUE
  sps_nalu_,       \* the parameter sets held back: <<>>, or <<i>> for the
  pps_nalu_,       \*   i-th NAL unit found
  found,           \* history: every NAL unit found, in order
  wire             \* the RTP payloads that are in the network

payloader_vars ==
  <<payload, start, calls, disable_stapa_, sps_nalu_, pps_nalu_, found, wire>>

-----------------------------------------------------------------------------
(* The scan for start codes.                                                *)
Byte(p, i) == p[i + 1]

IsCode(p, i) ==
  /\ i + 2 < Len(p)
  /\ Byte(p, i) = 0 /\ Byte(p, i + 1) = 0 /\ Byte(p, i + 2) = 1

IsLongCode(p, i) ==
  /\ i + 3 < Len(p)
  /\ Byte(p, i) = 0 /\ Byte(p, i + 1) = 0 /\ Byte(p, i + 2) = 0
  /\ Byte(p, i + 3) = 1

\* A unit has one of the types of H.264: one of type 24 or 28 the client would
\* take for an aggregate or a fragment.
ASSUME UnitTypesAssumption ==
  \A k \in 1..MaxCalls : \A p \in Frames[k] : \A i \in 0..Len(p) - 1 :
    i = 0 \/ (i > 2 /\ IsCode(p, i - 3)) => Byte(p, i) \notin {24, 28}

\* The search begins three bytes on, and tests for a short code before it
\* tests for a long one that begins at the byte before.
CodeEnds(p, i) == IsCode(p, i) \/ IsLongCode(p, i - 1)

Hits(p, from) == {i \in 0..Len(p) - 1 : from + 3 <= i /\ CodeEnds(p, i)}

NextStart(p, from) ==
  IF Hits(p, from) = {} THEN Len(p)
  ELSE LET i == Min(Hits(p, from)) IN IF IsCode(p, i) THEN i ELSE i - 1

\* Mutant of Offset: a long start code is taken for a short one.
Offset_Short(p, from) == IF ~IsCode(p, from) /\ from = 0 THEN 0 ELSE 3

Offset(p, from) ==
  IF IsLongCode(p, from) THEN 4
  ELSE IF ~IsCode(p, from) /\ from = 0 THEN 0 ELSE 3

Nalu(p, from) == SubSeq(p, from + Offset(p, from) + 1, NextStart(p, from))

-----------------------------------------------------------------------------
(* The payloads of a packet.  "ids" are the numbers of the NAL units in it  *)
(* and "nalus" their bytes; a fragment has one unit's number, its type, its *)
(* place among the fragments of the unit, and the start and end bits.       *)
Single(id, nalu) == [kind |-> "single", ids |-> <<id>>, nalus |-> <<nalu>>]

Aggregate(ids, nalus) == [kind |-> "stapa", ids |-> ids, nalus |-> nalus]

\* Mutant of MaxFragment: the two bytes of header are forgotten.
MaxFragment_NoHeader == Mtu

MaxFragment == Mtu - 2

\* The first byte of the unit goes into the header of each fragment, the
\* others into the fragments; the last of them may be shorter.
FragmentCount(nalu) == (Len(nalu) - 2) \div MaxFragment + 1

Least(a, b) == IF a <= b THEN a ELSE b

\* Mutant of Data: consecutive fragments share a byte.
Data_Overlap(nalu, first) ==
  SubSeq(nalu, first, Least(first + MaxFragment, Len(nalu)))

Data(nalu, first) ==
  SubSeq(nalu, first, Least(first + MaxFragment - 1, Len(nalu)))

Fragment(id, nalu, k) ==
  [kind |-> "fua", id |-> id, type |-> nalu[1], part |-> k,
   s |-> k = 1, e |-> k = FragmentCount(nalu),
   data |-> Data(nalu, (k - 1) * MaxFragment + 2)]

CreateFUAPackets(id, nalu) ==
  [k \in 1..FragmentCount(nalu) |-> Fragment(id, nalu, k)]

\* The size of a STAP-A packet: its header, and a length before each unit.
AggregateSize(nalus) ==
  1 + (2 + Len(nalus[1])) + (2 + Len(nalus[2])) + (2 + Len(nalus[3]))

-----------------------------------------------------------------------------
PayloaderInit ==
  /\ payload = <<>> /\ start = 0 /\ calls = 0
  /\ disable_stapa_ \in BOOLEAN
  /\ sps_nalu_ = <<>> /\ pps_nalu_ = <<>>
  /\ found = <<>> /\ wire = <<>>

Scanning == start < Len(payload)

\* The application packetizes the next buffer and sends what it gets.
Payload(frame) ==
  /\ ~Scanning /\ calls < MaxCalls /\ frame \in Frames[calls + 1]
  /\ payload' = frame /\ start' = 0 /\ calls' = calls + 1
  /\ UNCHANGED <<disable_stapa_, sps_nalu_, pps_nalu_, found, wire>>

\* Mutant of Advance: a unit without a byte counts.
Advance_Empty ==
  /\ start' = NextStart(payload, start)
  /\ found' = Append(found, Nalu(payload, start))
  /\ UNCHANGED <<payload, calls, disable_stapa_>>

\* What every turn of the loop does: it finds a unit, if the unit has a byte,
\* and goes on at the next start code.
Advance ==
  /\ start' = NextStart(payload, start)
  /\ found' = IF Nalu(payload, start) = <<>> THEN found
              ELSE Append(found, Nalu(payload, start))
  /\ UNCHANGED <<payload, calls, disable_stapa_>>

ThisNalu == Nalu(payload, start)
ThisId == Len(found) + 1

\* An empty unit, a delimiter or filler data is not sent.
SkipNalu ==
  /\ Scanning
  /\ ThisNalu # <<>> => ThisNalu[1] \in Skipped
  /\ Advance
  /\ UNCHANGED <<sps_nalu_, pps_nalu_, wire>>

IsHeld(nalu) == ~disable_stapa_ /\ nalu[1] \in {SPS, PPS}

SetSPS ==
  /\ Scanning /\ ThisNalu # <<>>
  /\ ~disable_stapa_ /\ ThisNalu[1] = SPS
  /\ sps_nalu_' = <<ThisId>>
  /\ Advance
  /\ UNCHANGED <<pps_nalu_, wire>>

SetPPS ==
  /\ Scanning /\ ThisNalu # <<>>
  /\ ~disable_stapa_ /\ ThisNalu[1] = PPS
  /\ pps_nalu_' = <<ThisId>>
  /\ Advance
  /\ UNCHANGED <<sps_nalu_, wire>>

Sendable ==
  /\ Scanning /\ ThisNalu # <<>>
  /\ ThisNalu[1] \notin Skipped /\ ~IsHeld(ThisNalu)

Held == <<found[sps_nalu_[1]], found[pps_nalu_[1]]>>

Aggregates ==
  /\ ~disable_stapa_ /\ sps_nalu_ # <<>> /\ pps_nalu_ # <<>>
  /\ AggregateSize(Append(Held, ThisNalu)) <= Mtu

\* Mutant of SendAggregate: the parameter sets stay held.
SendAggregate_Keeps ==
  /\ Sendable /\ Aggregates
  /\ wire' = Append(wire, Aggregate(sps_nalu_ \o pps_nalu_ \o <<ThisId>>,
                                    Append(Held, ThisNalu)))
  /\ UNCHANGED <<sps_nalu_, pps_nalu_>>
  /\ Advance

\* The unit and the held parameter sets go out in one packet.
SendAggregate ==
  /\ Sendable /\ Aggregates
  /\ wire' = Append(wire, Aggregate(sps_nalu_ \o pps_nalu_ \o <<ThisId>>,
                                    Append(Held, ThisNalu)))
  /\ sps_nalu_' = <<>> /\ pps_nalu_' = <<>>
  /\ Advance

\* Mutant of SendSingle: the sets are cleared although they did not go out.
SendSingle_Clears ==
  /\ Sendable /\ ~Aggregates /\ Len(ThisNalu) <= Mtu
  /\ wire' = Append(wire, Single(ThisId, ThisNalu))
  /\ Advance
  /\ sps_nalu_' = <<>> /\ pps_nalu_' = <<>>

\* No set is held, or the three do not fit: the unit goes out alone.
SendSingle ==
  /\ Sendable /\ ~Aggregates /\ Len(ThisNalu) <= Mtu
  /\ wire' = Append(wire, Single(ThisId, ThisNalu))
  /\ Advance
  /\ UNCHANGED <<sps_nalu_, pps_nalu_>>

SendFragments ==
  /\ Sendable /\ ~Aggregates /\ Len(ThisNalu) > Mtu
  /\ wire' = wire \o CreateFUAPackets(ThisId, ThisNalu)
  /\ Advance
  /\ UNCHANGED <<sps_nalu_, pps_nalu_>>

PayloaderNext ==
  \/ \E frame \in UNION {Frames[k] : k \in 1..MaxCalls} : Payload(frame)
  \/ SkipNalu \/ SetSPS \/ SetPPS
  \/ SendAggregate \/ SendSingle \/ SendFragments
=============================================================================
