--------------------------- MODULE MCMediaStream ---------------------------
(* A small instance of MediaStream for TLC; for H.264 the MTU is twelve.    *)
EXTENDS MediaStream

\* A parameter set of each kind, a delimiter, a picture that fits one packet
\* with the parameter sets (one of which ends with the zero of the start code
\* behind it), one that fits a packet alone, and pictures of two and of three
\* fragments.
Body(type, n) == <<type>> \o [i \in 1..n - 1 |-> i + 1]

Bodies == {<<7>>, <<8>>, <<9, 2>>, <<1>>, <<1, 2, 3>>, Body(5, 14), Body(5, 22)}

Short(b) == <<0, 0, 1>> \o b
Long(b)  == <<0, 0, 0, 1>> \o b

\* Every buffer of zeros and ones of three and of six bytes: what the scan for
\* start codes can meet.
Scans == UNION {[1..n -> {0, 1}] : n \in {3, 6}}

OneUnit(bodies) == {Long(b) : b \in bodies}
TwoUnits(bodies) == {Short(a) \o Long(b) : a, b \in bodies}

\* The second buffer has a parameter set that replaces one, pictures that go
\* with the sets, and pictures in fragments.
Later == {<<7>>, <<1>>, Body(5, 14)}

MCFrames == <<Scans \cup OneUnit(Bodies) \cup TwoUnits(Bodies),
              OneUnit(Later) \cup TwoUnits(Later)>>

\* VP8 frames of up to five fragments, an MTU that has no room for a byte
\* behind the longest descriptor, and one that has.  The ids are the last but
\* one of the short form and of all.
MCVP8Frames == {[i \in 1..n |-> i] : n \in {0, 1, 5, 13}}
=============================================================================
