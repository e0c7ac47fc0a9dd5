----------------------------- MODULE AtomicRead -----------------------------
(* What an application is promised of a stream, on either side: each time   *)
(* something arrives, its callback is called once, at a single moment, with *)
(* everything that is there, or with nothing if that is the FIN alone.      *)
(* Before it registers a callback, a server keeps the bytes for the next    *)
(* time something arrives, and a client drops them.                         *)
EXTENDS Naturals, Sequences

CONSTANT Length   \* bound: bytes of the stream

VARIABLES
  side,         \* "server" or "client"
  arrived,      \* bytes that have arrived
  fin_arrived,  \* has the FIN
  due,          \* has something arrived that was not yet answered
  taken,        \* bytes delivered or dropped
  fin_taken,    \* was the FIN
  handler,      \* is a callback registered
  delivered,    \* the bytes it was given
  empty_reads   \* its calls without a byte

Init ==
  /\ side \in {"server", "client"}
  /\ arrived = 0 /\ fin_arrived = FALSE /\ due = FALSE
  /\ taken = 0 /\ fin_taken = FALSE /\ handler = FALSE
  /\ delivered = <<>> /\ empty_reads = 0

Arrives(n, fin) ==
  /\ ~due /\ ~fin_arrived /\ (n > 0 \/ fin) /\ arrived + n <= Length
  /\ arrived' = arrived + n /\ fin_arrived' = fin /\ due' = TRUE
  /\ UNCHANGED <<side, taken, fin_taken, handler, delivered, empty_reads>>

Registers ==
  /\ ~due /\ ~handler
  /\ handler' = TRUE
  /\ UNCHANGED <<side, arrived, fin_arrived, due, taken, fin_taken, delivered,
                 empty_reads>>

TakesAll ==
  /\ due /\ due' = FALSE
  /\ taken' = arrived /\ fin_taken' = fin_arrived
  /\ UNCHANGED <<side, arrived, fin_arrived, handler>>

\* One call of the callback.
Delivers ==
  /\ handler /\ TakesAll
  /\ IF arrived = taken
     THEN empty_reads' = empty_reads + 1 /\ UNCHANGED delivered
     ELSE /\ delivered' = delivered \o [i \in 1..arrived - taken |-> taken + i]
          /\ UNCHANGED empty_reads

Drops ==
  /\ ~handler /\ side = "client" /\ TakesAll
  /\ UNCHANGED <<delivered, empty_reads>>

Keeps ==
  /\ ~handler /\ side = "server" /\ due /\ due' = FALSE
  /\ UNCHANGED <<side, arrived, fin_arrived, taken, fin_taken, handler,
                 delivered, empty_reads>>

Next ==
  \/ \E n \in 0..Length, fin \in BOOLEAN : Arrives(n, fin)
  \/ Registers \/ Delivers \/ Drops \/ Keeps

Spec == Init /\ [][Next]_<<side, arrived, fin_arrived, due, taken, fin_taken,
                           handler, delivered, empty_reads>>
=============================================================================
