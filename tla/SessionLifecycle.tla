-------------------------- MODULE SessionLifecycle --------------------------
(***************************************************************************)
(* What the server promises about a WebTransport session, whatever the     *)
(* order in which the application, the peer and the event loop act: it is  *)
(* decided about, one session at a time, then open, then over for good; it *)
(* is served (a datagram delivered, its streams accepted) only when it is  *)
(* open at the start of the service; and it is freed only once it is over  *)
(* and nothing is being served.                                            *)
(***************************************************************************)
CONSTANTS Sessions, None   \* None is no session

VARIABLES
  life,     \* where each session is in its life
  serving   \* the session being served, or None

lifecycle == <<life, serving>>

Lives == {"absent", "deciding", "open", "over", "gone"}

Init == life = [s \in Sessions |-> "absent"] /\ serving = None

Becomes(s, l) == life' = [life EXCEPT ![s] = l]

Request(s) ==
  /\ life[s] = "absent" /\ serving = None
  /\ \A t \in Sessions : life[t] # "deciding"
  /\ Becomes(s, "deciding") /\ UNCHANGED serving

Accept(s) == life[s] = "deciding" /\ Becomes(s, "open") /\ UNCHANGED serving

\* Refused, closed by the peer, or lost with the connection.
End(s) ==
  /\ life[s] \in {"deciding", "open"}
  /\ Becomes(s, "over") /\ UNCHANGED serving

StartService(s) ==
  /\ serving = None /\ life[s] = "open"
  /\ serving' = s /\ UNCHANGED life

EndService == serving # None /\ serving' = None /\ UNCHANGED life

Free(s) ==
  /\ serving = None /\ life[s] = "over"
  /\ Becomes(s, "gone") /\ UNCHANGED serving

Next ==
  \/ \E s \in Sessions : \/ Request(s) \/ Accept(s) \/ End(s)
                         \/ StartService(s) \/ Free(s)
  \/ EndService

Spec == Init /\ [][Next]_lifecycle
=============================================================================
