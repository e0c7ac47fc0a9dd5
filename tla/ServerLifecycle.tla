-------------------------- MODULE ServerLifecycle --------------------------
(***************************************************************************)
(* The objects a Server owns, from its construction to its destruction:    *)
(* InitializeServer, which may be called again, Listen, and the destructor *)
(* the compiler writes, which destroys the members in the reverse of the   *)
(* order in which web_transport_server.h declares them.                    *)
(***************************************************************************)
EXTENDS Naturals

CONSTANT MaxInits   \* bound: calls of InitializeServer

VARIABLES
  pc,                  \* what the Server is doing
  made,                \* calls of InitializeServer
  backend_,            \* the backend it owns, numbered by the call; 0 is none
  server_,             \* the QuicServer it owns, likewise
  server_initialized_

vars == <<pc, made, backend_, server_, server_initialized_>>

\* A QuicServer keeps a pointer to the backend of the call that made it.
BackendOf(server) == server

Init ==
  /\ pc = "idle"
  /\ made = 0
  /\ backend_ = 0 /\ server_ = 0
  /\ server_initialized_ = FALSE

\* InitializeServer: a new backend, the old one destroyed with the assignment.
MakeBackend ==
  /\ pc = "idle" /\ made < MaxInits
  /\ made' = made + 1
  /\ backend_' = made'
  /\ pc' = "initialize"
  /\ UNCHANGED <<server_, server_initialized_>>

\* ... and the QuicServer, likewise, which then listens.
MakeServer ==
  /\ pc = "initialize"
  /\ server_' = made
  /\ server_initialized_' = TRUE
  /\ pc' = "idle"
  /\ UNCHANGED <<made, backend_>>

\* No certificate, no key or no socket: exit(1).
Exit ==
  /\ pc = "initialize"
  /\ pc' = "exited"
  /\ UNCHANGED <<made, backend_, server_, server_initialized_>>

\* HandleEventsForever does not return.
Listen ==
  /\ pc = "idle" /\ server_initialized_
  /\ pc' = "listening"
  /\ UNCHANGED <<made, backend_, server_, server_initialized_>>

\* ~Server: backend_ is declared after server_, so it goes first.
DestroyBackend ==
  /\ pc = "idle"
  /\ backend_' = 0
  /\ pc' = "destroy"
  /\ UNCHANGED <<made, server_, server_initialized_>>

\* ~QuicServer calls its backend.
DestroyServer ==
  /\ pc = "destroy"
  /\ server_' = 0
  /\ pc' = "destroyed"
  /\ UNCHANGED <<made, backend_, server_initialized_>>

Next == MakeBackend \/ MakeServer \/ Exit \/ Listen \/ DestroyBackend
        \/ DestroyServer

Spec == Init /\ [][Next]_vars

\* The backend of a QuicServer is there as long as the QuicServer is.
BackendOutlivesServer == server_ # 0 => backend_ = BackendOf(server_)
=============================================================================
