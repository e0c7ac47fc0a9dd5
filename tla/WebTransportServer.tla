------------------------- MODULE WebTransportServer -------------------------
(***************************************************************************)
(* The server side of the library as its event loop runs it: the session  *)
(* and stream wrappers of web_transport_server.cc, the backend that        *)
(* creates a session wrapper for a request, and the interval alarms.       *)
(*                                                                         *)
(* Everything runs on one thread.  An event of the QUIC session calls a    *)
(* wrapper, the wrapper may call a callback of the application, and inside *)
(* that callback the application may call any session or stream it was     *)
(* given.  `callback' and `callee' name the call in progress, so an event  *)
(* starts only when callback = "none".  OnSessionClosed is the exception:  *)
(* a write made inside a callback may fail and close the connection there. *)
(*                                                                         *)
(* The QUIC session itself is external: `closes' and `close_notified' are  *)
(* what it was told and what it told, and it                               *)
(*   - announces each incoming stream by one call to the session's visitor,*)
(*   - calls OnSessionClosed at most once, and before it frees the visitor,*)
(*   - frees visitors from the event loop, never inside a callback.        *)
(* The application's obligations: it calls no object that was freed, and   *)
(* it replaces neither an interval nor a datagram callback from inside     *)
(* that very callback.                                                     *)
(***************************************************************************)
EXTENDS Naturals, Sequences

CONSTANTS
  Sessions,      \* the CONNECT requests the server receives
  Streams,       \* the streams the peers open
  SessionOf,     \* the session a stream belongs to
  Bidi,          \* the streams that are bidirectional
  Codes,         \* the error codes the application rejects with
  MaxDatagrams,  \* bound: datagrams handed to the QUIC session
  None           \* no object

Owners == Sessions \cup Streams

ASSUME SessionsDisjoint == Sessions \cap Streams = {} /\ None \notin Owners
ASSUME SessionOfType == SessionOf \in [Streams -> Sessions]
ASSUME BidiType == Bidi \subseteq Streams
ASSUME CodesType == Codes \subseteq Nat
ASSUME MaxDatagramsType == MaxDatagrams \in Nat

VARIABLES
  handlers,           \* the callbacks registered on the Server before Listen
  wrapper,            \* the wrapper of a session or stream
  handed,             \* the objects whose pointer the application has
  onready_called_,
  session_closed_,
  should_reject_,
  reject_error_code_,
  datagram_cb_,       \* has the session a datagram callback
  interval_alarm_,    \* the alarm a wrapper owns
  closes,             \* the codes given to CloseSession of the QUIC session
  close_notified,     \* has the QUIC session reported its end
  outbox,             \* datagrams handed to the QUIC session
  refused,            \* the sessions the application said no to
  callback,           \* the call in progress ...
  callee              \* ... and the object it is about

flags == <<onready_called_, session_closed_, should_reject_,
           reject_error_code_, refused>>
transport == <<closes, close_notified, outbox>>
objects == <<wrapper, handed, datagram_cb_, interval_alarm_>>
frame == <<callback, callee>>
vars == <<handlers, flags, transport, objects, frame>>

-----------------------------------------------------------------------------
Callbacks == {"none", "ready", "accepting", "session", "stream", "datagram",
              "interval"}

Kind(st) == IF st \in Bidi THEN "bidirectional" ELSE "unidirectional"

\* What the application may register.  A callback for a direction in which no
\* peer opens a stream is never called, and left out.
Handlers == {"session"} \cup {Kind(st) : st \in Streams}

Alive(o) == wrapper[o] = "alive"

\* The streams of st's session and direction that nobody has accepted yet.
Waiting(st) == {w \in Streams : /\ wrapper[w] = "incoming"
                                /\ SessionOf[w] = SessionOf[st]
                                /\ Kind(w) = Kind(st)}

\* The QUIC session was neither told to close nor has reported its end.
TransportOpen(s) == closes[s] = <<>> /\ ~close_notified[s]

Idle == callback = "none"
Return == callback' = "none" /\ callee' = None
Call(cb, o) == callback' = cb /\ callee' = o

\* The application runs, and o is an object it may call.
AppMayCall(o) ==
  /\ callback \in {"session", "stream", "datagram", "interval"}
  /\ o \in handed
  /\ Alive(o)

-----------------------------------------------------------------------------
Init ==
  /\ handlers \in SUBSET Handlers
  /\ wrapper = [o \in Owners |-> "none"]
  /\ handed = {}
  /\ onready_called_ = [s \in Sessions |-> FALSE]
  /\ session_closed_ = [s \in Sessions |-> FALSE]
  /\ should_reject_ = [s \in Sessions |-> FALSE]
  /\ reject_error_code_ = [s \in Sessions |-> 0]
  /\ datagram_cb_ = [s \in Sessions |-> FALSE]
  /\ interval_alarm_ = [o \in Owners |-> "none"]
  /\ closes = [s \in Sessions |-> <<>>]
  /\ close_notified = [s \in Sessions |-> FALSE]
  /\ outbox = [s \in Sessions |-> 0]
  /\ refused = {}
  /\ callback = "none"
  /\ callee = None

-----------------------------------------------------------------------------
(* Requests, and the decision about a session                              *)

\* A CONNECT request with a path: 200, a new SessionWrapper as the visitor,
\* and the QUIC session goes on to report that it is ready.
ProcessWebTransportRequest(s) ==
  /\ Idle /\ wrapper[s] = "none"
  /\ wrapper' = [wrapper EXCEPT ![s] = "alive"]
  /\ Call("ready", s)
  /\ UNCHANGED <<handlers, flags, transport, handed, datagram_cb_,
                 interval_alarm_>>

\* A CONNECT request without a path: 400, and no visitor.
RefuseRequest(s) ==
  /\ Idle /\ wrapper[s] = "none"
  /\ wrapper' = [wrapper EXCEPT ![s] = "refused"]
  /\ UNCHANGED <<handlers, flags, transport, handed, datagram_cb_,
                 interval_alarm_, frame>>

\* Mutant of Close: the wrapper does not note that it closed the session.
Close_NoFlag(s, code) ==
  /\ closes' = [closes EXCEPT ![s] = Append(@, code)]
  /\ UNCHANGED session_closed_

\* The wrapper closes the QUIC session with this code.
Close(s, code) ==
  /\ closes' = [closes EXCEPT ![s] = Append(@, code)]
  /\ session_closed_' = [session_closed_ EXCEPT ![s] = TRUE]

CloseIf(cond, s, code) ==
  IF cond THEN Close(s, code) ELSE UNCHANGED <<closes, session_closed_>>

\* OnSessionReady up to the call of session_cb_.  No caller can have set
\* should_reject_ yet (the pointer is first handed out here); the branch is
\* kept as the code has it.
OnSessionReady(s) ==
  /\ callback = "ready" /\ callee = s
  /\ onready_called_' = [onready_called_ EXCEPT ![s] = TRUE]
  /\ CloseIf(should_reject_[s] /\ ~session_closed_[s], s,
             reject_error_code_[s])
  /\ IF ~should_reject_[s] /\ "session" \in handlers
     THEN Call("session", s) /\ handed' = handed \cup {s}
     ELSE Return /\ UNCHANGED handed
  /\ UNCHANGED <<handlers, should_reject_, reject_error_code_, refused,
                 close_notified, outbox, wrapper, datagram_cb_,
                 interval_alarm_>>

\* Mutant of SessionCallbackReturns: a refusal closes without asking whether
\* RejectSession or the peer already did.
SessionCallbackReturns_NoCheck(s, accept) ==
  /\ callback = "session" /\ callee = s
  /\ CloseIf(~accept, s, 0)
  /\ refused' = IF accept THEN refused ELSE refused \cup {s}
  /\ Return
  /\ UNCHANGED <<handlers, onready_called_, should_reject_,
                 reject_error_code_, close_notified, outbox, objects>>

\* session_cb_ returns, and OnSessionReady acts on its answer.
SessionCallbackReturns(s, accept) ==
  /\ callback = "session" /\ callee = s
  /\ CloseIf(~accept /\ ~should_reject_[s] /\ ~session_closed_[s], s, 0)
  /\ refused' = IF accept THEN refused ELSE refused \cup {s}
  /\ Return
  /\ UNCHANGED <<handlers, onready_called_, should_reject_,
                 reject_error_code_, close_notified, outbox, objects>>

-----------------------------------------------------------------------------
(* What the application calls                                              *)

\* Mutant of RejectSession: it only leaves the refusal for OnSessionReady.
RejectSession_Deferred(s, code) ==
  /\ AppMayCall(s)
  /\ reject_error_code_' = [reject_error_code_ EXCEPT ![s] = code]
  /\ should_reject_' = [should_reject_ EXCEPT ![s] = TRUE]
  /\ refused' = refused \cup {s}
  /\ UNCHANGED <<handlers, onready_called_, session_closed_, transport,
                 objects, frame>>

RejectSession(s, code) ==
  /\ AppMayCall(s)
  /\ reject_error_code_' = [reject_error_code_ EXCEPT ![s] = code]
  /\ should_reject_' = [should_reject_ EXCEPT ![s] = TRUE]
  /\ CloseIf(onready_called_[s] /\ ~session_closed_[s], s, code)
  /\ refused' = refused \cup {s}
  /\ UNCHANGED <<handlers, onready_called_, close_notified, outbox, objects,
                 frame>>

SendDatagram(s) ==
  /\ AppMayCall(s)
  /\ outbox[s] < MaxDatagrams
  /\ ~session_closed_[s]
  /\ outbox' = [outbox EXCEPT ![s] = @ + 1]
  /\ UNCHANGED <<handlers, flags, closes, close_notified, objects, frame>>

onDatagramRead(s) ==
  /\ AppMayCall(s)
  /\ ~(callback = "datagram" /\ callee = s)
  /\ datagram_cb_' = [datagram_cb_ EXCEPT ![s] = TRUE]
  /\ UNCHANGED <<handlers, flags, transport, wrapper, handed,
                 interval_alarm_, frame>>

\* A new alarm replaces the one the wrapper owned, and is set.
setInterval(o) ==
  /\ AppMayCall(o)
  /\ ~(callback = "interval" /\ callee = o)
  /\ interval_alarm_' = [interval_alarm_ EXCEPT ![o] = "set"]
  /\ UNCHANGED <<handlers, flags, transport, wrapper, handed, datagram_cb_,
                 frame>>

\* Mutant of CallbackReturns: OnAlarm does not set the alarm again.
CallbackReturns_OneShot ==
  /\ \/ callback \in {"datagram", "interval"} /\ Return
     \/ callback = "stream" /\ Call("accepting", callee)
  /\ UNCHANGED <<handlers, flags, transport, objects>>

\* Any other callback of the application returns to the wrapper.
CallbackReturns ==
  /\ \/ callback = "datagram" /\ Return /\ UNCHANGED interval_alarm_
     \/ callback = "stream" /\ Call("accepting", callee)
                            /\ UNCHANGED interval_alarm_
     \/ callback = "interval" /\ Return
        /\ interval_alarm_' = [interval_alarm_ EXCEPT ![callee] = "set"]
  /\ UNCHANGED <<handlers, flags, transport, wrapper, handed, datagram_cb_>>

-----------------------------------------------------------------------------
(* Events of the QUIC session and of the event loop                        *)

\* Mutant of OnDatagramReceived: no check of session_closed_.
OnDatagramReceived_NoGuard(s) ==
  /\ Idle /\ Alive(s) /\ datagram_cb_[s]
  /\ Call("datagram", s)
  /\ UNCHANGED <<handlers, flags, transport, objects>>

\* A datagram the guard of OnDatagramReceived lets through; any other is
\* dropped and changes nothing.
OnDatagramReceived(s) ==
  /\ Idle /\ Alive(s)
  /\ datagram_cb_[s] /\ ~session_closed_[s]
  /\ Call("datagram", s)
  /\ UNCHANGED <<handlers, flags, transport, objects>>

\* Mutant of OnIncomingStreamAvailable: streams nobody listens to are not
\* accepted.
OnIncomingStreamAvailable_OnlyHandled(st) ==
  /\ Idle /\ Alive(SessionOf[st]) /\ wrapper[st] = "none"
  /\ wrapper' = [wrapper EXCEPT ![st] = "incoming"]
  /\ IF session_closed_[SessionOf[st]] \/ Kind(st) \notin handlers
     THEN UNCHANGED frame
     ELSE Call("accepting", st)
  /\ UNCHANGED <<handlers, flags, transport, handed, datagram_cb_,
                 interval_alarm_>>

\* A stream arrives and the session's visitor is told, once.
OnIncomingStreamAvailable(st) ==
  /\ Idle /\ Alive(SessionOf[st]) /\ wrapper[st] = "none"
  /\ wrapper' = [wrapper EXCEPT ![st] = "incoming"]
  /\ IF session_closed_[SessionOf[st]]
     THEN UNCHANGED frame
     ELSE Call("accepting", st)
  /\ UNCHANGED <<handlers, flags, transport, handed, datagram_cb_,
                 interval_alarm_>>

\* One round of the accept loop: a StreamWrapper, and the application's
\* callback for the direction if it registered one.
AcceptIncomingStream(st) ==
  /\ callback = "accepting" /\ st \in Waiting(callee)
  /\ wrapper' = [wrapper EXCEPT ![st] = "alive"]
  /\ IF Kind(st) \in handlers
     THEN /\ Call("stream", st)
          /\ handed' = handed \cup {st, SessionOf[st]}
     ELSE UNCHANGED <<frame, handed>>
  /\ UNCHANGED <<handlers, flags, transport, datagram_cb_, interval_alarm_>>

NothingToAccept ==
  /\ callback = "accepting" /\ Waiting(callee) = {}
  /\ Return
  /\ UNCHANGED <<handlers, flags, transport, objects>>

OnAlarm(o) ==
  /\ Idle /\ interval_alarm_[o] = "set"
  /\ interval_alarm_' = [interval_alarm_ EXCEPT ![o] = "fired"]
  /\ Call("interval", o)
  /\ UNCHANGED <<handlers, flags, transport, wrapper, handed, datagram_cb_>>

\* Mutant of OnSessionClosed: the event is ignored.
OnSessionClosed_NoFlag(s) ==
  /\ callback \notin {"ready", "accepting"} /\ Alive(s) /\ ~close_notified[s]
  /\ close_notified' = [close_notified EXCEPT ![s] = TRUE]
  /\ UNCHANGED <<handlers, flags, closes, outbox, objects, frame>>

OnSessionClosed(s) ==
  /\ callback \notin {"ready", "accepting"} /\ Alive(s) /\ ~close_notified[s]
  /\ close_notified' = [close_notified EXCEPT ![s] = TRUE]
  /\ session_closed_' = [session_closed_ EXCEPT ![s] = TRUE]
  /\ UNCHANGED <<handlers, onready_called_, should_reject_,
                 reject_error_code_, refused, closes, outbox, objects, frame>>

\* Mutant of Destroy: the wrapper does not own its alarm.
Destroy_KeepsAlarm(o) ==
  /\ Idle
  /\ o \in Streams /\ wrapper[o] \in {"incoming", "alive"}
  /\ wrapper' = [wrapper EXCEPT ![o] = "freed"]
  /\ UNCHANGED <<handlers, flags, transport, handed, datagram_cb_,
                 interval_alarm_, frame>>

\* The QUIC session frees a wrapper, and with it the alarm it owns.
Destroy(o) ==
  /\ Idle
  /\ \/ o \in Sessions /\ Alive(o) /\ close_notified[o]
        /\ datagram_cb_' = [datagram_cb_ EXCEPT ![o] = FALSE]
     \/ o \in Streams /\ wrapper[o] \in {"incoming", "alive"}
        /\ UNCHANGED datagram_cb_
  /\ wrapper' = [wrapper EXCEPT ![o] = "freed"]
  /\ interval_alarm_' = [interval_alarm_ EXCEPT ![o] = "none"]
  /\ UNCHANGED <<handlers, flags, transport, handed, frame>>

-----------------------------------------------------------------------------
\* Steps the library or the event loop owes; callbacks are assumed to return.
Progress ==
  \/ \E s \in Sessions : OnSessionReady(s)
  \/ \E s \in Sessions, accept \in BOOLEAN : SessionCallbackReturns(s, accept)
  \/ CallbackReturns
  \/ \E st \in Streams : AcceptIncomingStream(st)
  \/ NothingToAccept

\* Steps the application takes inside its callbacks.
App ==
  \/ \E s \in Sessions, code \in Codes : RejectSession(s, code)
  \/ \E s \in Sessions : SendDatagram(s) \/ onDatagramRead(s)
  \/ \E o \in Owners : setInterval(o)

\* Steps the peers and the network decide on.
Peer ==
  \/ \E s \in Sessions : \/ ProcessWebTransportRequest(s) \/ RefuseRequest(s)
                         \/ OnDatagramReceived(s) \/ OnSessionClosed(s)
  \/ \E st \in Streams : OnIncomingStreamAvailable(st)
  \/ \E o \in Owners : Destroy(o)

Next == Progress \/ App \/ Peer \/ \E o \in Owners : OnAlarm(o)

Spec == Init /\ [][Next]_vars

\* The event loop runs every due alarm however many other events it handles
\* in between, hence strong fairness; the wrapper's own code runs on.
Fairness == WF_vars(Progress) /\ \A o \in Owners : SF_vars(OnAlarm(o))

FairSpec == Spec /\ Fairness

-----------------------------------------------------------------------------
\* Every variable has its type, and the call in progress an object of its kind.
TypeOK ==
  /\ handlers \in SUBSET Handlers
  /\ wrapper \in [Owners -> {"none", "refused", "incoming", "alive", "freed"}]
  /\ handed \in SUBSET Owners
  /\ onready_called_ \in [Sessions -> BOOLEAN]
  /\ session_closed_ \in [Sessions -> BOOLEAN]
  /\ should_reject_ \in [Sessions -> BOOLEAN]
  /\ reject_error_code_ \in [Sessions -> Codes \cup {0}]
  /\ datagram_cb_ \in [Sessions -> BOOLEAN]
  /\ interval_alarm_ \in [Owners -> {"none", "set", "fired"}]
  /\ closes \in [Sessions -> Seq(Codes \cup {0})]
  /\ close_notified \in [Sessions -> BOOLEAN]
  /\ outbox \in [Sessions -> 0..MaxDatagrams]
  /\ refused \in SUBSET Sessions
  /\ callback \in Callbacks
  /\ callee \in Owners \cup {None}
  /\ callback = "none" => callee = None
  /\ callback \in {"ready", "session", "datagram"} => callee \in Sessions
  /\ callback \in {"accepting", "stream"} => callee \in Streams
  /\ callback = "interval" => callee \in Owners

\* The wrapper's session_closed_ is TRUE exactly when the QUIC session was
\* told to close or reported its end, at every point of every callback.
FlagMatchesTransport ==
  \A s \in Sessions : session_closed_[s] <=> ~TransportOpen(s)

\* A session the application said no to, by RejectSession at any time or by
\* returning false, is not open any more: whichever way it said it, in
\* whatever order, and whatever the peer did meanwhile.
RefusalTakesEffect == \A s \in refused : ~TransportOpen(s)

\* When the event loop is idle no stream of an open session waits for a
\* wrapper: streams are announced once, so one left behind stays behind.
NoStreamLeftWaiting ==
  Idle => \A st \in Streams :
            wrapper[st] = "incoming" => ~TransportOpen(SessionOf[st])

\* The library calls the application only about wrappers that still exist;
\* an interval alarm never outlives its stream or session.
NoCallbackOnFreed ==
  callback # "none" =>
    /\ callback # "accepting" => Alive(callee)
    /\ callee \in Streams => callback = "interval" \/ Alive(SessionOf[callee])

\* CloseSession reaches the QUIC session at most once, and never after that
\* session has reported its own end.
ClosesOnlyOpenSessions ==
  [][\A s \in Sessions : closes'[s] # closes[s] => TransportOpen(s)]_vars

\* A datagram is sent or delivered, and a stream accepted, only while the
\* session is open.
Served(s) ==
  \/ outbox'[s] # outbox[s]
  \/ callback' = "datagram" /\ callee' = s /\ callback = "none"
  \/ \E st \in Streams : /\ SessionOf[st] = s
                         /\ wrapper[st] = "incoming" /\ wrapper'[st] = "alive"

NoServiceAfterEnd ==
  [][\A s \in Sessions : Served(s) => TransportOpen(s)]_vars

\* An interval, once set, calls back again and again until its stream or
\* session is freed.
IntervalRepeats ==
  \A o \in Owners :
    (interval_alarm_[o] # "none") ~>
      (wrapper[o] = "freed" \/ (callback = "interval" /\ callee = o))

-----------------------------------------------------------------------------
\* The life of a session as SessionLifecycle tells it.
Life(s) ==
  CASE wrapper[s] \in {"none", "refused"} -> "absent"
    [] wrapper[s] = "freed" -> "gone"
    [] wrapper[s] = "alive" /\ ~TransportOpen(s) -> "over"
    [] wrapper[s] = "alive" /\ TransportOpen(s) ->
         IF callback \in {"ready", "session"} /\ callee = s
         THEN "deciding" ELSE "open"

Serving ==
  CASE callback = "datagram" -> callee
    [] callback \in {"accepting", "stream"} -> SessionOf[callee]
    [] callback \notin {"datagram", "accepting", "stream"} -> None

Lifecycle == INSTANCE SessionLifecycle
               WITH life <- [s \in Sessions |-> Life(s)], serving <- Serving

\* The server keeps the promises of SessionLifecycle.
ImplementsLifecycle == Lifecycle!Spec

=============================================================================
