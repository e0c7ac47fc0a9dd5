------------------------------- MODULE Client -------------------------------
(***************************************************************************)
(* The client: connecting, the two alarms that poll for the handshake and  *)
(* for the server's answer, the session wrapper an answer creates, and     *)
(* disconnecting (web_transport_client.cc, web_transport_client_session.cc)*)
(*                                                                         *)
(* One thread.  `stack' is its calls, the running one last: an API call    *)
(* that runs the event loop ("connect", "run", "disconnect", "destroy"),   *)
(* the wrapper that accepts streams ("accepting"), or a callback of the    *)
(* application.  disconnect may be called inside some callbacks, and then  *)
(* runs the event loop inside the event loop.                              *)
(*                                                                         *)
(* The QUIC client and its event loop are external: alarms that are due    *)
(* run before the sockets are looked at; a stream is freed once both its   *)
(* sides are closed, unless the connection is gone; an incoming stream is  *)
(* announced once, to the visitor there is; and the connection is closed,  *)
(* at the latest by its idle timeout, unless the server answers.           *)
(*                                                                         *)
(* The application's obligations: it connects only when no alarm polls     *)
(* for an earlier connection, runs the loop only after connecting, and     *)
(* disconnects outside callbacks or in those that an alarm makes: the      *)
(* others are made by objects which disconnect destroys.                   *)
(***************************************************************************)
EXTENDS Naturals, Sequences, FiniteSets, SequencesExt

CONSTANTS
  MaxConnects,   \* bound: calls of connect
  Streams        \* the streams the server opens

ASSUME MaxConnectsType == MaxConnects \in Nat \ {0}

VARIABLES
  handlers,              \* the callbacks registered on the Client
  stack,                 \* the calls in progress
  conn,                  \* how many connections were made
  client_,               \* the QuicDefaultClient and its connection
  connected_,
  handshake_alarm_,      \* is the alarm set
  session_ready_alarm_,  \* is the alarm set
  stream_,               \* the stream of the CONNECT request
  reply,                 \* what the server answered on stream_
  stream_error,          \* was stream_ reset by the server
  ended,                 \* is the session over
  visitor,               \* has the session its ClientSession as visitor
  bidi_stream_callback_, \* has the ClientSession a stream callback
  interval_alarm_,       \* for each connection's ClientSession
  incoming,              \* the streams of the server that wait, in order
  announced,             \* the streams a visitor was told about
  accepted,              \* the streams that have a wrapper
  outcome,               \* what each connection's poll found out
  errors                 \* calls of the error callback, by connection

poll == <<handshake_alarm_, session_ready_alarm_, stream_, outcome>>
peer == <<reply, stream_error, ended>>
wrapper == <<visitor, bidi_stream_callback_, interval_alarm_>>
streams == <<incoming, announced, accepted>>
vars == <<handlers, stack, conn, client_, connected_, poll, peer, wrapper,
          streams, errors>>

-----------------------------------------------------------------------------
Conns == 1..MaxConnects
Loops == {"connect", "run", "disconnect", "destroy"}
\* Callbacks made by an alarm, and those made by an object of the QUIC client.
AlarmCallbacks == {"open", "error", "interval"}
ObjectCallbacks == {"closed", "stream"}
Callbacks == AlarmCallbacks \cup ObjectCallbacks

Top == IF stack = <<>> THEN "app" ELSE Last(stack).call
Push(c, k) == stack' = Append(stack, [call |-> c, of |-> k])
Enter(c) == Push(c, conn)
Leave == stack' = Front(stack)
InProgress(c) == \E i \in DOMAIN stack : stack[i].call = c

InLoop == Top \in Loops
AlarmSet == handshake_alarm_ \/ session_ready_alarm_
\* What happens on the socket; alarms that are due go first.
OnSocket == InLoop /\ client_ = "open" /\ ~handshake_alarm_
Running == InProgress("run")

-----------------------------------------------------------------------------
Init ==
  /\ handlers \in SUBSET {"open", "error", "stream"}
  /\ stack = <<>>
  /\ conn = 0
  /\ client_ = "none"
  /\ connected_ = TRUE
  /\ handshake_alarm_ = FALSE /\ session_ready_alarm_ = FALSE
  /\ stream_ = "none"
  /\ reply = "none" /\ stream_error = FALSE /\ ended = FALSE
  /\ visitor = FALSE /\ bidi_stream_callback_ = FALSE
  /\ interval_alarm_ = [c \in Conns |-> FALSE]
  /\ incoming = <<>> /\ announced = {} /\ accepted = {}
  /\ outcome = [c \in Conns |-> "none"]
  /\ errors = [c \in Conns |-> 0]

\* The QuicDefaultClient goes, and all that belongs to its connection; the
\* ClientSession is never freed, nor is its alarm.
DropClient ==
  /\ stream_' = IF stream_ = "none" THEN "none" ELSE "dangling"
  /\ reply' = "none" /\ stream_error' = FALSE /\ ended' = FALSE
  /\ visitor' = FALSE
  /\ incoming' = <<>> /\ announced' = {} /\ accepted' = {}

-----------------------------------------------------------------------------
(* What the application calls                                              *)

\* connect up to the loop of QuicDefaultClient::Connect; the new client takes
\* the place of an old one.
connect ==
  /\ stack = <<>> /\ ~AlarmSet /\ client_ # "gone" /\ conn < MaxConnects
  /\ conn' = conn + 1
  /\ Push("connect", conn')
  /\ client_' = "connecting"
  /\ DropClient
  /\ UNCHANGED <<handlers, connected_, handshake_alarm_, session_ready_alarm_,
                 outcome, bidi_stream_callback_, interval_alarm_, errors>>

ConnectSucceeds ==
  /\ Top = "connect"
  /\ client_' = "open"
  /\ handshake_alarm_' = TRUE
  /\ Leave
  /\ UNCHANGED <<handlers, conn, connected_, session_ready_alarm_, stream_,
                 outcome, peer, wrapper, streams, errors>>

\* connect throws.
ConnectFails ==
  /\ Top = "connect"
  /\ client_' = "lost"
  /\ Leave
  /\ UNCHANGED <<handlers, conn, connected_, poll, peer, wrapper, streams,
                 errors>>

runEventLoop ==
  /\ stack = <<>> /\ client_ \notin {"none", "gone"}
  /\ connected_
  /\ Enter("run")
  /\ UNCHANGED <<handlers, conn, client_, connected_, poll, peer, wrapper,
                 streams, errors>>

LoopReturns ==
  /\ Top = "run" /\ ~connected_
  /\ Leave
  /\ UNCHANGED <<handlers, conn, client_, connected_, poll, peer, wrapper,
                 streams, errors>>

MayDisconnect ==
  /\ Top \in {"app"} \cup AlarmCallbacks /\ client_ # "gone"
  /\ ~InProgress("connect") /\ ~InProgress("disconnect")
  /\ ~InProgress("destroy")

\* Mutant of disconnect: the alarm that waits for the handshake stays set.
disconnect_KeepsAlarm ==
  /\ MayDisconnect
  /\ connected_' = FALSE
  /\ session_ready_alarm_' = FALSE
  /\ Enter("disconnect")
  /\ UNCHANGED <<handlers, conn, client_, handshake_alarm_, stream_, outcome,
                 peer, wrapper, streams, errors>>

\* disconnect up to its last run of the event loop.
disconnect ==
  /\ MayDisconnect
  /\ connected_' = FALSE
  /\ handshake_alarm_' = FALSE /\ session_ready_alarm_' = FALSE
  /\ Enter("disconnect")
  /\ UNCHANGED <<handlers, conn, client_, stream_, outcome, peer, wrapper,
                 streams, errors>>

\* client_.reset().
Disconnected ==
  /\ Top = "disconnect"
  /\ client_' = "none"
  /\ DropClient
  /\ Leave
  /\ UNCHANGED <<handlers, conn, connected_, handshake_alarm_,
                 session_ready_alarm_, outcome, bidi_stream_callback_,
                 interval_alarm_, errors>>

\* ~Client up to its last run of the event loop, in which alarms may be set.
destroy ==
  /\ stack = <<>> /\ client_ # "gone"
  /\ connected_' = FALSE
  /\ Enter("destroy")
  /\ UNCHANGED <<handlers, conn, client_, poll, peer, wrapper, streams, errors>>

\* Its members go, the event loop with them.
Destroyed ==
  /\ Top = "destroy"
  /\ client_' = "gone"
  /\ DropClient
  /\ handshake_alarm_' = FALSE /\ session_ready_alarm_' = FALSE
  /\ interval_alarm_' = [c \in Conns |-> FALSE]
  /\ Leave
  /\ UNCHANGED <<handlers, conn, connected_, outcome, bidi_stream_callback_,
                 errors>>

\* The application sets an interval on its session.
setInterval ==
  /\ Top \in {"open", "stream", "interval"} /\ visitor
  /\ [call |-> "interval", of |-> conn] \notin ToSet(stack)
  /\ interval_alarm_' = [interval_alarm_ EXCEPT ![conn] = TRUE]
  /\ UNCHANGED <<handlers, stack, conn, client_, connected_, poll, peer,
                 visitor, bidi_stream_callback_, streams, errors>>

\* ... or a stream callback, which is how it can have one while the session
\* callback runs.
onBidirectionalStream ==
  /\ Top \in {"open", "stream"} /\ visitor
  /\ bidi_stream_callback_' = TRUE
  /\ UNCHANGED <<handlers, stack, conn, client_, connected_, poll, peer,
                 visitor, interval_alarm_, streams, errors>>

-----------------------------------------------------------------------------
(* The alarms                                                              *)

CreateWebTransportSession == stream_' = "live" /\ session_ready_alarm_' = TRUE

\* Mutant of HandshakeAlarm: the alarm is set again in any case.
HandshakeAlarm_Rearms ==
  /\ InLoop /\ handshake_alarm_
  /\ IF client_ # "none"
     THEN CreateWebTransportSession
     ELSE UNCHANGED <<stream_, session_ready_alarm_>>
  /\ UNCHANGED <<handlers, stack, conn, client_, connected_, handshake_alarm_,
                 outcome, peer, wrapper, streams, errors>>

\* HandshakeAlarmDelegate::OnAlarm: there is a QUIC session once Connect has
\* returned; the request goes out on a new stream.
HandshakeAlarm ==
  /\ InLoop /\ handshake_alarm_
  /\ IF client_ # "none"
     THEN CreateWebTransportSession /\ handshake_alarm_' = FALSE
     ELSE UNCHANGED <<stream_, session_ready_alarm_, handshake_alarm_>>
  /\ UNCHANGED <<handlers, stack, conn, client_, connected_, outcome, peer,
                 wrapper, streams, errors>>

\* What SessionReadyAlarmDelegate::OnAlarm finds; a stream that was freed
\* meanwhile is read all the same, and can look like anything.
Findings ==
  IF stream_ = "freed" THEN {"error", "ready", "rejected", "pending"}
  ELSE IF stream_error \/ client_ = "lost" THEN {"error"}
  ELSE IF reply = "accepted" THEN {"ready"}
  ELSE IF reply = "refused" THEN {"rejected"}
  ELSE {"pending"}

Poll(finding) ==
  /\ InLoop /\ session_ready_alarm_
  /\ finding \in Findings

Errs == errors' = [errors EXCEPT ![conn] = @ + 1]

\* Mutant of PollFails: a rejected session is polled for again.
PollFails_Rearms(finding) ==
  /\ Poll(finding) /\ finding \in {"error", "rejected"}
  /\ session_ready_alarm_' = (finding = "rejected")
  /\ outcome' = [outcome EXCEPT ![conn] = "error"]
  /\ IF "error" \in handlers
     THEN Enter("error") /\ Errs /\ UNCHANGED connected_
     ELSE connected_' = FALSE /\ UNCHANGED <<stack, errors>>
  /\ UNCHANGED <<handlers, conn, client_, handshake_alarm_, stream_, peer,
                 wrapper, streams>>

\* The session will not open: the error callback, and then the end of the
\* event loop.
PollFails(finding) ==
  /\ Poll(finding) /\ finding \in {"error", "rejected"}
  /\ session_ready_alarm_' = FALSE
  /\ outcome' = [outcome EXCEPT ![conn] = "error"]
  /\ IF "error" \in handlers
     THEN Enter("error") /\ Errs /\ UNCHANGED connected_
     ELSE connected_' = FALSE /\ UNCHANGED <<stack, errors>>
  /\ UNCHANGED <<handlers, conn, client_, handshake_alarm_, stream_, peer,
                 wrapper, streams>>

\* Mutant of ErrorCallbackReturns: only the callback tells of the error.
ErrorCallbackReturns_KeepsLooping ==
  /\ Top = "error"
  /\ Leave
  /\ UNCHANGED <<handlers, conn, client_, connected_, poll, peer, wrapper,
                 streams, errors>>

ErrorCallbackReturns ==
  /\ Top = "error"
  /\ connected_' = FALSE
  /\ Leave
  /\ UNCHANGED <<handlers, conn, client_, poll, peer, wrapper, streams, errors>>

\* A new ClientSession becomes the session's visitor.
PollSucceeds ==
  /\ Poll("ready")
  /\ session_ready_alarm_' = FALSE
  /\ outcome' = [outcome EXCEPT ![conn] = "open"]
  /\ visitor' = TRUE
  /\ IF "open" \in handlers
     THEN Enter("open") /\ bidi_stream_callback_' = FALSE
     ELSE UNCHANGED stack /\ bidi_stream_callback_' = ("stream" \in handlers)
  /\ UNCHANGED <<handlers, conn, client_, connected_, handshake_alarm_, stream_,
                 peer, interval_alarm_, streams, errors>>

\* The session callback returns, and the Client's stream callback takes the
\* place of the session's.
SessionCallbackReturns ==
  /\ Top = "open"
  /\ bidi_stream_callback_' = ("stream" \in handlers)
  /\ Leave
  /\ UNCHANGED <<handlers, conn, client_, connected_, poll, peer, visitor,
                 interval_alarm_, streams, errors>>

\* Mutant of PollAgain: the alarm is not set again.
PollAgain_OneShot ==
  /\ Poll("pending")
  /\ session_ready_alarm_' = FALSE
  /\ UNCHANGED <<handlers, stack, conn, client_, connected_, handshake_alarm_,
                 stream_, outcome, peer, wrapper, streams, errors>>

\* No answer yet: 10 ms later again.
PollAgain ==
  /\ Poll("pending")
  /\ UNCHANGED vars

\* ClientIntervalAlarmDelegate::OnAlarm, which sets its alarm again only after
\* the callback.
OnAlarm(c) ==
  /\ InLoop /\ interval_alarm_[c]
  /\ interval_alarm_' = [interval_alarm_ EXCEPT ![c] = FALSE]
  /\ Push("interval", c)
  /\ UNCHANGED <<handlers, conn, client_, connected_, poll, peer, visitor,
                 bidi_stream_callback_, streams, errors>>

IntervalCallbackReturns ==
  /\ Top = "interval"
  /\ Leave
  /\ interval_alarm_' = [interval_alarm_ EXCEPT ![Last(stack).of] = TRUE]
  /\ UNCHANGED <<handlers, conn, client_, connected_, poll, peer, visitor,
                 bidi_stream_callback_, streams, errors>>

-----------------------------------------------------------------------------
(* The server and the connection                                           *)

Replies(r) ==
  /\ OnSocket /\ stream_ = "live" /\ reply = "none" /\ ~stream_error
  /\ reply' = r
  /\ UNCHANGED <<handlers, stack, conn, client_, connected_, poll, stream_error,
                 ended, wrapper, streams, errors>>

\* A session that was accepted ends, once, and the visitor there is hears of it:
\* OnSessionClosed of the ClientSession calls the error callback.
SessionOver ==
  IF visitor /\ reply = "accepted" /\ ~ended /\ "error" \in handlers
  THEN Enter("closed") /\ Errs
  ELSE UNCHANGED <<stack, errors>>

CloseSession ==
  /\ OnSocket /\ reply = "accepted" /\ ~ended
  /\ ended' = TRUE
  /\ SessionOver
  /\ UNCHANGED <<handlers, conn, client_, connected_, poll, reply, stream_error,
                 wrapper, streams>>

StreamReset ==
  /\ OnSocket /\ stream_ = "live" /\ ~stream_error
  /\ stream_error' = TRUE
  /\ ended' = (ended \/ reply = "accepted")
  /\ SessionOver
  /\ UNCHANGED <<handlers, conn, client_, connected_, poll, reply, wrapper, streams>>

StreamFreed ==
  /\ OnSocket /\ stream_ = "live" /\ (stream_error \/ ended)
  /\ stream_' = "freed"
  /\ UNCHANGED <<handlers, stack, conn, client_, connected_, handshake_alarm_,
                 session_ready_alarm_, outcome, peer, wrapper, streams, errors>>

ConnectionLost ==
  /\ OnSocket
  /\ client_' = "lost"
  /\ ended' = (ended \/ reply = "accepted")
  /\ SessionOver
  /\ UNCHANGED <<handlers, conn, connected_, poll, reply, stream_error, wrapper, streams>>

\* A stream arrives; the visitor, if the session has one, accepts in a loop.
IncomingStream(st) ==
  /\ OnSocket /\ reply = "accepted" /\ ~ended
  /\ st \notin announced \cup accepted /\ ~Contains(incoming, st)
  /\ incoming' = Append(incoming, st)
  /\ IF visitor
     THEN announced' = announced \cup {st} /\ Enter("accepting")
     ELSE UNCHANGED <<announced, stack>>
  /\ UNCHANGED <<handlers, conn, client_, connected_, poll, peer, wrapper,
                 accepted, errors>>

\* Mutant of AcceptIncomingBidirectionalStream: one stream for one announcement.
AcceptIncomingBidirectionalStream_Once ==
  /\ Top = "accepting" /\ incoming # <<>>
  /\ incoming' = Tail(incoming)
  /\ accepted' = accepted \cup {Head(incoming)}
  /\ IF bidi_stream_callback_
     THEN stack' = [stack EXCEPT ![Len(stack)].call = "stream"]
     ELSE Leave
  /\ UNCHANGED <<handlers, conn, client_, connected_, poll, peer, wrapper,
                 announced, errors>>

AcceptIncomingBidirectionalStream ==
  /\ Top = "accepting" /\ incoming # <<>>
  /\ incoming' = Tail(incoming)
  /\ accepted' = accepted \cup {Head(incoming)}
  /\ IF bidi_stream_callback_ THEN Enter("stream") ELSE UNCHANGED stack
  /\ UNCHANGED <<handlers, conn, client_, connected_, poll, peer, wrapper,
                 announced, errors>>

NothingToAccept ==
  /\ Top = "accepting" /\ incoming = <<>>
  /\ Leave
  /\ UNCHANGED <<handlers, conn, client_, connected_, poll, peer, wrapper,
                 streams, errors>>

ObjectCallbackReturns ==
  /\ Top \in ObjectCallbacks
  /\ Leave
  /\ UNCHANGED <<handlers, conn, client_, connected_, poll, peer, wrapper,
                 streams, errors>>

-----------------------------------------------------------------------------
App == \/ connect \/ runEventLoop \/ disconnect \/ destroy
       \/ setInterval \/ onBidirectionalStream

\* A poll that found something to report.
PollDone ==
  \/ \E finding \in {"error", "rejected"} : PollFails(finding)
  \/ PollSucceeds

\* The thread goes on: a call returns, or a wrapper's loop takes its next step.
Returns ==
  \/ ConnectSucceeds \/ ConnectFails \/ LoopReturns \/ Disconnected \/ Destroyed
  \/ ErrorCallbackReturns \/ SessionCallbackReturns \/ IntervalCallbackReturns
  \/ ObjectCallbackReturns
  \/ AcceptIncomingBidirectionalStream \/ NothingToAccept

Server ==
  \/ \E r \in {"accepted", "refused"} : Replies(r)
  \/ CloseSession \/ StreamReset \/ StreamFreed \/ ConnectionLost
  \/ \E st \in Streams : IncomingStream(st)

Next ==
  \/ App \/ HandshakeAlarm \/ PollDone \/ PollAgain \/ Returns \/ Server
  \/ \E c \in Conns : OnAlarm(c)

Spec == Init /\ [][Next]_vars

\* The server answers, or the connection ends.
Answered ==
  /\ reply = "none" /\ ~stream_error /\ stream_ = "live"
  /\ (\E r \in {"accepted", "refused"} : Replies(r)) \/ StreamReset
                                                     \/ ConnectionLost

\* The event loop runs every alarm that is due and comes back to its caller,
\* and callbacks return, whatever else happens in between.
Fairness ==
  /\ WF_vars(Returns)
  /\ SF_vars(HandshakeAlarm) /\ SF_vars(PollDone) /\ SF_vars(Answered)
  /\ SF_vars(ErrorCallbackReturns) /\ SF_vars(SessionCallbackReturns)
  /\ SF_vars(Disconnected) /\ SF_vars(Destroyed) /\ SF_vars(LoopReturns)

FairSpec == Spec /\ Fairness

-----------------------------------------------------------------------------
\* Every variable has its type, the calls nest in the order they can, and the
\* client is in one phase of its polling at a time.
TypeOK ==
  /\ handlers \in SUBSET {"open", "error", "stream"}
  /\ stack \in Seq([call : Loops \cup Callbacks \cup {"accepting"},
                    of : 0..conn])
  /\ \A i \in DOMAIN stack :
       IF stack[i].call \in Loops \ {"disconnect"} THEN i = 1
       ELSE i = 1 => stack[i].call = "disconnect"
  /\ conn \in 0..MaxConnects
  /\ client_ \in {"none", "connecting", "open", "lost", "gone"}
  /\ connected_ \in BOOLEAN
  /\ handshake_alarm_ \in BOOLEAN /\ session_ready_alarm_ \in BOOLEAN
  /\ ~(handshake_alarm_ /\ session_ready_alarm_)
  /\ stream_ \in {"none", "live", "freed", "dangling"}
  /\ reply \in {"none", "accepted", "refused"}
  /\ stream_error \in BOOLEAN /\ ended \in BOOLEAN
  /\ visitor \in BOOLEAN /\ bidi_stream_callback_ \in BOOLEAN
  /\ interval_alarm_ \in [Conns -> BOOLEAN]
  /\ accepted \subseteq Streams /\ announced \subseteq Streams
  /\ outcome \in [Conns -> {"none", "open", "error"}]
  /\ errors \in [Conns -> Nat]

\* An alarm that is set finds the client it will ask, and the stream of that
\* very client: neither survives a disconnect or a reconnect.
AlarmsHaveClient ==
  /\ AlarmSet => client_ \in {"open", "lost"}
  /\ session_ready_alarm_ => stream_ \in {"live", "freed"}

\* A connection reports at most one error, be it by the poll, by the end of its
\* session, or by both.
OneError == \A c \in Conns : errors[c] <= 1

\* A stream that was announced to the ClientSession has its wrapper when the
\* event loop goes on, and so have all that came before it.
AnnouncedAreAccepted ==
  InLoop => \A st \in Streams : Contains(incoming, st) => st \notin announced

\* An error callback is called for every session that opened and is over.
EndIsReported ==
  /\ InLoop /\ client_ \in {"open", "lost"} /\ conn > 0
  /\ ended /\ outcome[conn] = "open" /\ "error" \in handlers
  => errors[conn] > 0

\* While the event loop runs, each connection comes to be reported as open or
\* failed, unless the application disconnects or the server resets the
\* request, which frees the stream that the poll looks at.
PollEnds ==
  \A c \in Conns :
    (Running /\ AlarmSet /\ conn = c) ~>
      (~connected_ \/ stream_ = "freed" \/ outcome[c] # "none")

\* Once a connection has failed the event loop returns.
FailureStopsLoop ==
  \A c \in Conns : (Running /\ outcome[c] = "error") ~> ~Running
=============================================================================
