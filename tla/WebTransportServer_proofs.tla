---------------------- MODULE WebTransportServer_proofs ----------------------
(***************************************************************************)
(* Proofs about WebTransportServer for any sessions, streams and codes.    *)
(* Inductive is the inductive invariant all of them rest on.               *)
(***************************************************************************)
EXTENDS WebTransportServer, SequenceTheorems, TLAPS

-----------------------------------------------------------------------------
(* The inductive invariant, by the question each part answers.             *)

\* A session's wrapper is no stream's; before it exists nothing has happened
\* to the QUIC session, and it runs OnSessionReady before anything else.
WrapperInv ==
  \A s \in Sessions :
    /\ wrapper[s] # "incoming"
    /\ wrapper[s] \in {"none", "refused"} => TransportOpen(s)
    /\ wrapper[s] = "freed" => close_notified[s]
    /\ wrapper[s] = "alive" =>
         onready_called_[s] \/ (callback = "ready" /\ callee = s)

\* Every way of refusing a session leaves it closed; RejectSession can only be
\* called on a session whose OnSessionReady has run.
RefusalInv ==
  \A s \in Sessions :
    /\ s \in refused => session_closed_[s]
    /\ should_reject_[s] => session_closed_[s]
    /\ s \in handed => onready_called_[s]

\* A stream waits for a wrapper only if its session is over or the accept
\* loop is about to take it, and the loop never finds a stream of a session
\* that ended while it ran.
AcceptInv ==
  /\ \A st \in Streams :
       wrapper[st] = "incoming" =>
         \/ session_closed_[SessionOf[st]]
         \/ callback = "accepting" /\ callee = st
  /\ callback \in {"accepting", "stream"} =>
       \A st \in Streams :
         wrapper[st] = "incoming" /\ SessionOf[st] = SessionOf[callee] =>
           /\ callback = "accepting" /\ callee = st
           /\ ~session_closed_[SessionOf[st]]

\* A call in progress, and an alarm, belong to a wrapper that exists.
LiveInv ==
  /\ callback \in {"ready", "session", "datagram", "stream", "interval"} =>
       Alive(callee)
  /\ callback \in {"accepting", "stream"} => Alive(SessionOf[callee])
  /\ \A o \in Owners : interval_alarm_[o] # "none" => Alive(o)

Inductive ==
  /\ TypeOK /\ FlagMatchesTransport
  /\ WrapperInv /\ RefusalInv /\ AcceptInv /\ LiveInv
-----------------------------------------------------------------------------
(* The initial states satisfy the invariant.                               *)
LEMMA InitInductive == Init => Inductive
  BY SessionsDisjoint, SessionOfType, CodesType, MaxDatagramsType
  DEF Init, Inductive, TypeOK, FlagMatchesTransport, TransportOpen,
      WrapperInv, RefusalInv, AcceptInv, LiveInv, Owners, Handlers, Callbacks

(* One lemma per group of actions: each preserves every part of Inductive. *)

\* A request gets a wrapper, or is refused.
LEMMA RequestStep ==
  ASSUME Inductive, NEW s \in Sessions,
         ProcessWebTransportRequest(s) \/ RefuseRequest(s)
  PROVE  Inductive'
<1> USE DEF Inductive, TypeOK
<1>0. /\ s \in Owners /\ Idle /\ wrapper[s] = "none"
      /\ \A o \in Owners : o # s => wrapper'[o] = wrapper[o]
      /\ wrapper'[s] \in {"alive", "refused"}
      /\ UNCHANGED <<handlers, flags, transport, handed, datagram_cb_,
                     interval_alarm_>>
      /\ \/ wrapper'[s] = "alive" /\ Call("ready", s)
         \/ wrapper'[s] = "refused" /\ UNCHANGED frame
  BY DEF ProcessWebTransportRequest, RefuseRequest, Owners
<1>1. TypeOK'
  BY SessionsDisjoint DEF ProcessWebTransportRequest, RefuseRequest, Owners,
     Call, Callbacks, Idle, flags, transport, frame
<1>2. FlagMatchesTransport'
  BY <1>0 DEF FlagMatchesTransport, TransportOpen, flags, transport
<1>3. WrapperInv'
  BY <1>0, SessionsDisjoint
  DEF WrapperInv, TransportOpen, flags, transport, frame, Call, Idle, Owners
<1>4. RefusalInv'
  BY <1>0 DEF RefusalInv, flags
<1>5. AcceptInv'
  BY <1>0, SessionsDisjoint, SessionOfType
  DEF AcceptInv, flags, frame, Call, Idle, Owners
<1>6. LiveInv'
  BY <1>0, SessionsDisjoint
  DEF LiveInv, Alive, frame, Call, Idle, Owners
<1> QED BY <1>1, <1>2, <1>3, <1>4, <1>5, <1>6

\* Appending a code leaves a non-empty sequence of codes.
LEMMA AppendCode ==
  ASSUME NEW T, NEW q \in Seq(T), NEW c \in T
  PROVE  Append(q, c) \in Seq(T) /\ Append(q, c) # <<>>
  BY AppendProperties

\* What closing the QUIC session does to it and to the flag.
LEMMA CloseEffect ==
  ASSUME TypeOK, FlagMatchesTransport, NEW s \in Sessions,
         NEW code \in Codes \cup {0}, Close(s, code)
  PROVE  /\ closes' \in [Sessions -> Seq(Codes \cup {0})]
         /\ session_closed_' \in [Sessions -> BOOLEAN]
         /\ closes'[s] # <<>> /\ session_closed_'[s]
         /\ \A t \in Sessions \ {s} : /\ closes'[t] = closes[t]
                                     /\ session_closed_'[t] = session_closed_[t]
<1> DEFINE C == Codes \cup {0}
<1>1. /\ closes[s] \in Seq(C) /\ code \in C
      /\ closes \in [Sessions -> Seq(C)]
      /\ session_closed_ \in [Sessions -> BOOLEAN]
  BY DEF TypeOK
<1>2. Append(closes[s], code) \in Seq(C) /\ Append(closes[s], code) # <<>>
  <2> HIDE DEF C
  <2> QED BY <1>1, AppendCode
<1>3. closes'[s] = Append(closes[s], code)
  BY <1>1 DEF Close
<1>4. closes'[s] # <<>>
  BY <1>2, <1>3, Zenon
<1>5. closes' \in [Sessions -> Seq(C)] /\ session_closed_' \in [Sessions -> BOOLEAN]
  BY <1>1, <1>2 DEF Close
<1> QED BY <1>1, <1>4, <1>5 DEF Close

\* The same for a close the wrapper may or may not make.
LEMMA CloseIfEffect ==
  ASSUME TypeOK, FlagMatchesTransport, NEW s \in Sessions,
         NEW code \in Codes \cup {0}, UNCHANGED close_notified,
         Close(s, code) \/ UNCHANGED <<closes, session_closed_>>
  PROVE  /\ closes' \in [Sessions -> Seq(Codes \cup {0})]
         /\ session_closed_' \in [Sessions -> BOOLEAN]
         /\ FlagMatchesTransport'
         /\ \A t \in Sessions : session_closed_[t] => session_closed_'[t]
         /\ \A t \in Sessions \ {s} : session_closed_'[t] = session_closed_[t]
         /\ \A t \in Sessions \ {s} : closes'[t] = closes[t]
<1>1. CASE Close(s, code)
  <2>1. /\ closes' \in [Sessions -> Seq(Codes \cup {0})]
        /\ session_closed_' \in [Sessions -> BOOLEAN]
        /\ closes'[s] # <<>> /\ session_closed_'[s]
        /\ \A t \in Sessions \ {s} : /\ closes'[t] = closes[t]
                                    /\ session_closed_'[t] = session_closed_[t]
    BY <1>1, CloseEffect
  <2>2. FlagMatchesTransport'
    BY <2>1 DEF FlagMatchesTransport, TransportOpen
  <2> QED BY <2>1, <2>2
<1>2. CASE UNCHANGED <<closes, session_closed_>>
  BY <1>2 DEF TypeOK, FlagMatchesTransport, TransportOpen
<1> QED BY <1>1, <1>2

\* OnSessionReady carries out a refusal that was left for it.
LEMMA ReadyStep ==
  ASSUME Inductive, NEW s \in Sessions, OnSessionReady(s)
  PROVE  Inductive'
<1> USE DEF Inductive
<1>1. /\ UNCHANGED <<closes, session_closed_, close_notified, should_reject_,
                     refused, wrapper, interval_alarm_>>
      /\ onready_called_' = [onready_called_ EXCEPT ![s] = TRUE]
      /\ callback = "ready" /\ callee = s /\ Alive(s)
      /\ \/ callback' = "session" /\ callee' = s /\ handed' = handed \cup {s}
         \/ callback' = "none" /\ callee' = None /\ handed' = handed
  BY DEF OnSessionReady, CloseIf, Call, Return, RefusalInv, LiveInv
<1>2. UNCHANGED <<handlers, reject_error_code_, datagram_cb_, outbox>>
  BY DEF OnSessionReady
<1>3. TypeOK'
  BY <1>1, <1>2 DEF TypeOK, Owners, Callbacks
<1>4. FlagMatchesTransport'
  BY <1>1 DEF FlagMatchesTransport, TransportOpen
<1>5. WrapperInv'
  BY <1>1 DEF TypeOK, WrapperInv, TransportOpen
<1>6. RefusalInv'
  BY <1>1 DEF TypeOK, RefusalInv
<1>7. AcceptInv'
  BY <1>1 DEF AcceptInv
<1>8. LiveInv'
  BY <1>1 DEF LiveInv, Alive
<1> QED BY <1>3, <1>4, <1>5, <1>6, <1>7, <1>8

\* The session callback returns, with or without accepting.
LEMMA DecisionStep ==
  ASSUME Inductive, NEW s \in Sessions, NEW accept \in BOOLEAN,
         SessionCallbackReturns(s, accept)
  PROVE  Inductive'
<1> USE DEF Inductive
<1>1. /\ UNCHANGED <<handlers, close_notified, onready_called_, should_reject_,
                     reject_error_code_, outbox, wrapper, handed, datagram_cb_,
                     interval_alarm_>>
      /\ callback = "session" /\ callee = s /\ Alive(s)
      /\ callback' = "none" /\ callee' = None
      /\ refused' \in {refused, refused \cup {s}}
  BY DEF SessionCallbackReturns, Return, objects, LiveInv
<1>2. Close(s, 0) \/ UNCHANGED <<closes, session_closed_>>
  BY DEF SessionCallbackReturns, CloseIf
<1>3. s \in refused' => session_closed_'[s]
  BY DEF SessionCallbackReturns, CloseIf, Close, RefusalInv, TypeOK
<1>4. /\ closes' \in [Sessions -> Seq(Codes \cup {0})]
      /\ session_closed_' \in [Sessions -> BOOLEAN]
      /\ FlagMatchesTransport'
      /\ \A t \in Sessions : session_closed_[t] => session_closed_'[t]
      /\ \A t \in Sessions \ {s} : session_closed_'[t] = session_closed_[t]
      /\ \A t \in Sessions \ {s} : closes'[t] = closes[t]
  BY <1>1, <1>2, CloseIfEffect
<1>5. TypeOK'
  BY <1>1, <1>4 DEF TypeOK, Callbacks
<1>6. WrapperInv'
  BY <1>1, <1>4 DEF WrapperInv, TransportOpen, Alive
<1>7. RefusalInv'
  BY <1>1, <1>3, <1>4 DEF RefusalInv
<1>8. AcceptInv'
  BY <1>1, <1>4, SessionOfType DEF AcceptInv
<1>9. LiveInv'
  BY <1>1 DEF LiveInv, Alive
<1> QED BY <1>4, <1>5, <1>6, <1>7, <1>8, <1>9

\* RejectSession closes at once or leaves it for OnSessionReady.
LEMMA RejectStep ==
  ASSUME Inductive, NEW s \in Sessions, NEW code \in Codes,
         RejectSession(s, code)
  PROVE  Inductive'
<1> USE DEF Inductive
<1>1. /\ UNCHANGED <<handlers, close_notified, onready_called_, outbox, wrapper,
                     handed, datagram_cb_, interval_alarm_, callback, callee>>
      /\ callback \notin {"none", "ready", "accepting"}
      /\ Alive(s) /\ s \in handed
      /\ should_reject_' = [should_reject_ EXCEPT ![s] = TRUE]
      /\ reject_error_code_' = [reject_error_code_ EXCEPT ![s] = code]
      /\ refused' = refused \cup {s}
  BY DEF RejectSession, AppMayCall, objects, frame
<1>2. Close(s, code) \/ UNCHANGED <<closes, session_closed_>>
  BY DEF RejectSession, CloseIf
<1>3. session_closed_'[s]
  BY <1>1 DEF RejectSession, CloseIf, Close, RefusalInv, TypeOK
<1>4. /\ closes' \in [Sessions -> Seq(Codes \cup {0})]
      /\ session_closed_' \in [Sessions -> BOOLEAN]
      /\ FlagMatchesTransport'
      /\ \A t \in Sessions : session_closed_[t] => session_closed_'[t]
      /\ \A t \in Sessions \ {s} : session_closed_'[t] = session_closed_[t]
      /\ \A t \in Sessions \ {s} : closes'[t] = closes[t]
  BY <1>1, <1>2, CloseIfEffect
<1>5. TypeOK'
  BY <1>1, <1>4 DEF TypeOK
<1>6. WrapperInv'
  BY <1>1, <1>4 DEF WrapperInv, TransportOpen, Alive
<1>7. RefusalInv'
  BY <1>1, <1>3, <1>4 DEF RefusalInv, TypeOK
<1>8. AcceptInv'
  BY <1>1, <1>4, SessionOfType DEF AcceptInv, TypeOK
<1>9. LiveInv'
  BY <1>1 DEF LiveInv, Alive
<1> QED BY <1>4, <1>5, <1>6, <1>7, <1>8, <1>9

\* The application sends, or registers a callback or an interval.
LEMMA AppStep ==
  ASSUME Inductive,
         \/ \E s \in Sessions : SendDatagram(s) \/ onDatagramRead(s)
         \/ \E o \in Owners : setInterval(o)
  PROVE  Inductive'
<1> USE DEF Inductive
<1>1. UNCHANGED <<handlers, flags, closes, close_notified, wrapper, handed,
                  callback, callee>>
  BY DEF SendDatagram, onDatagramRead, setInterval, objects, transport, frame
<1>0. outbox' \in [Sessions -> 0..MaxDatagrams]
  <2>1. CASE \E s \in Sessions : SendDatagram(s)
    <3> PICK s \in Sessions : SendDatagram(s)
      BY <2>1
    <3>1. outbox[s] + 1 \in 0..MaxDatagrams
      BY MaxDatagramsType DEF SendDatagram, TypeOK
    <3> QED BY <3>1 DEF SendDatagram, TypeOK
  <2>2. CASE UNCHANGED outbox
    BY <2>2 DEF TypeOK
  <2> QED BY <2>1, <2>2 DEF onDatagramRead, setInterval, transport
<1>2. /\ datagram_cb_' \in [Sessions -> BOOLEAN]
      /\ interval_alarm_' \in [Owners -> {"none", "set", "fired"}]
      /\ \A o \in Owners : interval_alarm_'[o] # "none" =>
                            interval_alarm_[o] # "none" \/ Alive(o)
  BY DEF SendDatagram, onDatagramRead, setInterval, objects, AppMayCall, TypeOK
<1>3. TypeOK'
  BY <1>0, <1>1, <1>2 DEF TypeOK, flags
<1>4. FlagMatchesTransport' /\ WrapperInv' /\ RefusalInv' /\ AcceptInv'
  BY <1>1
  DEF FlagMatchesTransport, TransportOpen, WrapperInv, RefusalInv, AcceptInv,
      flags
<1>5. LiveInv'
  BY <1>1, <1>2 DEF LiveInv, Alive
<1> QED BY <1>3, <1>4, <1>5

\* A callback begins or returns.
LEMMA CallStep ==
  ASSUME Inductive,
         \/ CallbackReturns
         \/ \E s \in Sessions : OnDatagramReceived(s)
         \/ \E o \in Owners : OnAlarm(o)
         \/ NothingToAccept
  PROVE  Inductive'
<1> USE DEF Inductive, Call, Return, Idle
<1>1. UNCHANGED <<handlers, flags, transport, wrapper, handed, datagram_cb_>>
  BY DEF CallbackReturns, OnDatagramReceived, OnAlarm, NothingToAccept, objects
<1>2. interval_alarm_' \in [Owners -> {"none", "set", "fired"}]
  BY DEF CallbackReturns, OnDatagramReceived, OnAlarm, NothingToAccept, objects,
         TypeOK
<1>3. \A o \in Owners : interval_alarm_'[o] # "none" => Alive(o)
  BY DEF CallbackReturns, OnDatagramReceived, OnAlarm, NothingToAccept, objects,
         TypeOK, LiveInv
<1>4. \/ callback' = "none" /\ callee' = None
      \/ /\ callback = "stream" /\ callback' = "accepting" /\ callee' = callee
      \/ /\ callback = "none" /\ callback' = "datagram"
         /\ callee' \in Sessions /\ Alive(callee')
      \/ /\ callback = "none" /\ callback' = "interval"
         /\ callee' \in Owners /\ Alive(callee')
  BY DEF CallbackReturns, OnDatagramReceived, OnAlarm, NothingToAccept, LiveInv
<1>5. callback' = "none" =>
        callback # "ready" /\ (callback = "accepting" => Waiting(callee) = {})
  BY DEF CallbackReturns, OnDatagramReceived, OnAlarm, NothingToAccept
<1>6. TypeOK'
  BY <1>1, <1>2, <1>4 DEF TypeOK, flags, transport, Callbacks, Owners
<1>7. FlagMatchesTransport' /\ RefusalInv'
  BY <1>1
  DEF FlagMatchesTransport, TransportOpen, RefusalInv, flags, transport
<1>8. WrapperInv'
  BY <1>1, <1>4, <1>5 DEF WrapperInv, TransportOpen, flags, transport
<1>9. AcceptInv'
  BY <1>1, <1>4, <1>5, SessionOfType
  DEF AcceptInv, Waiting, flags, TypeOK
<1>10. LiveInv'
  BY <1>1, <1>3, <1>4 DEF LiveInv, Alive, TypeOK
<1> QED BY <1>6, <1>7, <1>8, <1>9, <1>10

\* A stream arrives, and is announced if the session has its visitor.
LEMMA IncomingStep ==
  ASSUME Inductive, NEW st \in Streams, OnIncomingStreamAvailable(st)
  PROVE  Inductive'
<1> USE DEF Inductive, Call, Idle, OnIncomingStreamAvailable
<1>1. /\ UNCHANGED <<handlers, flags, transport, handed, datagram_cb_,
                     interval_alarm_>>
      /\ wrapper' = [wrapper EXCEPT ![st] = "incoming"]
      /\ wrapper[st] = "none" /\ callback = "none"
      /\ SessionOf[st] \in Sessions /\ Alive(SessionOf[st])
      /\ st \in Owners /\ st \notin Sessions
  BY SessionOfType, SessionsDisjoint DEF Owners
<1>2. \/ session_closed_[SessionOf[st]] /\ UNCHANGED <<callback, callee>>
      \/ /\ ~session_closed_[SessionOf[st]]
         /\ callback' = "accepting" /\ callee' = st
  BY DEF frame
<1>3. TypeOK'
  BY <1>1, <1>2 DEF TypeOK, flags, transport, Callbacks
<1>4. FlagMatchesTransport' /\ RefusalInv'
  BY <1>1
  DEF FlagMatchesTransport, TransportOpen, RefusalInv, flags, transport
<1>5. WrapperInv'
  BY <1>1, <1>2 DEF WrapperInv, TransportOpen, flags, transport, TypeOK, Owners
<1>6. AcceptInv'
  BY <1>1, <1>2 DEF AcceptInv, flags, TypeOK, Owners
<1>7. LiveInv'
  BY <1>1, <1>2 DEF LiveInv, Alive, TypeOK
<1> QED BY <1>3, <1>4, <1>5, <1>6, <1>7

\* The accept loop takes a stream and calls back for it.
LEMMA AcceptStep ==
  ASSUME Inductive, NEW st \in Streams, AcceptIncomingStream(st)
  PROVE  Inductive'
<1> USE DEF Inductive, Call, AcceptIncomingStream
<1>1. /\ UNCHANGED <<handlers, flags, transport, datagram_cb_, interval_alarm_>>
      /\ wrapper' = [wrapper EXCEPT ![st] = "alive"]
      /\ wrapper[st] = "incoming" /\ callback = "accepting" /\ callee = st
      /\ SessionOf[st] \in Sessions /\ Alive(SessionOf[st])
      /\ ~session_closed_[SessionOf[st]] /\ onready_called_[SessionOf[st]]
      /\ st \in Owners /\ st \notin Sessions
  BY SessionOfType, SessionsDisjoint
  DEF Owners, Waiting, AcceptInv, LiveInv, WrapperInv, Alive
<1>2. \/ UNCHANGED <<callback, callee, handed>>
      \/ /\ callback' = "stream" /\ callee' = st
         /\ handed' = handed \cup {st, SessionOf[st]}
  BY DEF frame
<1>3. TypeOK'
  <2>1. handed' \in SUBSET Owners
    <3>1. handed \in SUBSET Owners /\ SessionOf[st] \in Owners
      BY <1>1 DEF TypeOK, Owners
    <3> QED BY <1>1, <1>2, <3>1
  <2>2. wrapper' \in [Owners -> {"none", "refused", "incoming", "alive", "freed"}]
    BY <1>1 DEF TypeOK
  <2>3. callback' \in {"accepting", "stream"} /\ callee' = st
    BY <1>1, <1>2
  <2> HIDE DEF AcceptIncomingStream
  <2> QED BY <1>1, <2>1, <2>2, <2>3 DEF TypeOK, flags, transport, Callbacks
<1>4. FlagMatchesTransport'
  BY <1>1 DEF FlagMatchesTransport, TransportOpen, flags, transport
<1>5. RefusalInv'
  BY <1>1, <1>2 DEF RefusalInv, flags
<1>6. WrapperInv'
  BY <1>1, <1>2 DEF WrapperInv, TransportOpen, flags, transport, TypeOK, Owners
<1>7. AcceptInv'
  BY <1>1, <1>2 DEF AcceptInv, flags, TypeOK, Owners
<1>8. LiveInv'
  BY <1>1, <1>2 DEF LiveInv, Alive, TypeOK
<1> QED BY <1>3, <1>4, <1>5, <1>6, <1>7, <1>8

\* The end of a session reaches its wrapper.
LEMMA ClosedStep ==
  ASSUME Inductive, NEW s \in Sessions, OnSessionClosed(s)
  PROVE  Inductive'
<1> USE DEF Inductive, OnSessionClosed
<1>1. /\ UNCHANGED <<handlers, onready_called_, should_reject_,
                     reject_error_code_, refused, closes, outbox, wrapper,
                     handed, datagram_cb_, interval_alarm_, callback, callee>>
      /\ callback # "accepting" /\ Alive(s)
      /\ close_notified' = [close_notified EXCEPT ![s] = TRUE]
      /\ session_closed_' = [session_closed_ EXCEPT ![s] = TRUE]
  BY DEF objects, frame
<1>2. TypeOK'
  BY <1>1 DEF TypeOK
<1>3. FlagMatchesTransport'
  BY <1>1 DEF FlagMatchesTransport, TransportOpen, TypeOK
<1>4. RefusalInv'
  BY <1>1 DEF RefusalInv, TypeOK
<1>5. WrapperInv'
  BY <1>1 DEF WrapperInv, TransportOpen, TypeOK, Alive
<1>6. AcceptInv'
  BY <1>1, SessionOfType DEF AcceptInv, TypeOK
<1>7. LiveInv'
  BY <1>1 DEF LiveInv, Alive
<1> QED BY <1>2, <1>3, <1>4, <1>5, <1>6, <1>7

\* QUICHE frees a session or stream, and its wrapper and alarm with it.
LEMMA DestroyStep ==
  ASSUME Inductive, NEW o \in Owners, Destroy(o)
  PROVE  Inductive'
<1> USE DEF Inductive, Destroy, Idle
<1>1. /\ UNCHANGED <<handlers, flags, transport, handed, callback, callee>>
      /\ callback = "none"
      /\ wrapper' = [wrapper EXCEPT ![o] = "freed"]
      /\ interval_alarm_' = [interval_alarm_ EXCEPT ![o] = "none"]
      /\ datagram_cb_' \in [Sessions -> BOOLEAN]
      /\ o \in Sessions => close_notified[o]
  BY SessionsDisjoint DEF frame, TypeOK
<1>2. TypeOK'
  BY <1>1 DEF TypeOK, flags, transport
<1>3. FlagMatchesTransport' /\ RefusalInv'
  BY <1>1
  DEF FlagMatchesTransport, TransportOpen, RefusalInv, flags, transport
<1>4. WrapperInv'
  BY <1>1 DEF WrapperInv, TransportOpen, flags, transport, TypeOK, Owners
<1>5. AcceptInv'
  BY <1>1 DEF AcceptInv, flags, TypeOK, Owners
<1>6. LiveInv'
  BY <1>1 DEF LiveInv, Alive, TypeOK
<1> QED BY <1>2, <1>3, <1>4, <1>5, <1>6

\* A stuttering step changes nothing.
LEMMA StutterStep == Inductive /\ UNCHANGED vars => Inductive'
  BY DEF Inductive, vars, flags, transport, objects, frame, TypeOK,
         FlagMatchesTransport, TransportOpen, WrapperInv, RefusalInv,
         AcceptInv, LiveInv, Alive

\* Every step keeps the inductive invariant.
LEMMA NextInductive == Inductive /\ [Next]_vars => Inductive'
<1> SUFFICES ASSUME Inductive, [Next]_vars PROVE Inductive'
  OBVIOUS
<1>1. CASE Progress
  BY <1>1, ReadyStep, DecisionStep, CallStep, AcceptStep DEF Progress
<1>2. CASE App
  BY <1>2, RejectStep, AppStep DEF App
<1>3. CASE Peer
  BY <1>3, RequestStep, CallStep, ClosedStep, IncomingStep, DestroyStep DEF Peer
<1>4. CASE \E o \in Owners : OnAlarm(o)
  BY <1>4, CallStep
<1>5. CASE UNCHANGED vars
  BY <1>5, StutterStep
<1> QED BY <1>1, <1>2, <1>3, <1>4, <1>5 DEF Next

\* The inductive invariant holds in every reachable state.
THEOREM InductiveInvariant == Spec => []Inductive
  BY InitInductive, NextInductive, PTL DEF Spec

-----------------------------------------------------------------------------
\* Every variable keeps its type, for any sessions, streams and codes.
THEOREM TypeCorrect == Spec => []TypeOK
  BY InductiveInvariant, PTL DEF Inductive

\* session_closed_ and the state of the QUIC session never disagree.
THEOREM FlagIsRight == Spec => []FlagMatchesTransport
  BY InductiveInvariant, PTL DEF Inductive

\* A session the application refused, in whichever way, is never open.
THEOREM RefusalIsFinal == Spec => []RefusalTakesEffect
<1>1. Inductive => RefusalTakesEffect
  BY DEF Inductive, RefusalInv, FlagMatchesTransport, RefusalTakesEffect, TypeOK
<1> QED BY <1>1, InductiveInvariant, PTL

\* Every incoming stream of an open session gets its wrapper before the event
\* loop takes the next event.
THEOREM StreamsAreAccepted == Spec => []NoStreamLeftWaiting
<1>1. Inductive => NoStreamLeftWaiting
  BY SessionOfType
  DEF Inductive, AcceptInv, FlagMatchesTransport, NoStreamLeftWaiting, Idle
<1> QED BY <1>1, InductiveInvariant, PTL

\* No callback of the application is about a freed session or stream.
THEOREM CallbacksOnLive == Spec => []NoCallbackOnFreed
<1>1. Inductive => NoCallbackOnFreed
  BY SessionsDisjoint
  DEF Inductive, LiveInv, NoCallbackOnFreed, TypeOK, Callbacks
<1> QED BY <1>1, InductiveInvariant, PTL

\* CloseSession is called once at most, and only on a session that is open.
THEOREM ClosesOnce == Spec => ClosesOnlyOpenSessions
<1>1. Inductive /\ [Next]_vars =>
        [\A s \in Sessions : closes'[s] # closes[s] => TransportOpen(s)]_vars
  <2> SUFFICES ASSUME Inductive, Next, NEW s \in Sessions,
                      closes'[s] # closes[s]
               PROVE  TransportOpen(s)
    OBVIOUS
  <2> USE DEF Inductive
  <2>1. ASSUME NEW t \in Sessions, NEW code \in Codes \cup {0}, Close(t, code)
        PROVE  t = s
    BY <2>1 DEF Close, TypeOK
  <2>2. CASE UNCHANGED closes
    BY <2>2
  <2>3. ASSUME NEW t \in Sessions, OnSessionReady(t)
        PROVE  TransportOpen(s)
    BY <2>3 DEF OnSessionReady, CloseIf, RefusalInv
  <2>4. ASSUME NEW t \in Sessions, NEW accept \in BOOLEAN,
               SessionCallbackReturns(t, accept)
        PROVE  TransportOpen(s)
    BY <2>1, <2>4 DEF SessionCallbackReturns, CloseIf, FlagMatchesTransport
  <2>5. ASSUME NEW t \in Sessions, NEW code \in Codes, RejectSession(t, code)
        PROVE  TransportOpen(s)
    BY <2>1, <2>5 DEF RejectSession, CloseIf, FlagMatchesTransport
  <2> QED
    BY <2>2, <2>3, <2>4, <2>5
    DEF Next, Progress, App, Peer, CallbackReturns, AcceptIncomingStream,
        NothingToAccept, SendDatagram, onDatagramRead, setInterval,
        ProcessWebTransportRequest, RefuseRequest, OnDatagramReceived,
        OnSessionClosed, OnIncomingStreamAvailable, Destroy, OnAlarm, transport
<1> QED BY <1>1, InductiveInvariant, PTL DEF Spec, ClosesOnlyOpenSessions

\* Datagrams are sent and delivered, and streams accepted, only on a session
\* that is open at that moment.
THEOREM ServesOnlyOpen == Spec => NoServiceAfterEnd
<1>1. Inductive /\ [Next]_vars =>
        [\A s \in Sessions : Served(s) => TransportOpen(s)]_vars
  <2> SUFFICES ASSUME Inductive, Next, NEW s \in Sessions, Served(s)
               PROVE  TransportOpen(s)
    OBVIOUS
  <2> USE DEF Inductive, FlagMatchesTransport
  <2>1. CASE outbox'[s] # outbox[s]
    <3>1. PICK t \in Sessions : SendDatagram(t)
      BY <2>1
      DEF Next, Progress, App, Peer, OnSessionReady, SessionCallbackReturns,
          RejectSession, CallbackReturns, AcceptIncomingStream, NothingToAccept,
          onDatagramRead, setInterval, ProcessWebTransportRequest,
          RefuseRequest, OnDatagramReceived, OnSessionClosed,
          OnIncomingStreamAvailable, Destroy, OnAlarm, transport
    <3>2. s = t
      BY <2>1, <3>1 DEF SendDatagram, TypeOK
    <3> QED BY <3>1, <3>2 DEF SendDatagram
  <2>2. CASE callback' = "datagram" /\ callee' = s /\ callback = "none"
    BY <2>2
    DEF Next, Progress, App, Peer, OnSessionReady, SessionCallbackReturns,
        RejectSession, SendDatagram, onDatagramRead, setInterval, AppMayCall,
        CallbackReturns, AcceptIncomingStream, NothingToAccept,
        ProcessWebTransportRequest, RefuseRequest, OnDatagramReceived,
        OnSessionClosed, OnIncomingStreamAvailable, Destroy, OnAlarm, Call,
        Return, frame
  <2>3. ASSUME NEW st \in Streams, SessionOf[st] = s,
               wrapper[st] = "incoming", wrapper'[st] = "alive"
        PROVE  TransportOpen(s)
    <3>1. st \in Owners
      BY DEF Owners
    <3>2. PICK w \in Streams : AcceptIncomingStream(w)
      BY <2>3, <3>1, SessionsDisjoint
      DEF Next, Progress, App, Peer, OnSessionReady, SessionCallbackReturns,
          RejectSession, SendDatagram, onDatagramRead, setInterval,
          CallbackReturns, NothingToAccept, ProcessWebTransportRequest,
          RefuseRequest, OnDatagramReceived, OnSessionClosed,
          OnIncomingStreamAvailable, Destroy, OnAlarm, objects, TypeOK
    <3>3. w = st
      BY <2>3, <3>1, <3>2 DEF AcceptIncomingStream, TypeOK
    <3> QED
      BY <2>3, <3>2, <3>3 DEF AcceptIncomingStream, Waiting, AcceptInv
  <2> QED BY <2>1, <2>2, <2>3 DEF Served
<1> QED BY <1>1, InductiveInvariant, PTL DEF Spec, NoServiceAfterEnd

-----------------------------------------------------------------------------
(* The server implements SessionLifecycle.                                 *)

LifeOf == [s \in Sessions |-> Life(s)]

\* One session's life changes to l, and no other's.
LEMMA LifeChanges ==
  ASSUME NEW s \in Sessions, NEW l, Life(s)' = l,
         \A t \in Sessions \ {s} : Life(t)' = Life(t)
  PROVE  LifeOf' = [LifeOf EXCEPT ![s] = l]
  BY DEF LifeOf

\* A state in which no session changed its phase maps to the same state.
LEMMA LifeStays ==
  ASSUME \A t \in Sessions : Life(t)' = Life(t)
  PROVE  LifeOf' = LifeOf
  BY DEF LifeOf

\* A step that leaves wrappers, sessions and the decision alone.
LEMMA SameLife ==
  ASSUME UNCHANGED <<closes, close_notified>>,
         \A s \in Sessions : wrapper'[s] = wrapper[s],
         callback \notin {"ready", "session"},
         callback' \notin {"ready", "session"}
  PROVE  LifeOf' = LifeOf
<1>1. \A s \in Sessions : Life(s)' = Life(s)
  BY DEF Life, TransportOpen
<1> QED BY <1>1, LifeStays

\* Initial states map to initial states.
LEMMA InitRefines == Init => Lifecycle!Init
  BY DEF Init, Lifecycle!Init, Life, Serving, Owners

\* A request is a request of the lifecycle.
LEMMA RequestRefines ==
  ASSUME Inductive, NEW s \in Sessions, ProcessWebTransportRequest(s)
  PROVE  Lifecycle!Next
<1> USE DEF Inductive, ProcessWebTransportRequest, Idle, Call
<1>1. Life(s) = "absent" /\ Life(s)' = "deciding"
  BY DEF Life, TransportOpen, transport, WrapperInv, TypeOK, Owners
<1>2. \A t \in Sessions \ {s} : Life(t)' = Life(t)
  BY DEF Life, TransportOpen, transport, TypeOK, Owners
<1>3. LifeOf' = [LifeOf EXCEPT ![s] = "deciding"]
  BY <1>1, <1>2, LifeChanges
<1>4. Serving = None /\ Serving' = None
  BY DEF Serving
<1>5. \A t \in Sessions : Life(t) # "deciding"
  BY DEF Life, WrapperInv, TypeOK, Owners
<1>6. Lifecycle!Request(s)
  BY <1>1, <1>3, <1>4, <1>5 DEF Lifecycle!Request, Lifecycle!Becomes, LifeOf
<1> QED BY <1>6 DEF Lifecycle!Next

\* OnSessionReady opens the session, ends it, or changes nothing.
LEMMA ReadyRefines ==
  ASSUME Inductive, NEW s \in Sessions, OnSessionReady(s)
  PROVE  Lifecycle!Next \/ UNCHANGED Lifecycle!lifecycle
<1> USE DEF Inductive, Call, Return
<1>1. UNCHANGED <<closes, close_notified, wrapper>>
  BY DEF OnSessionReady, CloseIf, RefusalInv
<1>2. /\ callback = "ready" /\ callee = s /\ Alive(s)
      /\ (callback' = "session" /\ callee' = s) \/ callback' = "none"
  BY DEF OnSessionReady, LiveInv
<1>3. \A t \in Sessions \ {s} : Life(t)' = Life(t)
  BY <1>1, <1>2 DEF Life, TransportOpen
<1>4. Serving = None /\ Serving' = None
  BY <1>2 DEF Serving
<1>5. CASE (callback' = "session" /\ callee' = s) \/ ~TransportOpen(s)
  <2>1. Life(s)' = Life(s)
    BY <1>1, <1>2, <1>5 DEF Life, TransportOpen, Alive
  <2> QED BY <1>3, <1>4, <2>1, LifeStays DEF Lifecycle!lifecycle, LifeOf
<1>6. CASE callback' = "none" /\ TransportOpen(s)
  <2>1. Life(s) = "deciding" /\ Life(s)' = "open"
    BY <1>1, <1>2, <1>6 DEF Life, TransportOpen, Alive
  <2>2. LifeOf' = [LifeOf EXCEPT ![s] = "open"]
    BY <1>3, <2>1, LifeChanges
  <2>3. Lifecycle!Accept(s)
    BY <1>4, <2>1, <2>2 DEF Lifecycle!Accept, Lifecycle!Becomes, LifeOf
  <2> QED BY <2>3 DEF Lifecycle!Next
<1> QED BY <1>2, <1>5, <1>6

\* A session that is closed while the application decides or runs.
LEMMA EndRefines ==
  ASSUME Inductive, NEW s \in Sessions, Alive(s), UNCHANGED wrapper,
         TransportOpen(s), ~TransportOpen(s)', Serving' = Serving,
         \A t \in Sessions \ {s} : Life(t)' = Life(t)
  PROVE  Lifecycle!Next
<1>1. Life(s) \in {"deciding", "open"} /\ Life(s)' = "over"
  BY DEF Life, Alive
<1>2. LifeOf' = [LifeOf EXCEPT ![s] = "over"]
  BY <1>1, LifeChanges
<1>3. Lifecycle!End(s)
  BY <1>1, <1>2 DEF Lifecycle!End, Lifecycle!Becomes, LifeOf
<1> QED BY <1>3 DEF Lifecycle!Next

\* A refusal ends the session or changes nothing; so does an acceptance.
LEMMA DecisionRefines ==
  ASSUME Inductive, NEW s \in Sessions, NEW accept \in BOOLEAN,
         SessionCallbackReturns(s, accept)
  PROVE  Lifecycle!Next \/ UNCHANGED Lifecycle!lifecycle
<1> USE DEF Inductive
<1>1. /\ UNCHANGED <<close_notified, wrapper>> /\ Alive(s)
      /\ callback = "session" /\ callee = s /\ callback' = "none"
  BY DEF SessionCallbackReturns, Return, objects, LiveInv
<1>2. \/ ~session_closed_[s] /\ Close(s, 0)
      \/ UNCHANGED <<closes, session_closed_>>
  BY DEF SessionCallbackReturns, CloseIf
<1>3. Serving = None /\ Serving' = None
  BY <1>1 DEF Serving
<1>4. CASE ~session_closed_[s] /\ Close(s, 0)
  <2>1. closes'[s] # <<>> /\ \A t \in Sessions \ {s} : closes'[t] = closes[t]
    BY <1>4, CloseEffect
  <2>2. TransportOpen(s) /\ ~TransportOpen(s)'
    BY <1>4, <2>1 DEF FlagMatchesTransport, TransportOpen
  <2>3. \A t \in Sessions \ {s} : Life(t)' = Life(t)
    BY <1>1, <2>1 DEF Life, TransportOpen
  <2> QED BY <1>1, <1>3, <2>2, <2>3, EndRefines
<1>5. CASE UNCHANGED <<closes, session_closed_>>
  <2>1. \A t \in Sessions \ {s} : Life(t)' = Life(t)
    BY <1>1, <1>5 DEF Life, TransportOpen
  <2>2. CASE TransportOpen(s)
    <3>1. Life(s) = "deciding" /\ Life(s)' = "open"
      BY <1>1, <1>5, <2>2 DEF Life, TransportOpen, Alive
    <3>2. LifeOf' = [LifeOf EXCEPT ![s] = "open"]
      BY <2>1, <3>1, LifeChanges
    <3>3. Lifecycle!Accept(s)
      BY <1>3, <3>1, <3>2 DEF Lifecycle!Accept, Lifecycle!Becomes, LifeOf
    <3> QED BY <3>3 DEF Lifecycle!Next
  <2>3. CASE ~TransportOpen(s)
    <3>1. Life(s)' = Life(s)
      BY <1>1, <1>5, <2>3 DEF Life, TransportOpen, Alive
    <3> QED BY <1>3, <2>1, <3>1, LifeStays DEF Lifecycle!lifecycle, LifeOf
  <2> QED BY <2>2, <2>3
<1> QED BY <1>2, <1>4, <1>5

\* RejectSession ends the session or changes nothing.
LEMMA RejectRefines ==
  ASSUME Inductive, NEW s \in Sessions, NEW code \in Codes,
         RejectSession(s, code)
  PROVE  Lifecycle!Next \/ UNCHANGED Lifecycle!lifecycle
<1> USE DEF Inductive
<1>1. UNCHANGED <<close_notified, wrapper, callback, callee>> /\ Alive(s)
  BY DEF RejectSession, AppMayCall, objects, frame
<1>2. \/ ~session_closed_[s] /\ Close(s, code)
      \/ UNCHANGED <<closes, session_closed_>>
  BY DEF RejectSession, CloseIf
<1>3. Serving' = Serving
  BY <1>1 DEF Serving
<1>4. CASE ~session_closed_[s] /\ Close(s, code)
  <2>1. closes'[s] # <<>> /\ \A t \in Sessions \ {s} : closes'[t] = closes[t]
    BY <1>4, CloseEffect
  <2>2. TransportOpen(s) /\ ~TransportOpen(s)'
    BY <1>4, <2>1 DEF FlagMatchesTransport, TransportOpen
  <2>3. \A t \in Sessions \ {s} : Life(t)' = Life(t)
    BY <1>1, <2>1 DEF Life, TransportOpen
  <2> QED BY <1>1, <1>3, <2>2, <2>3, EndRefines
<1>5. CASE UNCHANGED <<closes, session_closed_>>
  <2>1. \A t \in Sessions : Life(t)' = Life(t)
    BY <1>1, <1>5 DEF Life, TransportOpen
  <2> QED BY <1>3, <2>1, LifeStays DEF Lifecycle!lifecycle, LifeOf
<1> QED BY <1>2, <1>4, <1>5

\* The end that QUICHE reports is the end, unless it came before.
LEMMA ClosedRefines ==
  ASSUME Inductive, NEW s \in Sessions, OnSessionClosed(s)
  PROVE  Lifecycle!Next \/ UNCHANGED Lifecycle!lifecycle
<1> USE DEF Inductive
<1>1. /\ UNCHANGED <<closes, wrapper, callback, callee>> /\ Alive(s)
      /\ close_notified' = [close_notified EXCEPT ![s] = TRUE]
  BY DEF OnSessionClosed, objects, frame
<1>2. Serving' = Serving
  BY <1>1 DEF Serving
<1>3. /\ ~TransportOpen(s)'
      /\ \A t \in Sessions \ {s} : Life(t)' = Life(t)
  BY <1>1 DEF Life, TransportOpen, TypeOK
<1>4. CASE TransportOpen(s)
  BY <1>1, <1>2, <1>3, <1>4, EndRefines
<1>5. CASE ~TransportOpen(s)
  <2>1. Life(s)' = Life(s)
    BY <1>1, <1>3, <1>5 DEF Life, Alive
  <2> QED BY <1>2, <1>3, <2>1, LifeStays DEF Lifecycle!lifecycle, LifeOf
<1> QED BY <1>4, <1>5

\* Freeing a session ends its life; freeing a stream changes none.
LEMMA DestroyRefines ==
  ASSUME Inductive, NEW o \in Owners, Destroy(o)
  PROVE  Lifecycle!Next \/ UNCHANGED Lifecycle!lifecycle
<1> USE DEF Inductive
<1>1. /\ UNCHANGED <<closes, close_notified, callback, callee>>
      /\ callback = "none"
      /\ wrapper' = [wrapper EXCEPT ![o] = "freed"]
  BY DEF Destroy, Idle, transport, frame
<1>2. Serving = None /\ Serving' = None
  BY <1>1 DEF Serving
<1>3. CASE o \in Sessions
  <2>1. Life(o) = "over" /\ Life(o)' = "gone"
    BY <1>1, <1>3, SessionsDisjoint
    DEF Destroy, Life, TransportOpen, Alive, TypeOK
  <2>2. \A t \in Sessions \ {o} : Life(t)' = Life(t)
    BY <1>1 DEF Life, TransportOpen, TypeOK, Owners
  <2>3. LifeOf' = [LifeOf EXCEPT ![o] = "gone"]
    BY <1>3, <2>1, <2>2, LifeChanges
  <2>4. Lifecycle!Free(o)
    BY <1>2, <1>3, <2>1, <2>3 DEF Lifecycle!Free, Lifecycle!Becomes, LifeOf
  <2> QED BY <1>3, <2>4 DEF Lifecycle!Next
<1>4. CASE o \in Streams
  <2>1. \A s \in Sessions : wrapper'[s] = wrapper[s]
    BY <1>1, <1>4, SessionsDisjoint DEF TypeOK, Owners
  <2>2. LifeOf' = LifeOf
    BY <1>1, <2>1, SameLife
  <2> QED BY <1>2, <2>2 DEF Lifecycle!lifecycle, LifeOf
<1> QED BY <1>3, <1>4 DEF Owners

\* A service starts, on a session that is open.
LEMMA StartRefines ==
  ASSUME Inductive, NEW s \in Sessions, Alive(s), ~session_closed_[s],
         Idle, Serving' = s, LifeOf' = LifeOf
  PROVE  Lifecycle!Next
<1>1. Life(s) = "open" /\ Serving = None
  BY DEF Inductive, FlagMatchesTransport, Life, Serving, Alive, Idle, TypeOK
<1>2. Lifecycle!StartService(s)
  BY <1>1 DEF Lifecycle!StartService, LifeOf
<1> QED BY <1>2 DEF Lifecycle!Next

\* What is done for a session is done only while it is open.
LEMMA ServiceRefines ==
  ASSUME Inductive,
         \/ \E s \in Sessions : OnDatagramReceived(s)
         \/ \E st \in Streams : OnIncomingStreamAvailable(st)
  PROVE  Lifecycle!Next \/ UNCHANGED Lifecycle!lifecycle
<1> USE DEF Inductive, Idle, Call
<1>1. ASSUME NEW s \in Sessions, OnDatagramReceived(s)
      PROVE  Lifecycle!Next
  <2>1. LifeOf' = LifeOf
    BY <1>1, SameLife DEF OnDatagramReceived, transport, objects
  <2>2. Serving' = s
    BY <1>1 DEF OnDatagramReceived, Serving
  <2> QED BY <1>1, <2>1, <2>2, StartRefines DEF OnDatagramReceived
<1>2. ASSUME NEW st \in Streams, OnIncomingStreamAvailable(st)
      PROVE  Lifecycle!Next \/ UNCHANGED Lifecycle!lifecycle
  <2>1. \A s \in Sessions : wrapper'[s] = wrapper[s]
    BY <1>2, SessionsDisjoint DEF OnIncomingStreamAvailable, TypeOK, Owners
  <2>2. LifeOf' = LifeOf
    BY <1>2, <2>1, SameLife DEF OnIncomingStreamAvailable, transport, frame
  <2>3. SessionOf[st] \in Sessions
    BY SessionOfType
  <2>4. CASE session_closed_[SessionOf[st]]
    <3>1. Serving' = Serving
      BY <1>2, <2>4 DEF OnIncomingStreamAvailable, Serving, frame
    <3> QED BY <2>2, <3>1 DEF Lifecycle!lifecycle, LifeOf
  <2>5. CASE ~session_closed_[SessionOf[st]]
    <3>1. Serving' = SessionOf[st]
      BY <1>2, <2>5 DEF OnIncomingStreamAvailable, Serving
    <3> QED
      BY <1>2, <2>2, <2>3, <2>5, <3>1, StartRefines
      DEF OnIncomingStreamAvailable
  <2> QED BY <2>4, <2>5
<1> QED BY <1>1, <1>2

\* A call returns: a service ends, or nothing does.
LEMMA ReturnRefines ==
  ASSUME Inductive, CallbackReturns \/ NothingToAccept
  PROVE  Lifecycle!Next \/ UNCHANGED Lifecycle!lifecycle
<1> USE DEF Inductive, Call, Return
<1>1. /\ UNCHANGED <<closes, close_notified, wrapper>>
      /\ callback \in {"datagram", "stream", "interval", "accepting"}
      /\ callback' \in {"none", "accepting"}
  BY DEF CallbackReturns, NothingToAccept, transport, objects
<1>2. LifeOf' = LifeOf
  BY <1>1, SameLife
<1>3. CASE callback \in {"datagram", "accepting"}
  <2>1. Serving \in Sessions /\ Serving' = None
    BY <1>3, SessionOfType DEF CallbackReturns, NothingToAccept, Serving, TypeOK
  <2>2. Lifecycle!EndService
    BY <1>2, <2>1, SessionsDisjoint DEF Lifecycle!EndService, LifeOf, Owners
  <2> QED BY <2>2 DEF Lifecycle!Next
<1>4. CASE callback \in {"stream", "interval"}
  <2>1. Serving' = Serving
    BY <1>4 DEF CallbackReturns, NothingToAccept, Serving
  <2> QED BY <1>2, <2>1 DEF Lifecycle!lifecycle, LifeOf
<1> QED BY <1>1, <1>3, <1>4

\* Steps no client of SessionLifecycle sees.
LEMMA InternalRefines ==
  ASSUME Inductive,
         \/ \E s \in Sessions : \/ RefuseRequest(s)
                                \/ SendDatagram(s) \/ onDatagramRead(s)
         \/ \E o \in Owners : setInterval(o) \/ OnAlarm(o)
         \/ \E st \in Streams : AcceptIncomingStream(st)
         \/ UNCHANGED vars
  PROVE  UNCHANGED Lifecycle!lifecycle
<1> USE DEF Inductive
<1>1. UNCHANGED <<closes, close_notified>>
  BY DEF RefuseRequest, SendDatagram, onDatagramRead, setInterval, OnAlarm,
         AcceptIncomingStream, transport, vars
<1>2. Serving' = Serving
  <2>1. CASE \E st \in Streams : AcceptIncomingStream(st)
    BY <2>1 DEF AcceptIncomingStream, AcceptInv, Waiting, Serving, Call, frame
  <2>2. CASE \E o \in Owners : OnAlarm(o)
    BY <2>2 DEF OnAlarm, Idle, Call, Serving
  <2>3. CASE UNCHANGED frame
    BY <2>3 DEF frame, Serving
  <2> QED
    BY <2>1, <2>2, <2>3
    DEF RefuseRequest, SendDatagram, onDatagramRead, setInterval, vars
<1>3. \A s \in Sessions : Life(s)' = Life(s)
  <2>1. CASE \E s \in Sessions : RefuseRequest(s)
    BY <1>1, <2>1
    DEF RefuseRequest, Life, TransportOpen, frame, TypeOK, Owners
  <2>2. CASE \E st \in Streams : AcceptIncomingStream(st)
    BY <1>1, <2>2, SessionsDisjoint
    DEF AcceptIncomingStream, Life, TransportOpen, frame, Call, TypeOK, Owners
  <2>3. CASE \E o \in Owners : OnAlarm(o)
    BY <1>1, <2>3 DEF OnAlarm, Idle, Call, Life, TransportOpen
  <2>4. CASE UNCHANGED <<wrapper, callback, callee>>
    BY <1>1, <2>4 DEF Life, TransportOpen
  <2> QED
    BY <2>1, <2>2, <2>3, <2>4
    DEF SendDatagram, onDatagramRead, setInterval, objects, frame, vars
<1> QED BY <1>2, <1>3, LifeStays DEF Lifecycle!lifecycle, LifeOf

\* The server implements SessionLifecycle: a refused or closed session is over
\* for good, and is never served again.
THEOREM ServerImplementsLifecycle == Spec => ImplementsLifecycle
<1>1. Inductive /\ [Next]_vars => [Lifecycle!Next]_(Lifecycle!lifecycle)
  BY RequestRefines, ReadyRefines, DecisionRefines, RejectRefines,
     ClosedRefines, DestroyRefines, ServiceRefines, ReturnRefines,
     InternalRefines
  DEF Next, Progress, App, Peer
<1> QED
  BY <1>1, InitRefines, InductiveInvariant, PTL
  DEF Spec, ImplementsLifecycle, Lifecycle!Spec

=============================================================================
