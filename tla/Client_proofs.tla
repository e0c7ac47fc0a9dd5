---------------------------- MODULE Client_proofs ----------------------------
(* Proofs about Client, for any number of connections and any streams: the  *)
(* nesting of calls and the types, what an alarm finds, errors reported     *)
(* once, and the streams of the accept loop.                                *)
EXTENDS Client, SequenceTheorems, TLAPS

-----------------------------------------------------------------------------
(* The inductive invariant, by the question each part answers.              *)
Names == Loops \cup Callbacks \cup {"accepting"}

\* The calls that can be in progress.
Calls(n) == [call : Names, of : 0..n]

\* A run of the event loop is the outermost call, except that disconnect may
\* be called inside a callback; a stream callback is inside its accept loop.
NestingInv ==
  /\ stack \in Seq(Calls(conn))
  /\ \A i \in 1..Len(stack) :
       IF stack[i].call \in Loops \ {"disconnect"} THEN i = 1
       ELSE i = 1 => stack[i].call = "disconnect"
  /\ \A i \in 1..Len(stack) :
       stack[i].call = "stream" => i > 1 /\ stack[i - 1].call = "accepting"

\* The rest of TypeOK; an interval is one of a connection that was made.
DataInv ==
  /\ handlers \in SUBSET {"open", "error", "stream"}
  /\ conn \in 0..MaxConnects
  /\ client_ \in {"none", "connecting", "open", "lost", "gone"}
  /\ connected_ \in BOOLEAN
  /\ handshake_alarm_ \in BOOLEAN /\ session_ready_alarm_ \in BOOLEAN
  /\ ~(handshake_alarm_ /\ session_ready_alarm_)
  /\ stream_ \in {"none", "live", "freed", "dangling"}
  /\ reply \in {"none", "accepted", "refused"}
  /\ stream_error \in BOOLEAN /\ ended \in BOOLEAN
  /\ visitor \in BOOLEAN /\ bidi_stream_callback_ \in BOOLEAN
  /\ interval_alarm_ \in [Conns -> BOOLEAN]
  /\ accepted \subseteq Streams /\ announced \subseteq Streams
  /\ outcome \in [Conns -> {"none", "open", "error"}]
  /\ errors \in [Conns -> Nat]
  /\ \A c \in Conns : interval_alarm_[c] => c <= conn

\* While Connect runs, and while disconnect waits, no alarm is set, and one of
\* them is never inside the other: this is why an alarm finds its client.
AlarmInv ==
  /\ AlarmsHaveClient
  /\ InProgress("connect") =>
       ~AlarmSet /\ client_ = "connecting" /\ ~InProgress("disconnect")
  /\ InProgress("disconnect") => ~AlarmSet

NoErrorYet == \A c \in Conns : c = conn => errors[c] = 0

\* A connection that is polled has no visitor, and neither it nor one whose
\* session goes on has an error yet.
ErrorInv ==
  /\ OneError
  /\ \A c \in Conns : c > conn => errors[c] = 0
  /\ AlarmSet \/ InProgress("connect") => ~visitor /\ NoErrorYet
  /\ visitor /\ ~ended => NoErrorYet

\* Only inside the accept loop can an announced stream be without its wrapper.
AcceptInv ==
  /\ incoming \in Seq(Streams)
  /\ Top \notin {"accepting", "stream"} =>
       \A st \in Streams : Contains(incoming, st) => st \notin announced

Inductive == NestingInv /\ DataInv /\ AlarmInv /\ ErrorInv /\ AcceptInv

-----------------------------------------------------------------------------
(* The stack.                                                               *)

\* What is called from a state where it may be called keeps the nesting.
LEMMA PushKeeps ==
  ASSUME NestingInv, conn \in Nat, conn' \in Nat, conn <= conn',
         NEW c \in Names, NEW k \in 0..conn', Push(c, k),
         c \in Loops \ {"disconnect"} => stack = <<>>,
         c \notin Loops => stack # <<>>,
         c = "stream" => Top = "accepting"
  PROVE  /\ NestingInv'
         /\ Top' = c
         /\ \A x : InProgress(x)' <=> InProgress(x) \/ x = c
<1> DEFINE call == [call |-> c, of |-> k]
<1>1. stack \in Seq(Calls(conn')) /\ Len(stack) \in Nat /\ call \in Calls(conn')
      /\ stack' = Append(stack, call) /\ call.call = c
  <2>1. Calls(conn) \subseteq Calls(conn')
    BY DEF Calls
  <2>2. stack \in Seq(Calls(conn))
    BY DEF NestingInv
  <2>3. stack \in Seq(Calls(conn'))
    BY <2>1, <2>2, SeqMonotonic
  <2>4. call \in Calls(conn')
    BY DEF Calls
  <2> QED BY <2>3, <2>4 DEF Push
<1> HIDE DEF call
<1> DEFINE n == Len(stack)
<1>2. /\ stack' \in Seq(Calls(conn')) /\ Len(stack') = n + 1 /\ stack' # <<>>
      /\ \A i \in 1..n : stack'[i] = stack[i]
      /\ stack'[n + 1] = call
  BY <1>1, AppendProperties
<1>3. stack = <<>> <=> n = 0
  BY <1>1
<1>4. Top' = c
  BY <1>1, <1>2 DEF Top, Last
<1>5. stack # <<>> => Top = stack[n].call
  BY DEF Top, Last
<1> HIDE DEF n
<1>6. n \in Nat
  BY <1>1 DEF n
<1>7. ASSUME NEW i \in 1..n + 1
      PROVE  /\ IF stack'[i].call \in Loops \ {"disconnect"} THEN i = 1
                ELSE i = 1 => stack'[i].call = "disconnect"
             /\ stack'[i].call = "stream" =>
                  i > 1 /\ stack'[i - 1].call = "accepting"
  <2>1. CASE i = n + 1
    <3>1. c \in Loops \ {"disconnect"} => i = 1
      BY <1>3, <2>1
    <3>2. c \notin Loops => i # 1
      BY <1>3, <1>6, <2>1
    <3>3. c = "stream" => n \in 1..n /\ stack[n].call = "accepting"
      BY <1>3, <1>5, <1>6 DEF Loops
    <3> QED BY <1>1, <1>2, <1>6, <2>1, <3>1, <3>2, <3>3 DEF Loops
  <2>2. CASE i \in 1..n
    <3>1. i # 1 => i - 1 \in 1..n
      BY <1>6, <2>2
    <3>2. /\ IF stack[i].call \in Loops \ {"disconnect"} THEN i = 1
             ELSE i = 1 => stack[i].call = "disconnect"
          /\ stack[i].call = "stream" => i > 1 /\ stack[i - 1].call = "accepting"
      BY <2>2 DEF NestingInv, n
    <3> QED BY <1>2, <2>2, <3>1, <3>2
  <2>3. i = n + 1 \/ i \in 1..n
    BY <1>6
  <2> QED BY <2>1, <2>2, <2>3
<1>8. NestingInv'
  BY <1>2, <1>7 DEF NestingInv
<1>9. ASSUME NEW x PROVE InProgress(x)' <=> InProgress(x) \/ x = c
  <2>1. DOMAIN stack = 1..n /\ DOMAIN stack' = 1..n + 1
    BY <1>1, <1>2 DEF n
  <2>2. InProgress(x) => InProgress(x)'
    BY <1>2, <1>6, <2>1 DEF InProgress
  <2>3. x = c => InProgress(x)'
    BY <1>1, <1>2, <1>6, <2>1 DEF InProgress
  <2>4. InProgress(x)' => InProgress(x) \/ x = c
    <3>1. \A i \in 1..n + 1 : i = n + 1 \/ i \in 1..n
      BY <1>6
    <3> QED BY <1>1, <1>2, <2>1, <3>1 DEF InProgress
  <2> QED BY <2>2, <2>3, <2>4
<1> QED BY <1>4, <1>8, <1>9

\* A return keeps the nesting; a run of the event loop that is not that of
\* disconnect returns to the application, a stream callback to its loop.
LEMMA LeaveKeeps ==
  ASSUME NestingInv, conn \in Nat, stack # <<>>, Leave, UNCHANGED conn
  PROVE  /\ NestingInv'
         /\ \A x : InProgress(x)' => InProgress(x)
         /\ Top \in Loops \ {"disconnect"} => stack' = <<>>
         /\ Top = "stream" => Top' = "accepting"
         /\ InProgress(Top)
         /\ Top \notin Loops => stack' # <<>>
<1> DEFINE n == Len(stack)
<1>1. stack \in Seq(Calls(conn)) /\ n \in Nat \ {0}
      /\ stack' = SubSeq(stack, 1, n - 1)
      /\ Top = stack[n].call
  BY DEF NestingInv, Leave, Front, Top, Last
<1>2. /\ stack' \in Seq(Calls(conn)) /\ Len(stack') = n - 1
      /\ \A i \in 1..n - 1 : stack'[i] = stack[i]
  <2>1. \A i \in 1..n - 1 : stack[i] \in Calls(conn)
    BY <1>1
  <2> HIDE DEF n
  <2>2. /\ stack' \in Seq(Calls(conn))
        /\ Len(stack') = IF 1 <= n - 1 THEN n - 1 - 1 + 1 ELSE 0
        /\ \A i \in 1..n - 1 - 1 + 1 : stack'[i] = stack[1 + i - 1]
    BY <1>1, <2>1, SubSeqProperties
  <2> QED BY <1>1, <2>2
<1>3. /\ DOMAIN stack = 1..n /\ DOMAIN stack' = 1..n - 1
      /\ stack' = <<>> <=> n = 1
  <2>1. DOMAIN stack = 1..n
    BY <1>1
  <2> HIDE DEF n
  <2>2. DOMAIN stack' = 1..n - 1
    BY <1>1, <1>2
  <2>3. stack' = <<>> <=> Len(stack') = 0
    BY <1>2, EmptySeq
  <2> QED BY <1>1, <1>2, <2>1, <2>2, <2>3
<1> HIDE DEF n
<1>4. ASSUME NEW i \in 1..n
      PROVE  /\ IF stack[i].call \in Loops \ {"disconnect"} THEN i = 1
                ELSE i = 1 => stack[i].call = "disconnect"
             /\ stack[i].call = "stream" =>
                  i > 1 /\ stack[i - 1].call = "accepting"
  BY DEF NestingInv, n
<1>5. NestingInv'
  <2>1. ASSUME NEW i \in 1..n - 1
        PROVE  /\ IF stack'[i].call \in Loops \ {"disconnect"} THEN i = 1
                  ELSE i = 1 => stack'[i].call = "disconnect"
               /\ stack'[i].call = "stream" =>
                    i > 1 /\ stack'[i - 1].call = "accepting"
    <3>1. i \in 1..n /\ (i > 1 => i - 1 \in 1..n - 1)
      BY <1>1, <2>1
    <3>2. stack'[i] = stack[i] /\ (i > 1 => stack'[i - 1] = stack[i - 1])
      BY <1>2, <3>1
    <3> QED BY <1>4, <3>1, <3>2
  <2> QED BY <1>2, <2>1 DEF NestingInv
<1>6. \A x : InProgress(x)' => InProgress(x)
  <2>1. \A i \in 1..n - 1 : i \in 1..n
    BY <1>1
  <2> QED BY <1>2, <1>3, <2>1 DEF InProgress
<1>7. Top \in Loops \ {"disconnect"} => stack' = <<>>
  BY <1>1, <1>3, <1>4
<1>8. Top = "stream" => Top' = "accepting"
  <2>1. SUFFICES ASSUME Top = "stream" PROVE Top' = "accepting"
    OBVIOUS
  <2>2. n > 1 /\ stack[n - 1].call = "accepting"
    <3>1. n \in 1..n
      BY <1>1
    <3> QED BY <1>1, <1>4, <2>1, <3>1
  <2>3. stack' # <<>> /\ stack'[n - 1] = stack[n - 1]
    BY <1>1, <1>2, <1>3, <2>2
  <2> QED BY <1>2, <2>2, <2>3 DEF Top, Last
<1>9. InProgress(Top)
  BY <1>1, <1>3 DEF InProgress
<1>10. Top \notin Loops => stack' # <<>>
  BY <1>1, <1>3, <1>4 DEF Loops
<1> QED BY <1>5, <1>6, <1>7, <1>8, <1>9, <1>10

\* Nothing is in progress when the application runs.
LEMMA EmptyStack ==
  ASSUME stack = <<>>
  PROVE  Top = "app" /\ \A x : ~InProgress(x)
  BY DEF Top, InProgress

\* A name at the top is that of a call in progress.
LEMMA NonEmptyStack ==
  ASSUME NestingInv, Top # "app"
  PROVE  stack # <<>> /\ InProgress(Top)
<1>1. stack # <<>>
  BY DEF Top
<1>2. Len(stack) \in DOMAIN stack /\ Top = stack[Len(stack)].call
  BY <1>1 DEF NestingInv, Top, Last
<1> QED BY <1>1, <1>2 DEF InProgress

\* The calls stay as they are.
LEMMA StackSame ==
  ASSUME NestingInv, UNCHANGED <<stack, conn>>
  PROVE  /\ NestingInv' /\ Top' = Top
         /\ \A x : InProgress(x)' <=> InProgress(x)
  BY DEF NestingInv, Top, InProgress

\* The inductive invariant holds at the start.
LEMMA InitInductive == Init => Inductive
<1> SUFFICES ASSUME Init PROVE Inductive
  OBVIOUS
<1>1. stack = <<>> /\ conn = 0
  BY DEF Init
<1>2. NestingInv
  BY <1>1 DEF NestingInv
<1>3. Top = "app" /\ \A x : ~InProgress(x)
  BY <1>1, EmptyStack
<1>4. DataInv
  <2>1. conn \in 0..MaxConnects
    BY <1>1, MaxConnectsType
  <2>2. /\ interval_alarm_ \in [Conns -> BOOLEAN]
        /\ outcome \in [Conns -> {"none", "open", "error"}]
        /\ errors \in [Conns -> Nat]
        /\ \A c \in Conns : interval_alarm_[c] => c <= conn
    BY DEF Init
  <2>3. accepted \subseteq Streams /\ announced \subseteq Streams
    BY DEF Init
  <2> QED BY <2>1, <2>2, <2>3 DEF Init, DataInv
<1>5. AlarmInv
  BY <1>3 DEF Init, AlarmInv, AlarmsHaveClient, AlarmSet
<1>6. ErrorInv
  BY <1>3 DEF Init, ErrorInv, OneError, AlarmSet
<1>7. AcceptInv
  <2>1. incoming = <<>>
    BY DEF Init
  <2> QED BY <2>1 DEF AcceptInv, Contains
<1> QED BY <1>2, <1>4, <1>5, <1>6, <1>7 DEF Inductive

-----------------------------------------------------------------------------
(* Frames.                                                                  *)

\* A step that leaves the alarms, the client and the errors alone, and begins
\* neither Connect nor disconnect, keeps what is said of them.
LEMMA QuietKeeps ==
  ASSUME Inductive,
         UNCHANGED <<conn, client_, handshake_alarm_, session_ready_alarm_,
                     stream_, visitor, errors>>,
         ended => ended',
         ended \in BOOLEAN, ended' \in BOOLEAN,
         InProgress("connect")' => InProgress("connect"),
         InProgress("disconnect")' => InProgress("disconnect")
  PROVE  AlarmInv' /\ ErrorInv'
<1>1. AlarmInv'
  BY DEF Inductive, AlarmInv, AlarmsHaveClient, AlarmSet
<1>2. ErrorInv'
  BY DEF Inductive, ErrorInv, OneError, NoErrorYet, AlarmSet
<1> QED BY <1>1, <1>2

\* A call from the event loop keeps what is said of the accept loop.
LEMMA AcceptKept ==
  ASSUME AcceptInv, UNCHANGED <<incoming, announced>>,
         Top \notin {"accepting", "stream"} \/ incoming = <<>>
           \/ Top' \in {"accepting", "stream"}
  PROVE  AcceptInv'
<1>1. CASE incoming = <<>>
  BY <1>1 DEF AcceptInv, Contains
<1>2. CASE incoming # <<>>
  BY <1>2 DEF AcceptInv
<1> QED BY <1>1, <1>2

\* A return that changes nothing but flags that no alarm and no error depends
\* on.
LEMMA ReturnKeeps ==
  ASSUME Inductive, Top # "app", Leave, DataInv',
         UNCHANGED <<conn, client_, poll, peer, visitor, streams, errors>>,
         Top = "accepting" => incoming = <<>>
  PROVE  Inductive'
<1>1. NestingInv /\ conn \in Nat /\ stack # <<>>
  BY NonEmptyStack, MaxConnectsType DEF Inductive, DataInv
<1>2. /\ NestingInv' /\ \A x : InProgress(x)' => InProgress(x)
      /\ Top = "stream" => Top' = "accepting"
  BY <1>1, LeaveKeeps
<1>3. /\ UNCHANGED <<handshake_alarm_, session_ready_alarm_, stream_, ended,
                     incoming, announced>>
      /\ ended \in BOOLEAN
  BY DEF Inductive, DataInv, poll, peer, streams
<1>4. AlarmInv' /\ ErrorInv'
  BY <1>2, <1>3, QuietKeeps
<1>5. AcceptInv'
  BY <1>2, <1>3, AcceptKept DEF Inductive
<1> QED BY <1>2, <1>4, <1>5 DEF Inductive

\* A call of anything but Connect and disconnect, likewise.
LEMMA CallKeeps ==
  ASSUME Inductive, DataInv',
         NEW c \in Names \ {"connect", "disconnect", "accepting", "stream"},
         NEW k \in 0..conn, Push(c, k),
         c \in Loops => stack = <<>>,
         c \notin Loops => stack # <<>>,
         Top \notin {"accepting", "stream"},
         UNCHANGED <<conn, client_, poll, peer, visitor, streams, errors>>
  PROVE  Inductive'
<1>1. /\ conn \in Nat /\ conn' \in Nat /\ conn <= conn' /\ k \in 0..conn'
      /\ c \in Names /\ NestingInv /\ c # "stream"
  BY MaxConnectsType DEF Inductive, DataInv
<1>2. NestingInv' /\ \A x : InProgress(x)' <=> InProgress(x) \/ x = c
  BY <1>1, PushKeeps
<1>3. /\ UNCHANGED <<handshake_alarm_, session_ready_alarm_, stream_, ended,
                     incoming, announced>>
      /\ ended \in BOOLEAN
  BY DEF Inductive, DataInv, poll, peer, streams
<1>4. AlarmInv' /\ ErrorInv'
  BY <1>2, <1>3, QuietKeeps
<1>5. AcceptInv'
  BY <1>3, AcceptKept DEF Inductive
<1> QED BY <1>2, <1>4, <1>5 DEF Inductive

-----------------------------------------------------------------------------
(* What the application calls.                                              *)

\* A new connection starts without errors, alarms and visitor.
LEMMA connectStep ==
  ASSUME Inductive, connect PROVE Inductive'
<1>1. /\ conn \in Nat /\ conn' = conn + 1 /\ conn' \in 1..MaxConnects
      /\ stack = <<>> /\ Push("connect", conn') /\ ~AlarmSet
      /\ UNCHANGED <<handlers, connected_, handshake_alarm_,
                     session_ready_alarm_, outcome, bidi_stream_callback_,
                     interval_alarm_, errors>>
      /\ client_' = "connecting"
  BY MaxConnectsType DEF Inductive, DataInv, connect
<1>2. /\ NestingInv' /\ Top' = "connect"
      /\ \A x : InProgress(x)' <=> x = "connect"
  <2>1. "connect" \in Names /\ "connect" \in Loops /\ "connect" # "stream"
    BY DEF Names, Loops
  <2>2. conn <= conn' /\ conn' \in 0..conn' /\ conn' \in Nat
    BY <1>1
  <2> QED BY <1>1, <2>1, <2>2, PushKeeps, EmptyStack DEF Inductive
<1>3. /\ stream_' \in {"none", "dangling"} /\ reply' = "none"
      /\ stream_error' = FALSE /\ ended' = FALSE /\ visitor' = FALSE
      /\ incoming' = <<>> /\ announced' = {} /\ accepted' = {}
  BY DEF connect, DropClient
<1>4. DataInv'
  <2>1. conn' \in 0..MaxConnects
    BY <1>1, MaxConnectsType
  <2>2. accepted' \subseteq Streams /\ announced' \subseteq Streams
    BY <1>3
  <2>3. /\ stream_' \in {"none", "live", "freed", "dangling"}
        /\ reply' \in {"none", "accepted", "refused"}
        /\ stream_error' \in BOOLEAN /\ ended' \in BOOLEAN
        /\ visitor' \in BOOLEAN
    BY <1>3
  <2>4. \A c \in Conns : interval_alarm_'[c] => c <= conn'
    BY <1>1 DEF Inductive, DataInv, Conns
  <2> QED BY <1>1, <2>1, <2>2, <2>3, <2>4 DEF Inductive, DataInv
<1>5. ~AlarmSet'
  BY <1>1 DEF AlarmSet
<1>6. AlarmInv'
  BY <1>1, <1>2, <1>5 DEF AlarmInv, AlarmsHaveClient, AlarmSet
<1>7. ErrorInv'
  <2>1. \A c \in Conns : c > conn => errors[c] = 0
    BY DEF Inductive, ErrorInv
  <2>2. NoErrorYet'
    BY <1>1, <2>1 DEF NoErrorYet, Conns
  <2>3. \A c \in Conns : c > conn' => errors'[c] = 0
    BY <1>1, <2>1 DEF Conns
  <2>4. OneError'
    BY <1>1 DEF Inductive, ErrorInv, OneError
  <2> QED BY <1>3, <2>2, <2>3, <2>4 DEF ErrorInv
<1>8. AcceptInv'
  BY <1>3 DEF AcceptInv, Contains
<1> QED BY <1>2, <1>4, <1>6, <1>7, <1>8 DEF Inductive

\* Connect returns or throws; only if it returns is an alarm set.
LEMMA ConnectReturnsStep ==
  ASSUME Inductive, ConnectSucceeds \/ ConnectFails PROVE Inductive'
<1>1. /\ Top = "connect" /\ Leave /\ conn \in Nat
      /\ UNCHANGED <<conn, connected_, session_ready_alarm_, stream_, outcome,
                     handlers, peer, wrapper, streams, errors>>
  BY MaxConnectsType DEF Inductive, DataInv, ConnectSucceeds, ConnectFails, poll
<1>2. \/ handshake_alarm_' = TRUE /\ client_' = "open"
      \/ handshake_alarm_' = handshake_alarm_ /\ client_' = "lost"
  BY DEF ConnectSucceeds, ConnectFails, poll
<1>3. ~AlarmSet /\ ~visitor /\ NoErrorYet /\ InProgress("connect")
  BY <1>1, NonEmptyStack DEF Inductive, AlarmInv, ErrorInv
<1>4. stack' = <<>> /\ NestingInv'
  BY <1>1, LeaveKeeps, NonEmptyStack DEF Inductive, Loops
<1>5. Top' = "app" /\ \A x : ~InProgress(x)'
  BY <1>4 DEF Top, InProgress
<1>6. DataInv'
  BY <1>1, <1>2, <1>3
     DEF Inductive, DataInv, peer, wrapper, streams, AlarmSet
<1>7. AlarmInv'
  BY <1>1, <1>2, <1>3, <1>5 DEF AlarmInv, AlarmsHaveClient, AlarmSet
<1>8. ErrorInv'
  BY <1>1, <1>3 DEF Inductive, ErrorInv, OneError, NoErrorYet, wrapper, peer
<1>9. AcceptInv'
  BY <1>1, AcceptKept DEF Inductive, streams
<1> QED BY <1>4, <1>6, <1>7, <1>8, <1>9 DEF Inductive

\* The application runs the event loop, or destroys the client.
LEMMA RunStep ==
  ASSUME Inductive, runEventLoop \/ destroy PROVE Inductive'
<1>1. /\ stack = <<>> /\ Top = "app"
      /\ UNCHANGED <<handlers, conn, client_, poll, peer, wrapper, streams,
                     errors>>
  BY DEF runEventLoop, destroy, Top
<1>2. connected_' \in BOOLEAN
  BY DEF Inductive, DataInv, runEventLoop, destroy
<1>3. PICK c \in {"run", "destroy"} : Push(c, conn)
  BY DEF runEventLoop, destroy, Enter
<1>4. /\ c \in Names \ {"connect", "disconnect", "accepting", "stream"}
      /\ c \in Loops /\ conn \in 0..conn
  BY MaxConnectsType DEF Names, Loops, Inductive, DataInv
<1>5. DataInv'
  BY <1>1, <1>2 DEF Inductive, DataInv, poll, peer, wrapper, streams
<1>6. UNCHANGED visitor
  BY <1>1 DEF wrapper
<1> QED BY <1>1, <1>3, <1>4, <1>5, <1>6, CallKeeps

\* disconnect stops the polling before it runs the event loop.
LEMMA disconnectStep ==
  ASSUME Inductive, disconnect PROVE Inductive'
<1>1. /\ connected_' = FALSE
      /\ handshake_alarm_' = FALSE /\ session_ready_alarm_' = FALSE
      /\ UNCHANGED <<handlers, conn, client_, stream_, outcome, peer, wrapper,
                     streams, errors>>
      /\ Push("disconnect", conn) /\ conn \in 0..conn /\ conn \in Nat
      /\ conn' \in Nat /\ conn <= conn'
      /\ Top \in {"app"} \cup AlarmCallbacks /\ ~InProgress("connect")
  BY MaxConnectsType DEF Inductive, DataInv, disconnect, MayDisconnect, Enter
<1>2. NestingInv' /\ \A x : InProgress(x)' <=> InProgress(x) \/ x = "disconnect"
  <2>1. "disconnect" \in Names /\ "disconnect" \in Loops
    BY DEF Names, Loops
  <2> QED BY <1>1, <2>1, PushKeeps DEF Inductive
<1>3. ~AlarmSet' /\ ~InProgress("connect")'
  BY <1>1, <1>2 DEF AlarmSet
<1>4. DataInv'
  BY <1>1 DEF Inductive, DataInv, peer, wrapper, streams
<1>5. AlarmInv'
  BY <1>3 DEF AlarmInv, AlarmsHaveClient, AlarmSet
<1>6. ErrorInv'
  BY <1>1, <1>3 DEF Inductive, ErrorInv, OneError, NoErrorYet, peer, wrapper
<1>7. AcceptInv'
  BY <1>1, AcceptKept DEF Inductive, streams, AlarmCallbacks
<1> QED BY <1>2, <1>4, <1>5, <1>6, <1>7 DEF Inductive

\* disconnect or ~Client is done: the client goes, and no alarm is set.
LEMMA ClientGoneStep ==
  ASSUME Inductive, Disconnected \/ Destroyed PROVE Inductive'
<1>1. /\ Top \in {"disconnect", "destroy"} /\ Leave /\ DropClient
      /\ conn \in Nat
      /\ UNCHANGED <<handlers, conn, connected_, outcome, bidi_stream_callback_,
                     errors>>
      /\ client_' \in {"none", "gone"}
  BY MaxConnectsType DEF Inductive, DataInv, Disconnected, Destroyed
<1>2. /\ interval_alarm_' \in [Conns -> BOOLEAN]
      /\ \A c \in Conns : interval_alarm_'[c] => c <= conn'
  BY DEF Inductive, DataInv, Disconnected, Destroyed
<1>3. handshake_alarm_' = FALSE /\ session_ready_alarm_' = FALSE
  <2>1. CASE Disconnected
    <3>1. InProgress("disconnect")
      BY <2>1, NonEmptyStack DEF Inductive, Disconnected
    <3> QED BY <2>1, <3>1 DEF Inductive, AlarmInv, AlarmSet, Disconnected, DataInv
  <2>2. CASE Destroyed
    BY <2>2 DEF Destroyed
  <2> QED BY <2>1, <2>2
<1>4. NestingInv' /\ \A x : InProgress(x)' => InProgress(x)
  BY <1>1, LeaveKeeps, NonEmptyStack DEF Inductive
<1>5. /\ stream_' \in {"none", "dangling"} /\ reply' = "none"
      /\ stream_error' = FALSE /\ ended' = FALSE /\ visitor' = FALSE
      /\ incoming' = <<>> /\ announced' = {} /\ accepted' = {}
  BY <1>1 DEF DropClient
<1>6. DataInv'
  BY <1>1, <1>2, <1>3, <1>5 DEF Inductive, DataInv
<1>7. ~InProgress("connect")'
  <2>1. CASE Top = "disconnect"
    BY <1>4, <2>1, NonEmptyStack DEF Inductive, AlarmInv
  <2>2. CASE Top = "destroy"
    BY <1>1, <2>2, LeaveKeeps, NonEmptyStack
       DEF Inductive, InProgress, Loops
  <2> QED BY <1>1, <2>1, <2>2
<1>8. AlarmInv'
  BY <1>3, <1>7 DEF AlarmInv, AlarmsHaveClient, AlarmSet
<1>9. ErrorInv'
  BY <1>1, <1>3, <1>5, <1>7 DEF Inductive, ErrorInv, OneError, AlarmSet
<1>10. AcceptInv'
  BY <1>5 DEF AcceptInv, Contains
<1> QED BY <1>4, <1>6, <1>8, <1>9, <1>10 DEF Inductive

\* Setting an alarm of a connection that was made, or clearing one.
LEMMA IntervalKept ==
  ASSUME NEW f \in [Conns -> BOOLEAN], NEW n, NEW k, NEW b \in BOOLEAN,
         k <= n, \A c \in Conns : f[c] => c <= n
  PROVE  /\ [f EXCEPT ![k] = b] \in [Conns -> BOOLEAN]
         /\ \A c \in Conns : [f EXCEPT ![k] = b][c] => c <= n
<1>1. \A c \in Conns : [f EXCEPT ![k] = b][c] = IF c = k THEN b ELSE f[c]
  OBVIOUS
<1> QED BY <1>1

\* The application gives its session an interval or a stream callback.
LEMMA SessionCallStep ==
  ASSUME Inductive, setInterval \/ onBidirectionalStream PROVE Inductive'
<1>1. /\ UNCHANGED <<handlers, stack, conn, client_, connected_, poll, peer,
                     visitor, streams, errors>>
      /\ bidi_stream_callback_' \in BOOLEAN
      /\ interval_alarm_' \in [Conns -> BOOLEAN]
      /\ \A c \in Conns : interval_alarm_'[c] => c <= conn'
  <2>1. CASE setInterval
    <3>1. /\ UNCHANGED conn /\ conn \in Nat
          /\ interval_alarm_' = [interval_alarm_ EXCEPT ![conn] = TRUE]
      BY <2>1, MaxConnectsType DEF Inductive, DataInv, setInterval
    <3>2. /\ interval_alarm_' \in [Conns -> BOOLEAN]
          /\ \A c \in Conns : interval_alarm_'[c] => c <= conn'
      BY <3>1, IntervalKept DEF Inductive, DataInv
    <3> QED BY <2>1, <3>2 DEF Inductive, DataInv, setInterval
  <2>2. CASE onBidirectionalStream
    BY <2>2 DEF Inductive, DataInv, onBidirectionalStream
  <2> QED BY <2>1, <2>2
<1>2. NestingInv' /\ Top' = Top /\ \A x : InProgress(x)' <=> InProgress(x)
  BY <1>1, StackSame DEF Inductive
<1>3. DataInv'
  BY <1>1 DEF Inductive, DataInv, poll, peer, streams
<1>4. ended' = ended /\ ended \in BOOLEAN
  BY <1>1 DEF peer, Inductive, DataInv
<1>5. AlarmInv' /\ ErrorInv'
  BY <1>1, <1>2, <1>4, QuietKeeps DEF poll
<1>6. AcceptInv'
  BY <1>1, <1>2, AcceptKept DEF Inductive, streams
<1> QED BY <1>2, <1>3, <1>5, <1>6 DEF Inductive

-----------------------------------------------------------------------------
(* Calls that return.                                                       *)

\* The loop, and every callback but the session callback, returns.
LEMMA ReturnStep ==
  ASSUME Inductive,
         \/ LoopReturns \/ ErrorCallbackReturns \/ SessionCallbackReturns
         \/ IntervalCallbackReturns \/ ObjectCallbackReturns
         \/ NothingToAccept
  PROVE  Inductive'
<1>1. /\ Top # "app" /\ Leave /\ (Top = "accepting" => incoming = <<>>)
      /\ UNCHANGED <<handlers, conn, client_, poll, peer, visitor, streams,
                     errors>>
  BY DEF LoopReturns, ErrorCallbackReturns, SessionCallbackReturns,
         IntervalCallbackReturns, ObjectCallbackReturns, NothingToAccept,
         wrapper, ObjectCallbacks
<1>2. connected_' \in BOOLEAN /\ bidi_stream_callback_' \in BOOLEAN
      /\ interval_alarm_' \in [Conns -> BOOLEAN]
      /\ \A c \in Conns : interval_alarm_'[c] => c <= conn'
  <2>1. CASE IntervalCallbackReturns
    <3> DEFINE of == Last(stack).of
    <3>1. /\ UNCHANGED <<conn, connected_, bidi_stream_callback_>>
          /\ interval_alarm_' = [interval_alarm_ EXCEPT ![of] = TRUE]
      BY <2>1 DEF IntervalCallbackReturns
    <3>2. of <= conn /\ conn \in Nat
      <4>1. stack # <<>> /\ stack \in Seq(Calls(conn)) /\ conn \in Nat
        BY <1>1, NonEmptyStack, MaxConnectsType
           DEF Inductive, NestingInv, DataInv
      <4>2. stack[Len(stack)] \in Calls(conn)
        BY <4>1
      <4> QED BY <4>1, <4>2 DEF Calls, Last
    <3> HIDE DEF of
    <3> QED BY <3>1, <3>2, IntervalKept DEF Inductive, DataInv
  <2>2. CASE SessionCallbackReturns
    <3>1. /\ UNCHANGED <<conn, connected_, interval_alarm_>>
          /\ bidi_stream_callback_' = ("stream" \in handlers)
      BY <2>2 DEF SessionCallbackReturns
    <3> QED BY <3>1 DEF Inductive, DataInv
  <2>3. CASE \/ LoopReturns \/ ErrorCallbackReturns
             \/ ObjectCallbackReturns \/ NothingToAccept
    BY <2>3 DEF Inductive, DataInv, LoopReturns, ErrorCallbackReturns,
                ObjectCallbackReturns, NothingToAccept, wrapper
  <2> QED BY <2>1, <2>2, <2>3
<1>3. DataInv'
  BY <1>1, <1>2 DEF Inductive, DataInv, poll, peer, streams
<1> QED BY <1>1, <1>3, ReturnKeeps

-----------------------------------------------------------------------------
(* The alarms.                                                              *)

\* The handshake is done: the request goes out, and its stream is polled.
LEMMA HandshakeAlarmStep ==
  ASSUME Inductive, HandshakeAlarm PROVE Inductive'
<1>1. /\ UNCHANGED <<handlers, stack, conn, client_, connected_, outcome, peer,
                     wrapper, streams, errors>>
      /\ handshake_alarm_ = TRUE /\ session_ready_alarm_ = FALSE
      /\ client_ \in {"open", "lost"}
  BY DEF HandshakeAlarm, Inductive, DataInv, AlarmInv, AlarmsHaveClient, AlarmSet
<1>2. /\ handshake_alarm_' = FALSE /\ session_ready_alarm_' = TRUE
      /\ stream_' = "live"
  BY <1>1 DEF HandshakeAlarm, CreateWebTransportSession
<1>3. NestingInv' /\ Top' = Top /\ \A x : InProgress(x)' <=> InProgress(x)
  BY <1>1, StackSame DEF Inductive
<1>4. DataInv'
  BY <1>1, <1>2 DEF Inductive, DataInv, peer, wrapper, streams
<1>5. AlarmSet /\ AlarmSet'
  BY <1>1, <1>2 DEF AlarmSet
<1>6. AlarmInv'
  BY <1>1, <1>2, <1>3, <1>5 DEF Inductive, AlarmInv, AlarmsHaveClient
<1>7. ErrorInv'
  BY <1>1, <1>3, <1>5
     DEF Inductive, ErrorInv, OneError, NoErrorYet, peer, wrapper
<1>8. AcceptInv'
  BY <1>1, <1>3, AcceptKept DEF Inductive, streams
<1> QED BY <1>3, <1>4, <1>6, <1>7, <1>8 DEF Inductive

\* An interval is over.
LEMMA OnAlarmStep ==
  ASSUME Inductive, NEW c \in Conns, OnAlarm(c) PROVE Inductive'
<1>1. /\ Top \in Loops /\ interval_alarm_[c] /\ Push("interval", c)
      /\ interval_alarm_' = [interval_alarm_ EXCEPT ![c] = FALSE]
      /\ UNCHANGED <<handlers, conn, client_, connected_, poll, peer, visitor,
                     bidi_stream_callback_, streams, errors>>
  BY DEF OnAlarm, InLoop
<1>2. c \in 0..conn
  BY <1>1, MaxConnectsType DEF Inductive, DataInv, Conns
<1>3. /\ "interval" \in Names \ {"connect", "disconnect", "accepting", "stream"}
      /\ "interval" \notin Loops /\ stack # <<>>
      /\ Top \notin {"accepting", "stream"}
  BY <1>1 DEF Names, Callbacks, AlarmCallbacks, Loops, Top
<1>4. /\ interval_alarm_' \in [Conns -> BOOLEAN]
      /\ \A d \in Conns : interval_alarm_'[d] => d <= conn'
  BY <1>1 DEF Inductive, DataInv
<1>5. DataInv'
  BY <1>1, <1>4 DEF Inductive, DataInv, poll, peer, streams
<1> QED BY <1>1, <1>2, <1>3, <1>5, CallKeeps

\* The poll fails: a connection that is polled has no error yet.
LEMMA PollFailsStep ==
  ASSUME Inductive, NEW finding, PollFails(finding) PROVE Inductive'
<1>1. /\ Top \in Loops /\ session_ready_alarm_ /\ session_ready_alarm_' = FALSE
      /\ conn \in Nat /\ outcome' = [outcome EXCEPT ![conn] = "error"]
      /\ UNCHANGED <<handlers, conn, client_, handshake_alarm_, stream_, peer,
                     wrapper, streams>>
  BY MaxConnectsType
     DEF Inductive, DataInv, PollFails, Poll, InLoop
<1>2. /\ ~handshake_alarm_ /\ ~visitor /\ NoErrorYet
      /\ ~InProgress("connect") /\ ~InProgress("disconnect")
  BY <1>1 DEF Inductive, DataInv, AlarmInv, ErrorInv, AlarmSet
<1>3. /\ NestingInv' /\ ~InProgress("connect")'
      /\ Top' \notin {"accepting", "stream"} \/ Top' = Top
  <2>1. CASE Push("error", conn)
    <3>1. /\ "error" \in Names /\ "error" \notin Loops /\ stack # <<>>
          /\ conn \in 0..conn' /\ conn' \in Nat /\ conn <= conn'
      BY <1>1 DEF Names, Callbacks, AlarmCallbacks, Loops, Top
    <3> QED BY <1>1, <1>2, <2>1, <3>1, PushKeeps DEF Inductive
  <2>2. CASE UNCHANGED stack
    BY <1>1, <1>2, <2>2, StackSame DEF Inductive
  <2> QED BY <2>1, <2>2 DEF PollFails, Enter
<1>4. /\ connected_' \in BOOLEAN
      /\ errors' = errors \/ errors' = [errors EXCEPT ![conn] = @ + 1]
  BY DEF PollFails, Errs, Inductive, DataInv
<1>5. /\ errors' \in [Conns -> Nat] /\ OneError'
      /\ \A c \in Conns : c > conn => errors'[c] = 0
  <2>1. \A c \in Conns : errors[c] \in Nat /\ errors[c] <= 1
                         /\ (c > conn => errors[c] = 0)
    BY DEF Inductive, DataInv, ErrorInv, OneError
  <2>2. CASE errors' = errors
    BY <2>1, <2>2 DEF OneError, Inductive, DataInv
  <2>3. CASE errors' = [errors EXCEPT ![conn] = @ + 1]
    <3>1. errors \in [Conns -> Nat]
      BY DEF Inductive, DataInv
    <3>2. \A c \in Conns : errors'[c] = IF c = conn THEN 1 ELSE errors[c]
      BY <1>2, <2>3, <3>1 DEF NoErrorYet
    <3>3. errors' \in [Conns -> Nat]
      <4>1. conn \in Conns => errors[conn] + 1 \in Nat
        BY <3>1
      <4> QED BY <2>3, <3>1, <4>1
    <3>4. \A c \in Conns : c > conn => c # conn
      BY <1>1
    <3> QED BY <2>1, <3>2, <3>3, <3>4 DEF OneError
  <2> QED BY <1>4, <2>2, <2>3
<1>6. DataInv'
  <2>1. outcome' \in [Conns -> {"none", "open", "error"}]
    BY <1>1 DEF Inductive, DataInv
  <2> QED BY <1>1, <1>4, <1>5, <2>1 DEF Inductive, DataInv, peer, wrapper, streams
<1>7. ~AlarmSet'
  BY <1>1, <1>2 DEF AlarmSet
<1>8. AlarmInv'
  BY <1>1, <1>2, <1>3, <1>7 DEF AlarmInv, AlarmsHaveClient, AlarmSet
<1>9. ErrorInv'
  BY <1>1, <1>2, <1>3, <1>5, <1>7 DEF ErrorInv, wrapper
<1>10. AcceptInv'
  BY <1>1, <1>3, AcceptKept DEF Inductive, streams, Loops
<1> QED BY <1>3, <1>6, <1>8, <1>9, <1>10 DEF Inductive

\* The session opens, and no error was reported before.
LEMMA PollSucceedsStep ==
  ASSUME Inductive, PollSucceeds PROVE Inductive'
<1>1. /\ Top \in Loops /\ session_ready_alarm_ /\ session_ready_alarm_' = FALSE
      /\ conn \in Nat /\ outcome' = [outcome EXCEPT ![conn] = "open"]
      /\ visitor' = TRUE
      /\ UNCHANGED <<handlers, conn, client_, connected_, handshake_alarm_,
                     stream_, peer, interval_alarm_, streams, errors>>
  BY MaxConnectsType
     DEF Inductive, DataInv, PollSucceeds, Poll, InLoop
<1>2. /\ ~handshake_alarm_ /\ NoErrorYet
      /\ ~InProgress("connect") /\ ~InProgress("disconnect")
  BY <1>1 DEF Inductive, DataInv, AlarmInv, ErrorInv, AlarmSet
<1>3. NestingInv' /\ ~InProgress("connect")'
  <2>1. CASE Push("open", conn)
    <3>1. /\ "open" \in Names /\ "open" \notin Loops /\ stack # <<>>
          /\ conn \in 0..conn' /\ conn' \in Nat /\ conn <= conn'
      BY <1>1 DEF Names, Callbacks, AlarmCallbacks, Loops, Top
    <3> QED BY <1>1, <1>2, <2>1, <3>1, PushKeeps DEF Inductive
  <2>2. CASE UNCHANGED stack
    BY <1>1, <1>2, <2>2, StackSame DEF Inductive
  <2> QED BY <2>1, <2>2 DEF PollSucceeds, Enter
<1>4. bidi_stream_callback_' \in BOOLEAN
  <2>1. CASE "open" \in handlers
    BY <2>1 DEF PollSucceeds
  <2>2. CASE "open" \notin handlers
    <3>1. bidi_stream_callback_' = ("stream" \in handlers)
      BY <2>2 DEF PollSucceeds
    <3> QED BY <3>1 DEF Inductive, DataInv
  <2> QED BY <2>1, <2>2
<1>5. DataInv'
  <2>1. outcome' \in [Conns -> {"none", "open", "error"}]
    BY <1>1 DEF Inductive, DataInv
  <2> QED BY <1>1, <1>4, <2>1 DEF Inductive, DataInv, peer, streams
<1>6. ~AlarmSet'
  BY <1>1, <1>2 DEF AlarmSet
<1>7. AlarmInv'
  BY <1>1, <1>2, <1>3, <1>6 DEF AlarmInv, AlarmsHaveClient, AlarmSet
<1>8. ErrorInv'
  BY <1>1, <1>2, <1>3, <1>6 DEF Inductive, ErrorInv, OneError, NoErrorYet
<1>9. AcceptInv'
  BY <1>1, AcceptKept DEF Inductive, streams, Loops
<1> QED BY <1>3, <1>5, <1>7, <1>8, <1>9 DEF Inductive

-----------------------------------------------------------------------------
(* The server and the connection.                                           *)

\* The server answers, or the stream of the request is freed.
LEMMA AnswerStep ==
  ASSUME Inductive, (\E r \in {"accepted", "refused"} : Replies(r)) \/ StreamFreed
  PROVE  Inductive'
<1>1. /\ UNCHANGED <<handlers, stack, conn, client_, connected_,
                     handshake_alarm_, session_ready_alarm_, outcome,
                     stream_error, ended, wrapper, streams, errors>>
      /\ reply' \in {"none", "accepted", "refused"}
      /\ stream_' \in {"live", "freed"}
  BY DEF Inductive, DataInv, Replies, StreamFreed, poll, peer
<1>2. NestingInv' /\ Top' = Top /\ \A x : InProgress(x)' <=> InProgress(x)
  BY <1>1, StackSame DEF Inductive
<1>3. DataInv'
  BY <1>1 DEF Inductive, DataInv, wrapper, streams
<1>4. AlarmInv'
  BY <1>1, <1>2 DEF Inductive, AlarmInv, AlarmsHaveClient, AlarmSet
<1>5. ErrorInv'
  BY <1>1, <1>2 DEF Inductive, ErrorInv, OneError, NoErrorYet, AlarmSet, wrapper
<1>6. AcceptInv'
  BY <1>1, <1>2, AcceptKept DEF Inductive, streams
<1> QED BY <1>2, <1>3, <1>4, <1>5, <1>6 DEF Inductive

\* An error is counted for a session only as it ends, and it ends once.
LEMMA ErrsKeeps ==
  ASSUME Inductive, SessionOver, ended' \in BOOLEAN, ended => ended',
         reply = "accepted" => ended', UNCHANGED <<conn, visitor>>
  PROVE  /\ errors' \in [Conns -> Nat] /\ OneError'
         /\ \A c \in Conns : c > conn => errors'[c] = 0
         /\ visitor /\ ~ended' => NoErrorYet'
         /\ ~visitor => UNCHANGED errors
<1>1. /\ errors \in [Conns -> Nat] /\ conn \in Nat /\ ended \in BOOLEAN
      /\ \A c \in Conns : errors[c] \in Nat /\ errors[c] <= 1
      /\ \A c \in Conns : c > conn => errors[c] = 0
      /\ visitor /\ ~ended => NoErrorYet
  BY MaxConnectsType DEF Inductive, DataInv, ErrorInv, OneError
<1>2. CASE visitor /\ reply = "accepted" /\ ~ended /\ "error" \in handlers
  <2>1. NoErrorYet /\ ended' /\ errors' = [errors EXCEPT ![conn] = @ + 1]
    BY <1>1, <1>2 DEF SessionOver, Errs
  <2>2. \A c \in Conns : errors'[c] = IF c = conn THEN 1 ELSE errors[c]
    BY <1>1, <2>1 DEF NoErrorYet
  <2>3. errors' \in [Conns -> Nat]
    <3>1. conn \in Conns => errors[conn] + 1 \in Nat
      BY <1>1
    <3> QED BY <1>1, <2>1, <3>1
  <2>4. \A c \in Conns : c > conn => c # conn
    BY <1>1
  <2>5. OneError' /\ \A c \in Conns : c > conn => errors'[c] = 0
    BY <1>1, <2>2, <2>4 DEF OneError
  <2> QED BY <1>2, <2>1, <2>3, <2>5
<1>3. CASE ~(visitor /\ reply = "accepted" /\ ~ended /\ "error" \in handlers)
  <2>1. UNCHANGED errors
    BY <1>3 DEF SessionOver
  <2>2. OneError' /\ (NoErrorYet => NoErrorYet')
    BY <1>1, <2>1 DEF OneError, NoErrorYet
  <2>3. visitor /\ ~ended' => NoErrorYet
    BY <1>1
  <2> QED BY <1>1, <2>1, <2>2, <2>3
<1> QED BY <1>2, <1>3

\* The session closes, its stream is reset, or the connection is lost: an alarm
\* is set only while the session has no visitor to be told.
LEMMA SessionEndsStep ==
  ASSUME Inductive, CloseSession \/ StreamReset \/ ConnectionLost
  PROVE  Inductive'
<1>1. /\ Top \in Loops /\ client_ = "open" /\ conn \in Nat /\ SessionOver
      /\ UNCHANGED <<handlers, conn, connected_, handshake_alarm_,
                     session_ready_alarm_, stream_, outcome, reply, wrapper,
                     streams>>
      /\ client_' \in {"open", "lost"}
  BY MaxConnectsType
     DEF Inductive, DataInv, CloseSession, StreamReset, ConnectionLost, OnSocket,
         InLoop, poll
<1>2. /\ stream_error' \in BOOLEAN /\ ended' \in BOOLEAN
      /\ ended => ended'
      /\ reply = "accepted" => ended'
  BY DEF Inductive, DataInv, CloseSession, StreamReset, ConnectionLost
<1>3. UNCHANGED visitor /\ ~InProgress("connect")
  BY <1>1 DEF wrapper, Inductive, AlarmInv
<1>4. /\ errors' \in [Conns -> Nat] /\ OneError'
      /\ \A c \in Conns : c > conn => errors'[c] = 0
      /\ visitor /\ ~ended' => NoErrorYet'
      /\ ~visitor => UNCHANGED errors
  BY <1>1, <1>2, <1>3, ErrsKeeps
<1>5. /\ NestingInv' /\ ~InProgress("connect")'
      /\ InProgress("disconnect")' => InProgress("disconnect")
  <2>1. CASE Push("closed", conn)
    <3>1. /\ "closed" \in Names /\ "closed" \notin Loops /\ stack # <<>>
          /\ conn \in 0..conn' /\ conn' \in Nat /\ conn <= conn'
      BY <1>1 DEF Names, Callbacks, ObjectCallbacks, Loops, Top
    <3> QED BY <1>1, <1>3, <2>1, <3>1, PushKeeps DEF Inductive
  <2>2. CASE UNCHANGED stack
    BY <1>1, <1>3, <2>2, StackSame DEF Inductive
  <2> QED BY <1>1, <2>1, <2>2 DEF SessionOver, Enter
<1>6. DataInv'
  BY <1>1, <1>2, <1>4 DEF Inductive, DataInv, wrapper, streams
<1>7. AlarmInv'
  BY <1>1, <1>5 DEF Inductive, AlarmInv, AlarmsHaveClient, AlarmSet
<1>8. ErrorInv'
  <2>1. AlarmSet' => ~visitor /\ NoErrorYet
    BY <1>1 DEF Inductive, ErrorInv, AlarmSet
  <2>2. AlarmSet' => ~visitor' /\ NoErrorYet'
    BY <1>1, <1>3, <1>4, <2>1 DEF NoErrorYet
  <2> QED BY <1>1, <1>3, <1>4, <1>5, <2>2 DEF ErrorInv
<1>9. AcceptInv'
  BY <1>1, AcceptKept DEF Inductive, streams, Loops
<1> QED BY <1>5, <1>6, <1>7, <1>8, <1>9 DEF Inductive

\* A stream arrives: if it is announced, the accept loop starts.
LEMMA IncomingStreamStep ==
  ASSUME Inductive, NEW st \in Streams, IncomingStream(st) PROVE Inductive'
<1>1. /\ Top \in Loops /\ conn \in Nat
      /\ incoming \in Seq(Streams) /\ incoming' = Append(incoming, st)
      /\ st \notin announced
      /\ UNCHANGED <<handlers, conn, client_, connected_, poll, peer, wrapper,
                     accepted, errors>>
  BY MaxConnectsType
     DEF Inductive, DataInv, AcceptInv, IncomingStream, OnSocket, InLoop
<1>2. /\ UNCHANGED <<handshake_alarm_, session_ready_alarm_, stream_, visitor,
                     ended>>
      /\ ended \in BOOLEAN
  BY <1>1 DEF Inductive, DataInv, poll, peer, wrapper
<1>3. incoming' \in Seq(Streams)
  BY <1>1
<1>4. CASE visitor
  <2>1. announced' = announced \cup {st} /\ Push("accepting", conn)
    BY <1>4 DEF IncomingStream, Enter
  <2>2. /\ "accepting" \in Names /\ "accepting" \notin Loops /\ stack # <<>>
        /\ conn \in 0..conn' /\ conn' \in Nat /\ conn <= conn'
    BY <1>1 DEF Names, Loops, Top
  <2>3. /\ NestingInv' /\ Top' = "accepting"
        /\ \A x : InProgress(x)' <=> InProgress(x) \/ x = "accepting"
    BY <1>1, <2>1, <2>2, PushKeeps DEF Inductive
  <2>4. DataInv'
    BY <1>1, <2>1 DEF Inductive, DataInv, poll, peer, wrapper
  <2>5. AlarmInv' /\ ErrorInv'
    BY <1>1, <1>2, <2>3, QuietKeeps
  <2>6. AcceptInv'
    BY <1>3, <2>3 DEF AcceptInv
  <2> QED BY <2>3, <2>4, <2>5, <2>6 DEF Inductive
<1>5. CASE ~visitor
  <2>1. UNCHANGED <<announced, stack>>
    BY <1>5 DEF IncomingStream
  <2>2. NestingInv' /\ Top' = Top /\ \A x : InProgress(x)' <=> InProgress(x)
    BY <1>1, <2>1, StackSame DEF Inductive
  <2>3. DataInv'
    BY <1>1, <2>1 DEF Inductive, DataInv, poll, peer, wrapper
  <2>4. AlarmInv' /\ ErrorInv'
    BY <1>1, <1>2, <2>2, QuietKeeps
  <2>5. ASSUME NEW other \in Streams, Contains(incoming', other)
        PROVE  other \notin announced'
    <3>1. Contains(incoming, other) \/ other = st
      <4>1. PICK i \in 1..Len(incoming') : incoming'[i] = other
        BY <2>5 DEF Contains
      <4>2. /\ Len(incoming') = Len(incoming) + 1
            /\ \A j \in 1..Len(incoming) : incoming'[j] = incoming[j]
            /\ incoming'[Len(incoming) + 1] = st
        BY <1>1, AppendProperties
      <4>3. i \in 1..Len(incoming) \/ i = Len(incoming) + 1
        BY <1>1, <4>2
      <4> QED BY <4>1, <4>2, <4>3 DEF Contains
    <3>2. Contains(incoming, other) => other \notin announced
      BY <1>1 DEF Inductive, AcceptInv, Loops
    <3> QED BY <1>1, <2>1, <3>1, <3>2
  <2>6. AcceptInv'
    BY <1>3, <2>5 DEF AcceptInv
  <2> QED BY <2>2, <2>3, <2>4, <2>6 DEF Inductive
<1> QED BY <1>4, <1>5

\* The accept loop takes the next stream.
LEMMA AcceptStep ==
  ASSUME Inductive, AcceptIncomingBidirectionalStream PROVE Inductive'
<1>1. /\ Top = "accepting" /\ conn \in Nat
      /\ incoming \in Seq(Streams) /\ incoming # <<>>
      /\ incoming' = Tail(incoming)
      /\ accepted' = accepted \cup {Head(incoming)}
      /\ UNCHANGED <<handlers, conn, client_, connected_, poll, peer, wrapper,
                     announced, errors>>
  BY MaxConnectsType
     DEF Inductive, DataInv, AcceptInv, AcceptIncomingBidirectionalStream
<1>2. Head(incoming) \in Streams /\ incoming' \in Seq(Streams)
  BY <1>1
<1>3. /\ UNCHANGED <<handshake_alarm_, session_ready_alarm_, stream_, visitor,
                     ended>>
      /\ ended \in BOOLEAN
  BY <1>1 DEF Inductive, DataInv, poll, peer, wrapper
<1>4. /\ NestingInv' /\ Top' \in {"accepting", "stream"}
      /\ InProgress("connect")' => InProgress("connect")
      /\ InProgress("disconnect")' => InProgress("disconnect")
  <2>1. CASE Push("stream", conn)
    <3>1. /\ "stream" \in Names /\ "stream" \notin Loops /\ stack # <<>>
          /\ conn \in 0..conn' /\ conn' \in Nat /\ conn <= conn'
      BY <1>1 DEF Names, Callbacks, ObjectCallbacks, Loops, Top
    <3> QED BY <1>1, <2>1, <3>1, PushKeeps DEF Inductive
  <2>2. CASE UNCHANGED stack
    BY <1>1, <2>2, StackSame DEF Inductive
  <2> QED BY <2>1, <2>2 DEF AcceptIncomingBidirectionalStream, Enter
<1>5. DataInv'
  BY <1>1, <1>2 DEF Inductive, DataInv, poll, peer, wrapper
<1>6. AlarmInv' /\ ErrorInv'
  BY <1>1, <1>3, <1>4, QuietKeeps
<1>7. AcceptInv'
  BY <1>2, <1>4 DEF AcceptInv
<1> QED BY <1>4, <1>5, <1>6, <1>7 DEF Inductive

-----------------------------------------------------------------------------
(* Every step, and the theorems.                                            *)
LEMMA StutterStep ==
  ASSUME Inductive, UNCHANGED vars PROVE Inductive'
<1>1. UNCHANGED <<handlers, stack, conn, client_, connected_, poll, peer, wrapper,
                  streams, errors>>
  BY DEF vars
<1>2. NestingInv' /\ Top' = Top /\ \A x : InProgress(x)' <=> InProgress(x)
  BY <1>1, StackSame DEF Inductive
<1>3. DataInv'
  BY <1>1 DEF Inductive, DataInv, poll, peer, wrapper, streams
<1>4. AlarmInv' /\ ErrorInv'
  BY <1>1, <1>2, QuietKeeps DEF Inductive, DataInv, poll, peer, wrapper
<1>5. AcceptInv'
  BY <1>1, <1>2, AcceptKept DEF Inductive, streams
<1> QED BY <1>2, <1>3, <1>4, <1>5 DEF Inductive

\* Every step keeps the inductive invariant.
LEMMA InductiveStep ==
  ASSUME Inductive, [Next]_vars PROVE Inductive'
<1>1. CASE App
  BY <1>1, connectStep, RunStep, disconnectStep, SessionCallStep DEF App
<1>2. CASE HandshakeAlarm
  BY <1>2, HandshakeAlarmStep
<1>3. CASE PollDone
  BY <1>3, PollFailsStep, PollSucceedsStep DEF PollDone
<1>4. CASE PollAgain \/ UNCHANGED vars
  BY <1>4, StutterStep DEF PollAgain
<1>5. CASE Returns
  BY <1>5, ConnectReturnsStep, ReturnStep, ClientGoneStep, AcceptStep DEF Returns
<1>6. CASE Server
  BY <1>6, AnswerStep, SessionEndsStep, IncomingStreamStep DEF Server
<1>7. CASE \E c \in Conns : OnAlarm(c)
  BY <1>7, OnAlarmStep
<1> QED BY <1>1, <1>2, <1>3, <1>4, <1>5, <1>6, <1>7 DEF Next

\* The inductive invariant holds in every state the client reaches.
THEOREM InductiveHolds == Spec => []Inductive
<1>1. Init => Inductive
  BY InitInductive
<1>2. Inductive /\ [Next]_vars => Inductive'
  BY InductiveStep
<1> QED BY <1>1, <1>2, PTL DEF Spec

\* Every variable of the client has its type, the calls nest in the order they
\* can, and at most one of the two polling alarms is set.
THEOREM ClientTypeCorrect == Spec => []TypeOK
<1>1. Inductive => TypeOK
  <2> SUFFICES ASSUME Inductive PROVE TypeOK
    OBVIOUS
  <2>1. stack \in Seq([call : Loops \cup Callbacks \cup {"accepting"},
                       of : 0..conn])
    BY DEF Inductive, NestingInv, Calls, Names
  <2>2. \A i \in DOMAIN stack :
          IF stack[i].call \in Loops \ {"disconnect"} THEN i = 1
          ELSE i = 1 => stack[i].call = "disconnect"
    BY DEF Inductive, NestingInv
  <2> QED BY <2>1, <2>2 DEF Inductive, DataInv, TypeOK
<1> QED BY <1>1, InductiveHolds, PTL

\* An alarm never runs for a client or a request that is gone: the alarms are
\* cleared wherever the client is, and not set inside Connect.
THEOREM AlarmsFindTheirClient == Spec => []AlarmsHaveClient
<1>1. Inductive => AlarmsHaveClient
  BY DEF Inductive, AlarmInv
<1> QED BY <1>1, InductiveHolds, PTL

\* The poll and the end of the session never both report an error for one
\* connection, and neither reports it twice.
THEOREM ErrorsAreReportedOnce == Spec => []OneError
<1>1. Inductive => OneError
  BY DEF Inductive, ErrorInv
<1> QED BY <1>1, InductiveHolds, PTL

\* The ClientSession's loop leaves no announced stream behind, whatever the
\* stream callbacks do in between.
THEOREM AnnouncedStreamsAreAccepted == Spec => []AnnouncedAreAccepted
<1>1. Inductive => AnnouncedAreAccepted
  BY DEF Inductive, AcceptInv, AnnouncedAreAccepted, InLoop, Loops
<1> QED BY <1>1, InductiveHolds, PTL

=============================================================================
