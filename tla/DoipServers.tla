----------------------------- MODULE DoipServers -----------------------------
(***************************************************************************)
(* The two DoIP servers that do their own framing: DoipTcpServer of the    *)
(* bare-metal node, driven by LwIP callbacks, and DoipServer of the Linux  *)
(* simulator, a thread with blocking reads.  (The Zephyr one is part of    *)
(* DiagnosticServer.)  Which of them runs is fixed from the start.         *)
(*                                                                         *)
(* A byte of a connection is a pair of a frame and a position in it; what  *)
(* the bytes say is known from sent, the history of all frames, as long as *)
(* none of them is missing.  Lengths are scaled down.  Testers are the     *)
(* environment: they connect, send frames, close, or lose the connection.  *)
(***************************************************************************)
EXTENDS Naturals, Sequences, FiniteSets

CONSTANTS
  Servers,          \* the servers examined: "DoipTcpServer" and "DoipServer"
  Testers,
  FrameKinds,       \* the frames testers send: records [type, plen]; "foreign" is one
                    \* of another protocol version, "other" one that no server answers
  kHeaderSize, kRxBufSize,
  MaxPayload,       \* kMaxPayloadLen and kMaxPayloadLength: for each server
  MinActivation,    \* 7 bytes in the code
  MinDiagnostic,    \* 5 bytes
  MayWrite,         \* what tcp_write and send may answer
  Width,            \* 2^32, of rx_len_
  MaxOutstanding,   \* bound: the bytes of a tester not yet handled
  MaxFrames,        \* bound: frames in a behaviour
  MaxSessions       \* bound: connections in a behaviour

ASSUME LengthsAssumption ==
  /\ {kHeaderSize, kRxBufSize, MinActivation, MinDiagnostic} \subseteq Nat \ {0}
  /\ MaxPayload \in [Servers -> Nat]
  /\ {MaxOutstanding, MaxFrames, MaxSessions} \subseteq Nat
  /\ Width \in Nat /\ Width > 2 * kRxBufSize
ASSUME TestersAssumption == "none" \notin Testers
ASSUME KindsAssumption ==
  FrameKinds \subseteq [type : {"activation", "diagnostic", "foreign", "other"}, plen : Nat]
ASSUME MayWriteAssumption == MayWrite \subseteq BOOLEAN

VARIABLES
  server,           \* which one runs
  conn,             \* conn_pcb_, conn_fd: the tester being served, or None
  routing_active,
  \* DoipTcpServer
  attached,         \* the testers whose connection calls RecvCallback
  rx_buf, rx_len,
  processing,       \* inside the loop of ProcessFrames
  \* DoipServer
  queued,           \* the connections that wait for accept
  running,          \* running_
  ended,            \* the listener thread has returned, Stop has joined it
  \* testers
  session,          \* the session of each tester, 0 without a connection
  to_server,        \* the bytes under way from each, Fin for the end
  \* history
  sessions, sent, handled, dispatched,
  overrun           \* the sessions of which bytes did not fit into the buffer

tcp_server == <<attached, rx_buf, rx_len, processing>>
listener == <<queued, running, ended>>
testers == <<session, to_server>>
vars == <<server, conn, routing_active, tcp_server, listener, testers,
          sessions, sent, handled, dispatched, overrun>>

None == "none"
Fin == <<0, 0>>
Length(frame) == kHeaderSize + frame.plen
FrameLength(n) == Length(sent[n])
Session(n) == sent[n].session
BytesOf(n, length) == [i \in 1 .. length |-> <<n, i>>]
FrameAt(bytes) == bytes[1][1]

Init ==
  /\ server \in Servers
  /\ conn = None /\ routing_active = FALSE
  /\ attached = {} /\ rx_buf = << >> /\ rx_len = 0 /\ processing = FALSE
  /\ queued = {} /\ running = TRUE /\ ended = FALSE
  /\ session = [t \in Testers |-> 0]
  /\ to_server = [t \in Testers |-> << >>]
  /\ sessions = 0 /\ sent = << >> /\ handled = {} /\ dispatched = << >> /\ overrun = {}

-----------------------------------------------------------------------------
(* testers *)

Outstanding(t) == Len(to_server[t]) + (IF conn = t THEN rx_len ELSE 0)

Send(t, kind) ==
  /\ session[t] # 0 /\ Len(sent) < MaxFrames
  /\ Outstanding(t) + kHeaderSize + kind.plen <= MaxOutstanding
  /\ sent' = Append(sent, [tester |-> t, session |-> session[t], type |-> kind.type, plen |-> kind.plen])
  /\ to_server' = [to_server EXCEPT
       ![t] = @ \o BytesOf(Len(sent'), kHeaderSize + kind.plen)]
  /\ UNCHANGED <<conn, routing_active, tcp_server, listener, session, sessions,
                 handled, dispatched, overrun>>

Close(t) ==
  /\ session[t] # 0
  /\ session' = [session EXCEPT ![t] = 0]
  /\ to_server' = [to_server EXCEPT ![t] = Append(@, Fin)]
  /\ UNCHANGED <<conn, routing_active, tcp_server, listener, sessions, sent,
                 handled, dispatched, overrun>>

\* Mutation of Accepted: a new tester takes the connection over.
AcceptedAlways == TRUE

\* A second tester is turned away.
Accepted == conn = None

\* The handshake completes: AcceptCallback aborts the connection or takes it; the
\* listener's backlog keeps it until the thread is back at accept.
Connect(t) ==
  /\ session[t] = 0 /\ to_server[t] = << >> /\ sessions < MaxSessions
  /\ sessions' = sessions + 1
  /\ \/ /\ server = "DoipTcpServer" /\ ~processing /\ Accepted
        /\ conn' = t /\ attached' = attached \cup {t}
        /\ rx_buf' = << >> /\ rx_len' = 0
        /\ routing_active' = FALSE
        /\ session' = [session EXCEPT ![t] = sessions']
        /\ UNCHANGED <<processing, queued>>
     \/ /\ server = "DoipTcpServer" /\ ~processing /\ ~Accepted
        /\ UNCHANGED <<conn, routing_active, tcp_server, queued, session>>
     \/ /\ server = "DoipServer" /\ running
        /\ queued' = queued \cup {t}
        /\ session' = [session EXCEPT ![t] = sessions']
        /\ UNCHANGED <<conn, routing_active, tcp_server>>
  /\ UNCHANGED <<running, ended, to_server, sent, handled, dispatched, overrun>>

-----------------------------------------------------------------------------
(* DoipTcpServer.  The callbacks and ProcessFrames run in the main loop,   *)
(* one after another; each pass of ProcessFrames is a step.                *)

\* CloseConn, and ErrCallback, when LwIP has closed the connection already.  A
\* tester that had not closed yet learns of it.
CloseConn ==
  /\ conn' = None /\ attached' = attached \ {conn}
  /\ routing_active' = FALSE
  /\ session' = [t \in Testers |-> IF t = conn THEN 0 ELSE session[t]]
  /\ to_server' = [t \in Testers |-> IF t = conn THEN << >> ELSE to_server[t]]

\* The bytes that do not fit are acknowledged and dropped.
RecvCallback(t, length) ==
  LET space == kRxBufSize - rx_len
      copy_len == IF length < space THEN length ELSE space IN
  /\ t \in attached /\ ~processing
  /\ length \in 1 .. Len(to_server[t]) /\ to_server[t][length] # Fin
  /\ rx_buf' = rx_buf \o SubSeq(to_server[t], 1, copy_len)
  /\ rx_len' = rx_len + copy_len
  /\ processing' = TRUE
  /\ to_server' = [to_server EXCEPT ![t] = SubSeq(@, length + 1, Len(@))]
  /\ overrun' = IF copy_len < length
                THEN overrun \cup {Session(FrameAt(to_server[t]))} ELSE overrun
  /\ UNCHANGED <<conn, routing_active, attached, listener, session, sessions, sent,
                 handled, dispatched>>

\* The tester has closed: RecvCallback without a buffer.
ReceiveEnd(t) ==
  /\ t \in attached /\ ~processing
  /\ to_server[t] # << >> /\ Head(to_server[t]) = Fin
  /\ CloseConn
  /\ rx_buf' = << >> /\ rx_len' = 0
  /\ UNCHANGED <<processing, listener, sessions, sent, handled, dispatched, overrun>>

\* ErrCallback: the connection is lost.
ConnectionBreaks(t) ==
  /\ t \in attached /\ ~processing
  /\ CloseConn
  /\ rx_buf' = << >> /\ rx_len' = 0
  /\ UNCHANGED <<processing, listener, sessions, sent, handled, dispatched, overrun>>

\* What the bytes at the front are taken for: the frame they belong to or, once some
\* have been dropped and others moved up, anything.
Intact ==
  \A i \in DOMAIN rx_buf :
    i <= FrameLength(FrameAt(rx_buf)) => rx_buf[i] = <<FrameAt(rx_buf), i>>
ReadAs == CASE rx_len < kHeaderSize -> {}
            [] rx_len >= kHeaderSize /\ Intact -> {sent[FrameAt(rx_buf)]}
            [] OTHER -> FrameKinds

\* Another protocol version, or a frame longer than any that is accepted.
Rejected(frame) == frame.type = "foreign" \/ frame.plen > MaxPayload[server]

\* Mutation of Waits: a frame that fills the buffer is waited for.
WaitsForMore(frame) == rx_len <= Length(frame)

\* Is the frame at the front not yet complete?
Waits(frame) == rx_len < Length(frame)

\* Mutation of AfterFrame: the last bytes are dropped, not the first.
AfterFrameFirst(length) == SubSeq(rx_buf, 1, Len(rx_buf) - length)

\* The bytes that memmove brings to the front.
AfterFrame(length) == SubSeq(rx_buf, length + 1, Len(rx_buf))

\* Mutation of IsServed: without routing activation.
IsServedAlways(frame) == frame.type = "diagnostic" /\ frame.plen >= MinDiagnostic

\* A message for this node that will be acknowledged and dispatched.
IsServed(frame) ==
  frame.type = "diagnostic" /\ routing_active /\ frame.plen >= MinDiagnostic

\* Routing activation, confirmed to the tester.
ActivatedBy(frame, written) ==
  frame.type = "activation" /\ frame.plen >= MinActivation /\ written

\* What closes the connection while HandleFrame runs: an activation too short, and
\* an answer or an acknowledgement that tcp_write refuses.
ClosedBy(frame, first, second) ==
  \/ frame.type = "activation" /\ ~(frame.plen >= MinActivation /\ first)
  \/ IsServed(frame) /\ ~(first /\ second)

\* HandleFrame of the frame at the front, and its removal.  CloseConn has emptied
\* the buffer when the length of the frame is subtracted.
HandleFrame(frame, first, second) ==
  LET n == FrameAt(rx_buf) IN
  /\ handled' = handled \cup {n}
  /\ dispatched' = IF IsServed(frame) /\ first THEN Append(dispatched, n) ELSE dispatched
  /\ IF ClosedBy(frame, first, second)
     THEN /\ conn' = None /\ attached' = attached \ {conn}
          /\ session' = [t \in Testers |-> IF t = conn THEN 0 ELSE session[t]]
          /\ to_server' = [t \in Testers |-> IF t = conn THEN << >> ELSE to_server[t]]
          /\ routing_active' = ActivatedBy(frame, first)
          /\ rx_len' = (Width - Length(frame)) % Width
          /\ rx_buf' = << >>
     ELSE /\ routing_active' = (routing_active \/ ActivatedBy(frame, first))
          /\ rx_len' = rx_len - Length(frame)
          /\ rx_buf' = AfterFrame(Length(frame))
          /\ UNCHANGED <<conn, attached, testers>>
  /\ UNCHANGED <<processing, listener, sessions, sent, overrun>>

\* One pass of the loop.  A length beyond the buffer is the end: what memmove has
\* done then is undefined.
ProcessFrames ==
  /\ processing /\ rx_len <= kRxBufSize
  /\ \/ /\ \/ rx_len < kHeaderSize
           \/ \E frame \in ReadAs : ~Rejected(frame) /\ Waits(frame)
        /\ processing' = FALSE
        /\ UNCHANGED <<conn, routing_active, attached, rx_buf, rx_len, testers,
                       listener, sessions, sent, handled, dispatched, overrun>>
     \/ /\ \E frame \in ReadAs : Rejected(frame)
        /\ CloseConn
        /\ rx_buf' = << >> /\ rx_len' = 0 /\ processing' = FALSE
        /\ UNCHANGED <<listener, sessions, sent, handled, dispatched, overrun>>
     \/ \E frame \in ReadAs, first, second \in MayWrite :
          ~Rejected(frame) /\ ~Waits(frame) /\ HandleFrame(frame, first, second)

\* What keeps going as long as bytes arrive.
TcpServerRuns ==
  \/ \E t \in Testers : ReceiveEnd(t) \/ \E i \in 1 .. MaxOutstanding : RecvCallback(t, i)
  \/ ProcessFrames

TcpServerStep ==
  /\ server = "DoipTcpServer"
  /\ TcpServerRuns \/ \E t \in Testers : ConnectionBreaks(t)

-----------------------------------------------------------------------------
(* DoipServer.  RecvFull takes bytes off the connection until header and   *)
(* payload are complete; nobody else sees them, so that reading a frame is *)
(* one step.                                                               *)

Accept(t) ==
  /\ running /\ conn = None /\ t \in queued
  /\ conn' = t /\ queued' = queued \ {t}
  /\ routing_active' = FALSE
  /\ UNCHANGED <<tcp_server, running, ended, testers, sessions, sent, handled, dispatched, overrun>>

\* A connection is over: its socket is closed, or a read or send has failed on it.
Dropped(gone) ==
  /\ session' = [t \in Testers |-> IF t \in gone THEN 0 ELSE session[t]]
  /\ to_server' = [t \in Testers |-> IF t \in gone THEN << >> ELSE to_server[t]]

\* The first frame of the connection is there in full.
FrameArrived ==
  /\ to_server[conn] # << >> /\ Head(to_server[conn]) # Fin
  /\ Len(SelectSeq(to_server[conn], LAMBDA b : b # Fin)) >= FrameLength(FrameAt(to_server[conn]))

HeaderRejected ==
  /\ Len(SelectSeq(to_server[conn], LAMBDA b : b # Fin)) >= kHeaderSize
  /\ Rejected(sent[FrameAt(to_server[conn])])

\* HandleConnection with the next frame.  A send fails because the connection is lost,
\* and then the next read fails too.
HandleConnection(first, second) ==
  LET n == FrameAt(to_server[conn])
      frame == sent[n]
      activated == ActivatedBy(frame, first)
      broken == \/ frame.type = "activation" /\ ~activated
                \/ IsServed(frame) /\ ~(first /\ second) IN
  /\ conn # None /\ FrameArrived /\ ~HeaderRejected
  /\ handled' = handled \cup {n}
  /\ dispatched' = IF IsServed(frame) /\ first THEN Append(dispatched, n) ELSE dispatched
  /\ routing_active' = (routing_active \/ activated)
  /\ IF broken \/ ~running
     THEN conn' = None /\ Dropped({conn})
     ELSE /\ to_server' = [to_server EXCEPT ![conn] = SubSeq(@, FrameLength(n) + 1, Len(@))]
          /\ UNCHANGED <<conn, session>>
  /\ UNCHANGED <<tcp_server, listener, sessions, sent, overrun>>

\* Header or payload cannot be read to the end, or the header is rejected.
ReadFails ==
  /\ conn # None
  /\ \/ HeaderRejected
     \/ ~FrameArrived /\ to_server[conn] # << >> /\ Fin = to_server[conn][Len(to_server[conn])]
  /\ conn' = None /\ Dropped({conn})
  /\ UNCHANGED <<routing_active, tcp_server, listener, sessions, sent, handled, dispatched, overrun>>

\* The main loop calls Stop, which closes the listening socket: running_ goes, and
\* with it the connections in the backlog.
Stop ==
  /\ running
  /\ running' = FALSE
  /\ queued' = {} /\ Dropped(queued)
  /\ UNCHANGED <<conn, routing_active, tcp_server, ended, sessions, sent, handled, dispatched, overrun>>

\* Mutation of AcceptReturns: the socket is not shut down.
AcceptReturnsNot == queued # {}

\* Does accept return to a thread that is to end?
AcceptReturns == ~running

ThreadEnds ==
  /\ ~running /\ conn = None /\ ~ended
  /\ AcceptReturns
  /\ ended' = TRUE
  /\ UNCHANGED <<conn, routing_active, tcp_server, queued, running, testers,
                 sessions, sent, handled, dispatched, overrun>>

ListenerThread ==
  \/ \E t \in Testers : Accept(t)
  \/ \E first, second \in MayWrite : HandleConnection(first, second)
  \/ ReadFails \/ ThreadEnds

DoipServerStep == server = "DoipServer" /\ (ListenerThread \/ Stop)

-----------------------------------------------------------------------------
TesterStep(t) ==
  \/ Connect(t)
  \/ \E kind \in FrameKinds : Send(t, kind)
  \/ Close(t)

Next ==
  /\ \/ \E t \in Testers : TesterStep(t)
     \/ TcpServerStep \/ DoipServerStep
  /\ UNCHANGED server

Spec == Init /\ [][Next]_vars

\* Bytes on the link arrive, the main loop and the thread run; testers need not act.
Fairness ==
  /\ WF_vars(server = "DoipTcpServer" /\ TcpServerRuns /\ UNCHANGED server)
  /\ WF_vars(server = "DoipServer" /\ ListenerThread /\ UNCHANGED server)

FairSpec == Spec /\ Fairness
-----------------------------------------------------------------------------
Numbers == DOMAIN sent

\* Types, and that the buffer holds as many bytes as rx_len says, unless the length
\* has been driven below zero.
DoipTypeOK ==
  /\ conn \in Testers \cup {None}
  /\ {routing_active, processing, running, ended} \subseteq BOOLEAN
  /\ rx_len \in 0 .. Width - 1
  /\ rx_len <= kRxBufSize => rx_len = Len(rx_buf)
  /\ queued \subseteq Testers /\ attached \subseteq Testers
  /\ \A t \in Testers : session[t] \in 0 .. sessions
  /\ handled \subseteq Numbers /\ \A i \in DOMAIN dispatched : dispatched[i] \in handled

Complete(n) == Session(n) \notin overrun

\* However the bytes are cut into segments and the sessions follow one another, as long
\* as the buffer has held what came: the requests of a session are dispatched in the
\* order they were sent, each once, those of two sessions never in turns, and no frame
\* of a session is passed over for one sent after it.
DispatchFollowsSession ==
  /\ \A i, k \in DOMAIN dispatched :
       i < k /\ Session(dispatched[i]) = Session(dispatched[k]) /\ Complete(dispatched[i]) =>
         /\ dispatched[i] < dispatched[k]
         /\ \A j \in i .. k : Session(dispatched[j]) = Session(dispatched[i])
  /\ \A n \in handled, m \in Numbers :
       m < n /\ Session(m) = Session(n) /\ Complete(n) => m \in handled

\* A request is dispatched only if its own session was activated before.
ActivatedFirst ==
  \A i \in DOMAIN dispatched : Complete(dispatched[i]) =>
    \E m \in handled : /\ m < dispatched[i] /\ Session(m) = Session(dispatched[i])
                        /\ sent[m].type = "activation"

\* Only the connection being served feeds the buffer, and routing is active only as
\* long as there is one.
OneConnection ==
  /\ attached \subseteq {conn}
  /\ server = "DoipTcpServer" /\ routing_active => conn # None

\* A frame whose tester is being served is handled in the end, unless its session ends
\* or bytes of it are dropped.
Over(n) == n \in Numbers /\ (session[sent[n].tester] # Session(n) \/ ~Complete(n))
FrameIsHandled ==
  \A n \in 1 .. MaxFrames :
    (n \in Numbers /\ conn = sent[n].tester /\ ~Over(n)) ~> (n \in handled \/ Over(n))

\* Stop joins the thread: it waits for nobody but a tester that stays connected.
StopReturns ==
  (~running /\ (conn = None \/ session[conn] = 0)) ~> ended

(***************************************************************************)
(* What the comments promise of the receive buffer: data accumulate        *)
(* "capped at buffer size", and a refused send "closes connection".        *)
(***************************************************************************)
RxLenWithinBuffer == rx_len <= kRxBufSize
=============================================================================
