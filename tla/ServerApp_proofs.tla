-------------------------- MODULE ServerApp_proofs --------------------------
(* Proofs about ServerApp, for any number of connections, any tokens and    *)
(* keys, and any requests of other programs.                                *)
EXTENDS ServerApp, TLAPS

\* What is known of a connection.  Timers are gone before the response is
\* written; only the handler of a request with the token takes a connection
\* from net/http; and the response 101 is on no connection that net/http can
\* still close.
ConnInv(c) ==
  /\ http[c] = "written" => "write" \notin timer[c]
  /\ http[c] \in {"cleared", "flushed", "tunnel"} => timer[c] = {}
  /\ http[c] \in HijackedStages \cup {"tunnel", "leaked"} => Authorized(c)
  /\ reply[c] = "101" => Authorized(c) /\ http[c] \in {"flushed", "tunnel", "closed"}
  /\ client[c] \in {"none", "writing"} => req[c] = NoRequest
  /\ req[c] = NoRequest => http[c] \in {"none", "reading", "closed"} /\ reply[c] = "none"
  /\ client[c] = "connected" => reply[c] = "101" /\ whole[c] = 5

IInv == TypeOK /\ \A c \in Conns : ConnInv(c)

\* A verdict is one of the statuses, and 101 only for who knows the token.
LEMMA Verdicts ==
  ASSUME NEW q \in Request
  PROVE  /\ Verdict(q) \in Statuses
         /\ Verdict(q) = "101" => q.stream /\ q.upgrade /\ q.key # Absent /\ q.token = AuthToken
  BY DEF Verdict, Statuses, Request

\* A connection that a step leaves alone.
LEMMA Untouched ==
  ASSUME NEW d, ConnInv(d), http'[d] = http[d], timer'[d] = timer[d], req'[d] = req[d],
         reply'[d] = reply[d], client'[d] = client[d], whole'[d] = whole[d]
  PROVE  ConnInv(d)'
  BY DEF ConnInv, Authorized, HijackedStages

\* A step that touches one connection.
LEMMA OneConnection ==
  ASSUME IInv, NEW c \in Conns, TypeOK',
         \A d \in Conns \ {c} : /\ http'[d] = http[d] /\ timer'[d] = timer[d]
                                /\ req'[d] = req[d] /\ reply'[d] = reply[d]
                                /\ client'[d] = client[d] /\ whole'[d] = whole[d],
         ConnInv(c)'
  PROVE  IInv'
<1>1. ASSUME NEW d \in Conns
      PROVE  ConnInv(d)'
  <2>1. CASE d = c
    BY <2>1
  <2>2. CASE d # c
    BY <2>2, Untouched DEF IInv
  <2> QED
    BY <2>1, <2>2
<1> QED
  BY <1>1 DEF IInv
-----------------------------------------------------------------------------
(* The process                                                             *)

LEMMA InitIInv == Init => IInv
<1> SUFFICES ASSUME Init PROVE IInv
  OBVIOUS
<1>1. TypeOK
  <2>1. "none" \in Stages /\ "none" \in Statuses /\ 0 \in 0..5 /\ {} \in SUBSET {"read", "write"}
    BY DEF Stages, Statuses
  <2> QED
    BY <2>1 DEF Init, TypeOK
<1>2. ASSUME NEW c \in Conns
      PROVE  ConnInv(c)
  BY DEF Init, ConnInv, HijackedStages
<1> QED
  BY <1>1, <1>2 DEF IInv

LEMMA ProcessInv ==
  ASSUME IInv, Start \/ Listen \/ ServeEnds \/ Interrupt \/ Shutdown \/ ShutdownEnds
  PROVE  IInv'
<1>1. UNCHANGED <<http, req, timer, reply, client, whole>>
  BY DEF Start, Listen, ServeEnds, Interrupt, Shutdown, ShutdownEnds, peer
<1>2. TypeOK'
  BY <1>1 DEF IInv, TypeOK, Start, Listen, ServeEnds, Interrupt, Shutdown, ShutdownEnds
<1>3. \A c \in Conns : ConnInv(c)'
  BY <1>1, Untouched DEF IInv
<1> QED
  BY <1>2, <1>3 DEF IInv

LEMMA ExitInv ==
  ASSUME IInv, Exit
  PROVE  IInv'
<1>1. http' = [c \in Conns |-> IF http[c] = "none" THEN "none" ELSE "closed"]
      /\ UNCHANGED <<req, timer, reply, client, whole>>
  BY DEF Exit, peer
<1>2. TypeOK'
  BY <1>1 DEF IInv, TypeOK, Exit, Stages
<1>3. ASSUME NEW c \in Conns
      PROVE  ConnInv(c)'
  <2>1. ConnInv(c) /\ http'[c] \in {"none", "closed"} /\ (http[c] = "none" => http'[c] = "none")
        /\ (http[c] # "none" => http'[c] = "closed")
    BY <1>1 DEF IInv
  <2> QED
    BY <1>1, <2>1 DEF ConnInv, Authorized, HijackedStages
<1> QED
  BY <1>2, <1>3 DEF IInv
-----------------------------------------------------------------------------
(* Clients                                                                 *)

LEMMA ClientInv ==
  ASSUME IInv, NEW c \in Conns, Client(c)
  PROVE  IInv'
<1>1. TypeOK /\ ConnInv(c)
  BY DEF IInv
<1>2. CASE Dial(c)
  <2>1. /\ client[c] = "none" /\ client' = [client EXCEPT ![c] = "writing"]
        /\ http' = [http EXCEPT ![c] = "reading"] /\ timer' = [timer EXCEPT ![c] = {"read"}]
        /\ UNCHANGED <<main, done, watch, closing, req, reply, whole>>
    BY <1>2 DEF Dial, Move, process
  <2>2. TypeOK'
    BY <1>1, <2>1 DEF TypeOK, Stages
  <2>3. http'[c] = "reading" /\ client'[c] = "writing" /\ req'[c] = NoRequest /\ reply'[c] = "none"
    BY <1>1, <2>1 DEF TypeOK, ConnInv
  <2>4. ConnInv(c)'
    BY <2>3 DEF ConnInv, HijackedStages
  <2> QED
    BY <1>1, <2>1, <2>2, <2>4, OneConnection DEF TypeOK
<1>3. ASSUME NEW q \in Request, Send(c, q)
      PROVE  IInv'
  <2>1. /\ client[c] = "writing" /\ client' = [client EXCEPT ![c] = "waiting"]
        /\ req' = [req EXCEPT ![c] = q]
        /\ UNCHANGED <<main, done, watch, closing, http, timer, reply, whole>>
    BY <1>3 DEF Send, Move, process
  <2>2. TypeOK'
    BY <1>1, <2>1 DEF TypeOK
  <2>3. http'[c] \in {"none", "reading", "closed"} /\ reply'[c] = "none" /\ client'[c] = "waiting"
    BY <1>1, <2>1 DEF TypeOK, ConnInv
  <2>4. ConnInv(c)'
    BY <2>3 DEF ConnInv, HijackedStages
  <2> QED
    BY <1>1, <2>1, <2>2, <2>4, OneConnection DEF TypeOK
<1>4. CASE Connect(c)
  <2>1. \A key \in Keys, token \in Tokens \cup {Absent} : ConnectRequest(key, token) \in Request
    BY DEF ConnectRequest, Request
  <2> QED
    BY <2>1, <1>3, <1>4 DEF Connect
<1>5. CASE OtherRequest(c)
  BY <1>3, <1>5, RequestsAssumption DEF OtherRequest
<1>6. CASE ClientCheck(c)
  <2>1. PICK n \in Cuts :
          /\ client[c] = "waiting" /\ reply[c] # "none"
          /\ client' = [client EXCEPT ![c] = IF Accepts(c, n) THEN "connected" ELSE "refused"]
          /\ whole' = [whole EXCEPT ![c] = n]
          /\ UNCHANGED <<main, done, watch, closing, http, req, timer, reply>>
    BY <1>6 DEF ClientCheck, Move, process
  <2>2. n \in 0..5
    BY CutsAssumption
  <2>3. TypeOK'
    BY <1>1, <2>1, <2>2 DEF TypeOK
  <2>4. /\ http'[c] = http[c] /\ timer'[c] = timer[c] /\ req'[c] = req[c] /\ reply'[c] = reply[c]
        /\ client'[c] \in {"connected", "refused"} /\ whole'[c] = n
        /\ client'[c] = "connected" => reply[c] = "101" /\ n = 5
    BY <1>1, <2>1, <2>2 DEF TypeOK, Accepts
  <2>5. ConnInv(c)'
    BY <1>1, <2>4 DEF ConnInv, Authorized, HijackedStages
  <2> QED
    BY <1>1, <2>1, <2>3, <2>5, OneConnection DEF TypeOK
<1>7. ASSUME NEW to \in {"refused", "gone"}, client[c] # "none", Move(c, to),
             client[c] # "writing" \/ to = "gone",
             UNCHANGED <<process, http, req, timer, reply, whole>>
      PROVE  IInv'
  <2>1. client' = [client EXCEPT ![c] = to]
        /\ UNCHANGED <<main, done, watch, closing, http, req, timer, reply, whole>>
    BY <1>7 DEF Move, process
  <2>2. TypeOK'
    BY <1>1, <2>1 DEF TypeOK
  <2>3. client'[c] = to
    BY <1>1, <2>1 DEF TypeOK
  <2>4. ConnInv(c)'
    BY <1>1, <2>1, <2>3 DEF ConnInv, Authorized, HijackedStages
  <2> QED
    BY <1>1, <2>1, <2>2, <2>4, OneConnection DEF TypeOK
<1>8. CASE ClientEOF(c)
  BY <1>7, <1>8 DEF ClientEOF
<1>9. CASE Leave(c)
  BY <1>7, <1>9 DEF Leave
<1> QED
  BY <1>2, <1>4, <1>5, <1>6, <1>8, <1>9 DEF Client, ClientReads
-----------------------------------------------------------------------------
(* Handlers                                                                *)


LEMMA StageTypes ==
  ASSUME TypeOK, NEW c \in Conns, NEW from, NEW to \in Stages, Stage(c, from, to),
         timer' \in [Conns -> SUBSET {"read", "write"}], reply' \in [Conns -> Statuses]
  PROVE  /\ TypeOK' /\ http[c] = from /\ http'[c] = to
         /\ \A d \in Conns \ {c} : http'[d] = http[d]
         /\ req' = req /\ client' = client /\ whole' = whole
  BY DEF TypeOK, Stage, process, peer

\* A step of a connection that changes neither its timers nor its reply.
LEMMA PlainStage ==
  ASSUME IInv, NEW c \in Conns, NEW from, NEW to \in Stages, Stage(c, from, to),
         UNCHANGED <<timer, reply>>,
         \/ to = "closed" /\ from \in {"reading", "handler", "answered"}
         \/ to = "leaked" /\ from \in {"hijacked", "written", "cleared"}
         \/ to = "tunnel" /\ from = "flushed"
         \/ to = "handler" /\ from = "reading" /\ req[c] # NoRequest
  PROVE  IInv'
<1>1. TypeOK /\ ConnInv(c)
  BY DEF IInv
<1>2. /\ TypeOK' /\ http[c] = from /\ http'[c] = to
      /\ \A d \in Conns \ {c} : http'[d] = http[d]
      /\ req' = req /\ client' = client /\ whole' = whole
  BY <1>1, StageTypes DEF TypeOK
<1>3. ConnInv(c)'
  BY <1>1, <1>2 DEF ConnInv, Authorized, HijackedStages
<1> QED
  BY <1>2, <1>3, OneConnection

\* A step that sets the timers of its connection.
LEMMA TimerStage ==
  ASSUME IInv, NEW c \in Conns, NEW from, NEW to \in Stages, Stage(c, from, to),
         NEW left \in SUBSET {"read", "write"}, timer' = [timer EXCEPT ![c] = left],
         UNCHANGED reply,
         \/ to = "handler" /\ from = "reading" /\ req[c] # NoRequest
         \/ to = "hijacked" /\ from = "handler" /\ Authorized(c)
         \/ to = "written" /\ from = "hijacked" /\ "write" \notin left
         \/ to = "cleared" /\ from = "written" /\ left = {}
  PROVE  IInv'
<1>1. TypeOK /\ ConnInv(c)
  BY DEF IInv
<1>2. timer' \in [Conns -> SUBSET {"read", "write"}] /\ timer'[c] = left
      /\ \A d \in Conns \ {c} : timer'[d] = timer[d]
  BY <1>1 DEF TypeOK
<1>3. /\ TypeOK' /\ http[c] = from /\ http'[c] = to
      /\ \A d \in Conns \ {c} : http'[d] = http[d]
      /\ req' = req /\ client' = client /\ whole' = whole
  BY <1>1, <1>2, StageTypes DEF TypeOK
<1>4. ConnInv(c)'
  BY <1>1, <1>2, <1>3 DEF ConnInv, Authorized, HijackedStages
<1> QED
  BY <1>2, <1>3, <1>4, OneConnection

\* A step that answers.
LEMMA ReplyStage ==
  ASSUME IInv, NEW c \in Conns, NEW from, NEW to \in Stages, Stage(c, from, to),
         NEW status \in Statuses, reply' = [reply EXCEPT ![c] = status], UNCHANGED timer,
         \/ to = "answered" /\ from = "handler" /\ status # "101"
         \/ to = "flushed" /\ from = "cleared" /\ status = "101"
  PROVE  IInv'
<1>1. TypeOK /\ ConnInv(c)
  BY DEF IInv
<1>2. reply' \in [Conns -> Statuses] /\ reply'[c] = status
      /\ \A d \in Conns \ {c} : reply'[d] = reply[d]
  BY <1>1 DEF TypeOK
<1>3. /\ TypeOK' /\ http[c] = from /\ http'[c] = to
      /\ \A d \in Conns \ {c} : http'[d] = http[d]
      /\ req' = req /\ client' = client /\ whole' = whole
  BY <1>1, <1>2, StageTypes DEF TypeOK
<1>4. ConnInv(c)'
  BY <1>1, <1>2, <1>3 DEF ConnInv, Authorized, HijackedStages
<1> QED
  BY <1>2, <1>3, <1>4, OneConnection

LEMMA HandlerInv ==
  ASSUME IInv, NEW c \in Conns, Handler(c)
  PROVE  IInv'
<1>1. TypeOK /\ ConnInv(c)
  BY DEF IInv
<1>2. \A s \in {"handler", "closed", "answered", "hijacked", "leaked", "written", "cleared",
                "flushed", "tunnel"} : s \in Stages
  BY DEF Stages, HijackedStages
<1>3. http[c] = "handler" => req[c] \in Request
  BY <1>1 DEF ConnInv, TypeOK
<1>4. CASE HandlerStarts(c)
  <2>1. timer' = [timer EXCEPT ![c] = {"read", "write"}] /\ UNCHANGED reply
        /\ req[c] # NoRequest /\ Stage(c, "reading", "handler")
    BY <1>4 DEF HandlerStarts
  <2> QED
    BY <2>1, <1>2, TimerStage
<1>5. CASE RequestLost(c)
  BY <1>2, <1>5, PlainStage DEF RequestLost
<1>6. ASSUME NEW status \in Statuses, status # "101", Answer(c, status)
      PROVE  IInv'
  <2>1. CASE Stage(c, "handler", "answered") /\ reply' = [reply EXCEPT ![c] = status] /\ UNCHANGED timer
    BY <2>1, <1>2, <1>6, ReplyStage
  <2>2. CASE Stage(c, "handler", "closed") /\ UNCHANGED <<reply, timer>>
    BY <2>2, <1>2, PlainStage
  <2> QED
    BY <2>1, <2>2, <1>6 DEF Answer
<1>7. CASE Refuse(c)
  BY <1>3, <1>6, <1>7, Verdicts DEF Refuse
<1>8. CASE HijackFails(c)
  <2>1. "500" \in Statuses /\ "500" # "101"
    BY DEF Statuses
  <2> QED
    BY <2>1, <1>6, <1>8 DEF HijackFails
<1>9. CASE Hijack(c)
  <2>1. Authorized(c)
    BY <1>3, <1>9, Verdicts DEF Hijack, Accepted, Authorized
  <2>2. PICK left \in SUBSET timer[c] : timer' = [timer EXCEPT ![c] = left]
    BY <1>9 DEF Hijack
  <2>3. left \in SUBSET {"read", "write"}
    BY <1>1 DEF TypeOK
  <2> QED
    BY <2>1, <2>2, <2>3, <1>2, <1>9, TimerStage DEF Hijack
<1>10. CASE Leak(c)
  BY <1>2, <1>10, PlainStage DEF Leak
<1>11. CASE ClearWrite(c)
  <2>1. timer' = [timer EXCEPT ![c] = timer[c] \ {"write"}]
        /\ timer[c] \ {"write"} \in SUBSET {"read", "write"} /\ "write" \notin timer[c] \ {"write"}
    BY <1>1, <1>11 DEF ClearWrite, TypeOK
  <2> QED
    BY <2>1, <1>2, <1>11, TimerStage DEF ClearWrite
<1>12. CASE ClearRead(c)
  <2>1. timer' = [timer EXCEPT ![c] = timer[c] \ {"read"}] /\ Stage(c, "written", "cleared")
        /\ UNCHANGED reply
    BY <1>12 DEF ClearRead
  <2>2. timer[c] \ {"read"} = {}
    BY <1>1, <2>1 DEF TypeOK, ConnInv, Stage
  <2>3. timer' = [timer EXCEPT ![c] = {}] /\ {} \in SUBSET {"read", "write"}
    BY <2>1, <2>2
  <2> QED
    BY <2>1, <2>3, <1>2, TimerStage
<1>13. CASE Flush(c)
  <2>1. "101" \in Statuses
    BY DEF Statuses
  <2> QED
    BY <2>1, <1>2, <1>13, ReplyStage DEF Flush
<1>14. CASE StartTunnel(c)
  BY <1>2, <1>14, PlainStage DEF StartTunnel
<1> QED
  BY <1>4, <1>5, <1>7, <1>8, <1>9, <1>10, <1>11, <1>12, <1>13, <1>14 DEF Handler

\* Shutdown closes a connection that waits for a request or was answered.
LEMMA CloseIdleInv ==
  ASSUME IInv, NEW c \in Conns, CloseIdle(c)
  PROVE  IInv'
<1>1. /\ http[c] \in {"reading", "answered"} /\ http' = [http EXCEPT ![c] = "closed"]
      /\ UNCHANGED <<main, done, watch, closing, req, timer, reply, client, whole>>
  BY DEF CloseIdle, process, peer
<1>2. TypeOK /\ ConnInv(c)
  BY DEF IInv
<1>3. TypeOK' /\ http'[c] = "closed"
  BY <1>1, <1>2 DEF TypeOK, Stages
<1>4. ConnInv(c)'
  BY <1>1, <1>2, <1>3 DEF ConnInv, Authorized, HijackedStages
<1> QED
  BY <1>1, <1>2, <1>3, <1>4, OneConnection DEF TypeOK

\* No deadline is left on a tunnel: what one ends is the reading of a request.
LEMMA Expires ==
  ASSUME IInv, NEW c \in Conns, Expire(c)
  PROVE  Stage(c, "reading", "closed") /\ UNCHANGED <<timer, reply>>
<1>1. ConnInv(c)
  BY DEF IInv
<1>2. http[c] # "tunnel"
  BY <1>1 DEF ConnInv, Expire
<1> QED
  BY <1>2 DEF Expire

LEMMA ExpireInv ==
  ASSUME IInv, NEW c \in Conns, Expire(c)
  PROVE  IInv'
<1>1. "closed" \in Stages
  BY DEF Stages
<1> QED
  BY <1>1, Expires, PlainStage

LEMMA StepInv == IInv /\ [Next]_vars => IInv'
<1> SUFFICES ASSUME IInv, [Next]_vars PROVE IInv'
  OBVIOUS
<1>1. CASE Main
  BY <1>1, ProcessInv, ExitInv DEF Main
<1>2. CASE Watcher
  BY <1>2, ProcessInv, CloseIdleInv DEF Watcher
<1>3. CASE Interrupt
  BY <1>3, ProcessInv
<1>4. CASE \E c \in Conns : Client(c) \/ Handler(c) \/ Expire(c)
  BY <1>4, ClientInv, HandlerInv, ExpireInv
<1>5. CASE UNCHANGED vars
  <2>1. UNCHANGED <<main, done, watch, closing, http, req, timer, reply, client, whole>>
    BY <1>5 DEF vars, process, peer
  <2>2. TypeOK'
    BY <2>1 DEF IInv, TypeOK
  <2>3. \A c \in Conns : ConnInv(c)'
    BY <2>1, Untouched DEF IInv
  <2> QED
    BY <2>2, <2>3 DEF IInv
<1> QED
  BY <1>1, <1>2, <1>3, <1>4, <1>5 DEF Next
-----------------------------------------------------------------------------
(* Theorems                                                                *)

\* What is known of every connection, in every state.
THEOREM Inductive == Spec => []IInv
  BY InitIInv, StepInv, PTL DEF Spec

\* Types of the server's and the clients' state.
THEOREM TypeCorrect == Spec => []TypeOK
<1>1. IInv => TypeOK
  BY DEF IInv
<1> QED
  BY <1>1, Inductive, PTL

\* For any number of clients, a client that believes in its tunnel asked with
\* the token, read the whole reply, and the server did what it says
\* (websocket.go:13-69, connect.go:174-210).
THEOREM AgreementHolds == Spec => []Agreement
<1>1. IInv => Agreement
  BY DEF IInv, ConnInv, Agreement
<1> QED
  BY <1>1, Inductive, PTL

\* No connection leaves net/http, and no 101 is written, without the token.
THEOREM OnlyAuthorizedHolds == Spec => []OnlyAuthorized
<1>1. IInv => OnlyAuthorized
  BY DEF IInv, ConnInv, OnlyAuthorized
<1> QED
  BY <1>1, Inductive, PTL

\* A tunnel ends with the process and not by a timer of net/http: both
\* deadlines are cleared before the response goes out (websocket.go:44-60).
THEOREM TunnelStaysHolds == Spec => TunnelStays
<1>1. ASSUME IInv, [Next]_vars
      PROVE  [\A c \in Conns : http[c] = "tunnel" /\ http'[c] # "tunnel" => main = "exit"]_vars
  <2> SUFFICES ASSUME Next, NEW c \in Conns, http[c] = "tunnel", http'[c] # "tunnel"
               PROVE  main = "exit"
    BY <1>1
  <2>1. CASE Main
    BY <2>1 DEF Main, Start, Listen, ServeEnds, Exit
  <2>2. CASE Interrupt
    BY <2>2 DEF Interrupt
  <2>3. CASE Shutdown \/ ShutdownEnds
    BY <2>3 DEF Shutdown, ShutdownEnds
  <2>4. CASE \E d \in Conns : CloseIdle(d)
    <3>1. PICK d \in Conns : CloseIdle(d)
      BY <2>4
    <3> QED
      BY <3>1, <1>1 DEF CloseIdle, IInv, TypeOK
  <2>5. CASE \E d \in Conns : Client(d)
    <3>1. PICK d \in Conns : Client(d)
      BY <2>5
    <3>2. CASE Dial(d)
      <4>1. client[d] = "none" /\ http' = [http EXCEPT ![d] = "reading"] /\ ConnInv(d)
        BY <3>2, <1>1 DEF Dial, IInv
      <4>2. http[d] # "tunnel"
        BY <4>1 DEF ConnInv
      <4> QED
        BY <4>1, <4>2, <1>1 DEF IInv, TypeOK
    <3>3. CASE Connect(d) \/ OtherRequest(d) \/ ClientReads(d) \/ Leave(d)
      BY <3>3 DEF Connect, OtherRequest, Send, ClientReads, ClientCheck, ClientEOF, Leave
    <3> QED
      BY <3>1, <3>2, <3>3 DEF Client
  <2>6. CASE \E d \in Conns : Handler(d)
    <3>1. PICK d \in Conns : Handler(d)
      BY <2>6
    <3>2. PICK from \in Stages \ {"tunnel"}, to \in Stages : Stage(d, from, to)
      <4>1. \A s \in {"reading", "handler", "answered", "closed", "leaked"} \cup HijackedStages :
              s \in Stages \ {"tunnel"}
        BY DEF Stages, HijackedStages
      <4>2. "tunnel" \in Stages /\ \A s \in {"hijacked", "written", "cleared", "flushed"} : s \in HijackedStages
        BY DEF Stages, HijackedStages
      <4> QED
        BY <3>1, <4>1, <4>2 DEF Handler, HandlerStarts, RequestLost, Refuse, HijackFails, Answer,
             Hijack, Leak, ClearWrite, ClearRead, Flush, StartTunnel
    <3> QED
      BY <3>2, <1>1 DEF Stage, IInv, TypeOK
  <2>7. CASE \E d \in Conns : Expire(d)
    <3>1. PICK d \in Conns : Expire(d)
      BY <2>7
    <3>2. Stage(d, "reading", "closed")
      BY <3>1, <1>1, Expires
    <3> QED
      BY <3>2, <1>1 DEF Stage, IInv, TypeOK
  <2> QED
    BY <2>1, <2>2, <2>3, <2>4, <2>5, <2>6, <2>7 DEF Next, Watcher
<1> QED
  BY <1>1, Inductive, PTL DEF Spec, TunnelStays
=============================================================================
