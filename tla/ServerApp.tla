------------------------------ MODULE ServerApp -----------------------------
(***************************************************************************)
(* The server process and the way to a tunnel: RunServer of                *)
(* cmd/server/main.go, internal/server/server.go and handler.go, the       *)
(* websocket handshake of internal/server/websocket.go, and the client's   *)
(* side of it in wsok/connect.go.                                          *)
(*                                                                         *)
(* The main goroutine is in ListenAndServe; a second one waits for the     *)
(* context and calls Shutdown; net/http runs a handler per connection.     *)
(* Shutdown makes ListenAndServe return at once, so that the process is    *)
(* gone while handlers still run.  A connection carries one request.       *)
(*                                                                         *)
(* net/http is external: a request reaches a handler when it is whole,     *)
(* timers are set on its connection, and a hijacked connection may still   *)
(* have them.                                                              *)
(***************************************************************************)
EXTENDS Integers

CONSTANTS
  Conns,     \* TCP connections to the server
  Keys,      \* values of the key header
  Tokens,    \* values of the token, behind "Bearer " or not
  AuthToken, \* s.Config.AuthToken
  Absent,    \* a header that is missing or empty
  NoRequest, \* no request was sent
  Requests,  \* requests that other programs than wsok's client send
  Cuts       \* numbers of whole lines a client may have read of a reply

ASSUME AbsentAssumption == Absent \notin Keys \cup Tokens
\* Config.Valid refuses an empty token.
ASSUME AuthTokenAssumption == AuthToken \in Tokens

Request == [stream : BOOLEAN, upgrade : BOOLEAN,
            key : Keys \cup {Absent}, token : Tokens \cup {Absent}]
ASSUME RequestsAssumption == Requests \subseteq Request /\ NoRequest \notin Request
ASSUME CutsAssumption == 5 \in Cuts /\ Cuts \subseteq 0..5

VARIABLES
  main,    \* RunServer: "down", "init", "serve" (in ListenAndServe), "exit"
  done,    \* the context of NewContext is cancelled
  watch,   \* watchContextAndShutdown: "none", "wait", "shut", "end"
  closing, \* http.Server: Shutdown was called
  http,    \* http[c]: the server's side of a connection
  req,     \* req[c]: the request that was sent, or NoRequest
  timer,   \* timer[c]: deadlines that are set on the connection
  reply,   \* reply[c]: what the client can read: "none", a status, or "101"
  client,  \* client[c]: the client's side
  whole    \* whole[c]: lines of the reply that the client had read in its check

process == <<main, done, watch, closing>>
peer == <<client, whole>>
vars == <<process, http, req, timer, reply, peer>>

HijackedStages == {"hijacked", "written", "cleared", "flushed"}
Stages == {"none", "reading", "handler", "answered", "closed", "leaked", "tunnel", "stuck"}
          \cup HijackedStages
Statuses == {"none", "page", "400", "401", "500", "101"}

TypeOK ==
  /\ main \in {"down", "init", "serve", "exit"}
  /\ done \in BOOLEAN /\ closing \in BOOLEAN
  /\ watch \in {"none", "wait", "shut", "end"}
  /\ http \in [Conns -> Stages]
  /\ req \in [Conns -> Request \cup {NoRequest}]
  /\ timer \in [Conns -> SUBSET {"read", "write"}]
  /\ reply \in [Conns -> Statuses]
  /\ client \in [Conns -> {"none", "writing", "waiting", "connected", "refused", "gone"}]
  /\ whole \in [Conns -> 0..5]

Init ==
  /\ main = "down" /\ done = FALSE /\ watch = "none" /\ closing = FALSE
  /\ http = [c \in Conns |-> "none"]
  /\ req = [c \in Conns |-> NoRequest]
  /\ timer = [c \in Conns |-> {}]
  /\ reply = [c \in Conns |-> "none"]
  /\ client = [c \in Conns |-> "none"]
  /\ whole = [c \in Conns |-> 0]
-----------------------------------------------------------------------------
(* RunServer, listenAndServe and the watcher                               *)

\* Mutant of Start: the watcher is started behind ListenAndServe.
StartWatchLate ==
  /\ main = "down"
  /\ main' = "init" /\ watch' = "none"
  /\ done' = FALSE /\ closing' = FALSE
  /\ UNCHANGED <<http, req, timer, reply, peer>>

\* The configuration is loaded and valid, the log file is open, and Run gets to
\* `go s.watchContextAndShutdown`.  (An error before ends the process.)
Start ==
  /\ main = "down"
  /\ main' = "init" /\ watch' = "wait"
  /\ done' = FALSE /\ closing' = FALSE
  /\ UNCHANGED <<http, req, timer, reply, peer>>

\* ListenAndServe: it does not start behind a Shutdown; or the port is taken.
Listen ==
  /\ main = "init"
  /\ \/ ~closing /\ main' = "serve"
     \/ main' = "exit"
  /\ UNCHANGED <<done, watch, closing, http, req, timer, reply, peer>>

\* ListenAndServe returns http.ErrServerClosed.
ServeEnds ==
  /\ main = "serve" /\ closing
  /\ main' = "exit"
  /\ UNCHANGED <<done, watch, closing, http, req, timer, reply, peer>>

\* RunServer returns: the process is gone, with its goroutines and sockets.
Exit ==
  /\ main = "exit"
  /\ main' = "down" /\ watch' = "none"
  /\ http' = [c \in Conns |-> IF http[c] = "none" THEN "none" ELSE "closed"]
  /\ UNCHANGED <<done, closing, req, timer, reply, peer>>

\* SIGINT.
Interrupt ==
  /\ main # "down" /\ ~done
  /\ done' = TRUE
  /\ UNCHANGED <<main, watch, closing, http, req, timer, reply, peer>>

\* `<-ctx.Done()`, and Shutdown up to where it waits: listeners are closed.
Shutdown ==
  /\ watch = "wait" /\ done
  /\ watch' = "shut" /\ closing' = TRUE
  /\ UNCHANGED <<main, done, http, req, timer, reply, peer>>

\* Shutdown closes a connection that has no request in work.
CloseIdle(c) ==
  /\ watch = "shut"
  /\ http[c] \in {"reading", "answered"}
  /\ http' = [http EXCEPT ![c] = "closed"]
  /\ UNCHANGED <<process, req, timer, reply, peer>>

\* Shutdown returns: nothing is in work any more, or two seconds are over.
ShutdownEnds ==
  /\ watch = "shut"
  /\ watch' = "end"
  /\ UNCHANGED <<main, done, closing, http, req, timer, reply, peer>>
-----------------------------------------------------------------------------
(* Clients                                                                 *)

Move(c, to) == client' = [client EXCEPT ![c] = to]

\* The connection is established and net/http waits for a request.
Dial(c) ==
  /\ main = "serve" /\ ~closing
  /\ client[c] = "none"
  /\ Move(c, "writing")
  /\ http' = [http EXCEPT ![c] = "reading"]
  /\ timer' = [timer EXCEPT ![c] = {"read"}]
  /\ UNCHANGED <<process, req, reply, whole>>

\* What WriteConnectRequest writes: writeHeader leaves out empty values, and
\* makeAuthHeader the token when there is none.  A ConnectConfig has a key.
ConnectRequest(key, token) ==
  [stream |-> TRUE, upgrade |-> TRUE, key |-> key, token |-> token]

\* The last piece of a request is written.
Send(c, q) ==
  /\ client[c] = "writing"
  /\ Move(c, "waiting")
  /\ req' = [req EXCEPT ![c] = q]
  /\ UNCHANGED <<process, http, timer, reply, whole>>

Connect(c) == \E key \in Keys, token \in Tokens \cup {Absent} :
                Send(c, ConnectRequest(key, token))

OtherRequest(c) == \E q \in Requests : Send(c, q)

\* CheckConnectResponse of the first n lines of a reply, whether or not a part
\* of the next line is there: Split gives n + 1 pieces, and six are wanted.
Accepts(c, n) == reply[c] = "101" /\ n + 1 = 6

\* Mutant of ClientCheck: the number of lines is not compared.
ClientCheckLoose(c) ==
  /\ client[c] = "waiting" /\ reply[c] # "none"
  /\ \E n \in Cuts :
       /\ Move(c, IF reply[c] # "401" THEN "connected" ELSE "refused")
       /\ whole' = [whole EXCEPT ![c] = n]
  /\ UNCHANGED <<process, http, req, timer, reply>>

\* The client checks what it has read of the reply; the network may have cut it.
ClientCheck(c) ==
  /\ client[c] = "waiting" /\ reply[c] # "none"
  /\ \E n \in Cuts :
       /\ Move(c, IF Accepts(c, n) THEN "connected" ELSE "refused")
       /\ whole' = [whole EXCEPT ![c] = n]
  /\ UNCHANGED <<process, http, req, timer, reply>>

\* The connection ends before there is a reply.
ClientEOF(c) ==
  /\ client[c] = "waiting" /\ reply[c] = "none" /\ http[c] = "closed"
  /\ Move(c, "refused")
  /\ UNCHANGED <<process, http, req, timer, reply, whole>>

\* The client goes away, perhaps in the middle of its request.
Leave(c) ==
  /\ client[c] \in {"writing", "waiting", "connected"}
  /\ Move(c, "gone")
  /\ UNCHANGED <<process, http, req, timer, reply, whole>>
-----------------------------------------------------------------------------
(* net/http and handleWebsocket, on a connection                           *)

Running == main \in {"serve", "exit"}

Stage(c, from, to) ==
  /\ Running
  /\ http[c] = from
  /\ http' = [http EXCEPT ![c] = to]
  /\ UNCHANGED <<process, req, peer>>

\* The request is whole: ServeHTTP runs.
HandlerStarts(c) ==
  /\ req[c] # NoRequest
  /\ Stage(c, "reading", "handler")
  /\ timer' = [timer EXCEPT ![c] = {"read", "write"}]
  /\ UNCHANGED reply

\* The request was cut.
RequestLost(c) ==
  /\ Stage(c, "reading", "closed")
  /\ UNCHANGED <<timer, reply>>

\* Mutant of Verdict: another path has a status of its own.
VerdictNotFound(q) == IF ~q.stream THEN "404" ELSE "101"

\* The routes of setupRoutes, and the checks at the top of handleWebsocket.
Verdict(q) ==
  IF ~q.stream THEN "page"
  ELSE IF ~q.upgrade \/ q.key = Absent THEN "400"
  ELSE IF q.token = Absent \/ q.token # AuthToken THEN "401"
  ELSE "101"

\* WriteHeader, or a page; the client gets it unless the timer for writing has
\* fired.
Answer(c, status) ==
  \/ /\ Stage(c, "handler", "answered")
     /\ reply' = [reply EXCEPT ![c] = status]
     /\ UNCHANGED timer
  \/ Stage(c, "handler", "closed") /\ UNCHANGED <<reply, timer>>

Refuse(c) == http[c] = "handler" /\ Verdict(req[c]) # "101" /\ Answer(c, Verdict(req[c]))

Accepted(c) == http[c] = "handler" /\ Verdict(req[c]) = "101"

\* The writer is no Hijacker, or Hijack fails.
HijackFails(c) == Accepted(c) /\ Answer(c, "500")

\* The connection leaves net/http; its timers may be cleared or not.
Hijack(c) ==
  /\ Accepted(c)
  /\ Stage(c, "handler", "hijacked")
  /\ \E left \in SUBSET timer[c] : timer' = [timer EXCEPT ![c] = left]
  /\ UNCHANGED reply

\* An error behind Hijack: the handler returns and nobody closes the connection.
Leak(c) ==
  /\ \E from \in {"hijacked", "written", "cleared"} :
       Stage(c, from, "leaked") /\ (from = "cleared" => client[c] = "gone")
  /\ UNCHANGED <<timer, reply>>

ClearWrite(c) ==
  /\ Stage(c, "hijacked", "written")
  /\ timer' = [timer EXCEPT ![c] = @ \ {"write"}]
  /\ UNCHANGED reply

\* Mutant of ClearRead: the deadline for reading stays.
ClearReadForgotten(c) ==
  /\ Stage(c, "written", "cleared")
  /\ UNCHANGED <<reply, timer>>

ClearRead(c) ==
  /\ Stage(c, "written", "cleared")
  /\ timer' = [timer EXCEPT ![c] = @ \ {"read"}]
  /\ UNCHANGED reply

\* Mutant of Flush: the response stays in the buffer.
FlushForgotten(c) ==
  /\ Stage(c, "cleared", "flushed")
  /\ UNCHANGED <<reply, timer>>

\* The response goes out in one Flush.
Flush(c) ==
  /\ Stage(c, "cleared", "flushed")
  /\ reply' = [reply EXCEPT ![c] = "101"]
  /\ UNCHANGED timer

\* go serveTunnel.
StartTunnel(c) ==
  /\ Stage(c, "flushed", "tunnel")
  /\ UNCHANGED <<timer, reply>>

\* A deadline on a connection passes: net/http closes one whose request it is
\* reading; in a tunnel every read fails from now on, and serveIncomingFrames,
\* which ends at io.EOF only, logs errors.
Expire(c) ==
  /\ timer[c] # {} /\ http[c] \in {"reading", "tunnel"}
  /\ Stage(c, http[c], IF http[c] = "tunnel" THEN "stuck" ELSE "closed")
  /\ UNCHANGED <<timer, reply>>
-----------------------------------------------------------------------------
Main == Start \/ Listen \/ ServeEnds \/ Exit
Watcher == Shutdown \/ ShutdownEnds \/ \E c \in Conns : CloseIdle(c)

Handler(c) ==
  HandlerStarts(c) \/ RequestLost(c) \/ Refuse(c) \/ HijackFails(c) \/ Hijack(c)
  \/ Leak(c) \/ ClearWrite(c) \/ ClearRead(c) \/ Flush(c) \/ StartTunnel(c)

ClientReads(c) == ClientCheck(c) \/ ClientEOF(c)

Client(c) == Dial(c) \/ Connect(c) \/ OtherRequest(c) \/ ClientReads(c) \/ Leave(c)

Next ==
  \/ Main \/ Watcher \/ Interrupt
  \/ \E c \in Conns : Client(c) \/ Handler(c) \/ Expire(c)

(* Go runs each goroutine, and a client that waits reads what arrives.      *)
(* Nothing starts or interrupts the server, and no client must dial or send. *)
Spec ==
  /\ Init /\ [][Next]_vars
  /\ WF_vars(Listen \/ ServeEnds \/ Exit) /\ WF_vars(Shutdown)
  /\ \A c \in Conns : WF_vars(Handler(c)) /\ WF_vars(ClientReads(c))
-----------------------------------------------------------------------------
(* Properties                                                              *)

Authorized(c) == req[c].stream /\ req[c].upgrade /\ req[c].key # Absent
                 /\ req[c].token = AuthToken

\* The two sides agree: a client that believes it is connected asked with a key
\* and the token, has read the whole reply to it, and its connection is the
\* tunnel's, or is about to be, until the server exits.  Pages, refusals, cut
\* replies and a server that exits in between make no client believe so
\* (websocket.go:13-69, connect.go:174-210).
Agreement ==
  \A c \in Conns : client[c] = "connected" =>
    /\ Authorized(c) /\ reply[c] = "101" /\ whole[c] = 5
    /\ http[c] \in {"flushed", "tunnel", "closed"}

\* A connection leaves net/http for a tunnel only with the token and a key
\* (websocket.go:13-30), and a page or a refusal is never taken for a tunnel.
OnlyAuthorized ==
  \A c \in Conns : (http[c] \in HijackedStages \cup {"tunnel", "leaked"} \/ reply[c] = "101")
                     => Authorized(c)

\* Once a client is connected, nothing but its own leave or the exit of the
\* process takes the tunnel from it: no timer that net/http set for a short
\* request reaches into the tunnel (server.go:38-42, websocket.go:44-51).
TunnelStays ==
  [][\A c \in Conns : http[c] = "tunnel" /\ http'[c] # "tunnel" => main = "exit"]_vars

\* Every client that has sent its request learns how it went, also when the
\* server shuts down or exits meanwhile; but for an error behind Hijack, which
\* leaves it waiting (websocket.go:44-60).
Answered ==
  \A c \in Conns : client[c] = "waiting" ~> (client[c] # "waiting" \/ http[c] = "leaked")

\* An interrupt ends the process, whether it comes before ListenAndServe, in it,
\* or while requests are in work (server.go:47-75).
Stops == done ~> main = "down"
=============================================================================
