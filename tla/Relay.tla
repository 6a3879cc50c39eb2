------------------------------- MODULE Relay -------------------------------
(***************************************************************************)
(* One connection of the client's local server: handleConnection and       *)
(* relayData of internal/client/server.go, with the Sockets of direct.go   *)
(* and proxy.go.                                                           *)
(*                                                                         *)
(* The handler picks a backend (a TCP connection to the destination, or a  *)
(* dump file) and runs two io.Copy loops: a new goroutine copies client to *)
(* backend and closes the backend when it ends, the handler itself copies  *)
(* backend to client and then closes both.  Data is counted in pieces, one *)
(* per Read; io.Copy never reorders or drops a piece it has read.          *)
(***************************************************************************)
EXTENDS Integers

CONSTANTS
  Routes,    \* actions the router may answer
  MaxUp,     \* bound: pieces the client sends
  MaxDown    \* bound: pieces the destination sends

ASSUME RoutesAssumption == Routes \subseteq {"direct", "auto", "proxy", "block"}
ASSUME MaxAssumption == MaxUp \in Nat /\ MaxDown \in Nat

VARIABLES
  route,     \* answer of router.Lookup, "none" before
  main,      \* handleConnection: "start", "dial", then the io.Copy at "read"
             \* or "write", and "done" after its deferred calls
  up,        \* the goroutine's io.Copy: "none", "read", "write", "done"
  in,        \* c.in: "open", "closed"
  out,       \* the backend Socket: "none", "open", "closed"
  cSent, cFin, cGone,   \* client: pieces sent, write side shut, reset or gone
  tSent, tFin,          \* destination: pieces sent, write side shut
  broken,    \* the backend fails: a reset, or an error of the dump file
  upRead, upWritten,    \* pieces the goroutine read and wrote
  downRead, downWritten \* pieces the handler read and wrote

peer == <<cSent, cFin, cGone, tSent, tFin, broken>>
ups == <<upRead, upWritten>>
downs == <<downRead, downWritten>>
vars == <<route, main, up, in, out, peer, ups, downs>>

TypeOK ==
  /\ route \in Routes \cup {"none"}
  /\ main \in {"start", "dial", "read", "write", "done"}
  /\ up \in {"none", "read", "write", "done"}
  /\ in \in {"open", "closed"} /\ out \in {"none", "open", "closed"}
  /\ cSent \in 0..MaxUp /\ tSent \in 0..MaxDown
  /\ cFin \in BOOLEAN /\ cGone \in BOOLEAN /\ tFin \in BOOLEAN /\ broken \in BOOLEAN
  /\ upRead \in 0..cSent /\ upWritten \in 0..upRead
  /\ downRead \in 0..tSent /\ downWritten \in 0..downRead

Init ==
  /\ route = "none" /\ main = "start" /\ up = "none"
  /\ in = "open" /\ out = "none"
  /\ cSent = 0 /\ cFin = FALSE /\ cGone = FALSE
  /\ tSent = 0 /\ tFin = FALSE /\ broken = FALSE
  /\ upRead = 0 /\ upWritten = 0 /\ downRead = 0 /\ downWritten = 0
-----------------------------------------------------------------------------
(* The two peers                                                           *)

\* The backend is a TCP connection that was established.
Dialed == route \in {"direct", "auto"} /\ out # "none"

ClientSend ==
  /\ ~cFin /\ ~cGone /\ cSent < MaxUp
  /\ cSent' = cSent + 1
  /\ UNCHANGED <<route, main, up, in, out, cFin, cGone, tSent, tFin, broken, ups, downs>>

\* The client shuts its write side and goes on reading.
ClientFin ==
  /\ ~cFin /\ ~cGone
  /\ cFin' = TRUE
  /\ UNCHANGED <<route, main, up, in, out, cSent, cGone, tSent, tFin, broken, ups, downs>>

\* The client resets the connection, or exits.
ClientGone ==
  /\ ~cGone
  /\ cGone' = TRUE
  /\ UNCHANGED <<route, main, up, in, out, cSent, cFin, tSent, tFin, broken, ups, downs>>

TargetSend ==
  /\ Dialed /\ ~tFin /\ ~broken /\ tSent < MaxDown
  /\ tSent' = tSent + 1
  /\ UNCHANGED <<route, main, up, in, out, cSent, cFin, cGone, tFin, broken, ups, downs>>

TargetFin ==
  /\ Dialed /\ ~tFin /\ ~broken
  /\ tFin' = TRUE
  /\ UNCHANGED <<route, main, up, in, out, cSent, cFin, cGone, tSent, broken, ups, downs>>

BackendBreaks ==
  /\ out = "open" /\ ~broken
  /\ broken' = TRUE
  /\ UNCHANGED <<route, main, up, in, out, cSent, cFin, cGone, tSent, tFin, ups, downs>>
-----------------------------------------------------------------------------
(* handleConnection up to relayData                                        *)

\* return: the deferred out.Close, if it was reached, and c.in.Close run.
Return ==
  /\ main' = "done"
  /\ in' = "closed"
  /\ out' = IF out = "open" THEN "closed" ELSE out

\* relayData starts: the goroutine is created, the handler copies.
StartRelay == main' = "read" /\ up' = "read" /\ out' = "open"

\* getOriginalDestination fails.
NoDestination ==
  /\ main = "start"
  /\ Return
  /\ UNCHANGED <<route, up, peer, ups, downs>>

\* The router's answer: dial, open the dump file (or fail to), or give up.
Lookup(act) ==
  /\ main = "start"
  /\ route' = act
  /\ \/ act \in {"direct", "auto"} /\ main' = "dial" /\ UNCHANGED <<up, in, out>>
     \/ act = "proxy" /\ StartRelay /\ UNCHANGED in
     \/ act \in {"proxy", "block"} /\ Return /\ UNCHANGED up
  /\ UNCHANGED <<peer, ups, downs>>

Dial ==
  /\ main = "dial"
  /\ \/ StartRelay /\ UNCHANGED in
     \/ Return /\ UNCHANGED up
  /\ UNCHANGED <<route, peer, ups, downs>>
-----------------------------------------------------------------------------
(* The goroutine: io.Copy(backend, client), then backend.Close()           *)

UpRead ==
  /\ up = "read" /\ in = "open" /\ upRead < cSent
  /\ upRead' = upRead + 1
  /\ up' = "write"
  /\ UNCHANGED <<route, main, in, out, peer, upWritten, downs>>

\* Mutant of UpWrite: the loop writes again without reading.
UpWriteRepeats ==
  /\ up = "write" /\ out = "open" /\ ~broken
  /\ upWritten' = upWritten + 1
  /\ UNCHANGED <<route, main, up, in, out, peer, upRead, downs>>

UpWrite ==
  /\ up = "write" /\ out = "open" /\ ~broken
  /\ upWritten' = upWritten + 1
  /\ up' = "read"
  /\ UNCHANGED <<route, main, in, out, peer, upRead, downs>>

\* Mutant of UpEnd: the goroutine gives up as soon as the client has shut its
\* write side, without draining what arrived before.
UpEndEarly ==
  /\ \/ up = "read" /\ (in = "closed" \/ cGone \/ cFin)
     \/ up = "write" /\ (out = "closed" \/ broken)
  /\ up' = "done"
  /\ out' = "closed"
  /\ UNCHANGED <<route, main, in, peer, ups, downs>>

\* Mutant of UpEnd: backend.Close() is forgotten.
UpEndKeepsBackend ==
  /\ \/ up = "read" /\ (in = "closed" \/ cGone \/ (cFin /\ upRead = cSent))
     \/ up = "write" /\ (out = "closed" \/ broken)
  /\ up' = "done"
  /\ UNCHANGED <<route, main, in, out, peer, ups, downs>>

\* EOF after the last piece, a read error, or a write error.
UpEnd ==
  /\ \/ up = "read" /\ (in = "closed" \/ cGone \/ (cFin /\ upRead = cSent))
     \/ up = "write" /\ (out = "closed" \/ broken)
  /\ up' = "done"
  /\ out' = "closed"
  /\ UNCHANGED <<route, main, in, peer, ups, downs>>
-----------------------------------------------------------------------------
(* The handler: io.Copy(client, backend), then the deferred calls          *)

\* FileConn.Read returns (0, nil) for ever, so that only a TCP backend gets
\* past "read".
DownRead ==
  /\ main = "read" /\ Dialed /\ out = "open" /\ downRead < tSent
  /\ downRead' = downRead + 1
  /\ main' = "write"
  /\ UNCHANGED <<route, up, in, out, peer, ups, downWritten>>

DownWrite ==
  /\ main = "write" /\ ~cGone
  /\ downWritten' = downWritten + 1
  /\ main' = "read"
  /\ UNCHANGED <<route, up, in, out, peer, ups, downRead>>

\* Mutant of DownEnd: the handler returns when the destination has shut its
\* write side, whatever is still to be read.
DownEndEarly ==
  /\ \/ main = "read" /\ Dialed /\ (out = "closed" \/ broken \/ tFin)
     \/ main = "write" /\ cGone
  /\ Return
  /\ UNCHANGED <<route, up, peer, ups, downs>>

\* Mutant of DownEnd: an error of Read that is not EOF is retried.
DownEndOnEOFOnly ==
  /\ \/ main = "read" /\ Dialed /\ ~broken /\ out = "open" /\ tFin /\ downRead = tSent
     \/ main = "write" /\ cGone
  /\ Return
  /\ UNCHANGED <<route, up, peer, ups, downs>>

\* EOF after the last piece, a read error (also because the goroutine closed
\* the backend), or a write error.
DownEnd ==
  /\ \/ /\ main = "read" /\ Dialed
        /\ out = "closed" \/ broken \/ (tFin /\ downRead = tSent)
     \/ main = "write" /\ cGone
  /\ Return
  /\ UNCHANGED <<route, up, peer, ups, downs>>
-----------------------------------------------------------------------------
Peers == ClientSend \/ ClientFin \/ ClientGone \/ TargetSend \/ TargetFin \/ BackendBreaks
Setup == NoDestination \/ (\E act \in Routes : Lookup(act)) \/ Dial
Up == UpRead \/ UpWrite \/ UpEnd
Down == DownRead \/ DownWrite \/ DownEnd

Next == Peers \/ Setup \/ Up \/ Down

(* Both loops run; the client and the destination keep reading, or go away, *)
(* so that a Write returns.  Nothing makes them send or close.              *)
Spec == Init /\ [][Next]_vars /\ WF_vars(Setup) /\ WF_vars(Up) /\ WF_vars(Down)
-----------------------------------------------------------------------------
(* Properties                                                              *)

\* The goroutine ends with everything the client sent written to the backend,
\* unless an end of the connection failed or the destination shut its side
\* first (server.go:37-40): no close overtakes data.
UploadWhole ==
  up = "done" /\ ~cGone /\ ~tFin /\ ~broken => cFin /\ upWritten = cSent

\* The handler returns, closing both sockets, with everything the destination
\* sent written to the client, unless an end of the connection failed or the
\* client shut its side first (server.go:41, 198-202).
DownloadWhole ==
  main = "done" /\ up # "none" /\ ~cGone /\ ~cFin /\ ~broken =>
    tFin /\ downWritten = tSent

\* Both loops have ended and both sockets are closed.
Released == main = "done" /\ up \in {"none", "done"} /\ in = "closed" /\ out # "open"

\* Once either side of a dialled connection ends, in whatever way, both loops
\* end and both sockets are closed: no goroutine and no descriptor is left
\* behind (server.go:36-42, 156, 198).
Releases == (Dialed /\ (cFin \/ cGone \/ tFin \/ broken)) ~> Released

\* server.go:205: a Socket is "a two-way full duplex connection": a client that
\* has only shut its write side still gets all of the answer.
FullDuplex ==
  main = "done" /\ up # "none" /\ ~cGone /\ ~broken => tFin /\ downWritten = tSent
=============================================================================
