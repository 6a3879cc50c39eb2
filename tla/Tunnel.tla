------------------------------- MODULE Tunnel -------------------------------
(***************************************************************************)
(* The server's end of one tunnel: internal/server/tunnel.go and conn.go.  *)
(*                                                                         *)
(* One goroutine (serveIncomingFrames) reads packets from the client and   *)
(* dispatches them by connection id.  Each connection has a goroutine that *)
(* dials the target (serveConn), one that drains the buffered channel c.in *)
(* into the target (serveIncomingPackets) and one that reads what the      *)
(* target sends (serveRemoteReads).  All of them interleave freely.        *)
(*                                                                         *)
(* A data packet is represented by its number: the client numbers the data *)
(* packets of a connection id 1, 2, 3, ...  Number 0 means "no packet".    *)
(* c.done and t.done are never closed by the code, so the select branch on *)
(* c.done is never taken, and dropConn, which nobody calls, has no action. *)
(* A panic of the reader (an allocation in FrameStream, an IPv6 Hello in    *)
(* Packet) ends the whole process and is not repeated here.                *)
(***************************************************************************)
EXTENDS Integers, Sequences

CONSTANTS
  ConnIds,      \* connection ids
  Targets,      \* addresses a Hello may name
  InCap,        \* capacity of c.in (64 in the code)
  MaxData,      \* bound: data packets the client sends per connection id
  StallTargets, \* ids whose target may stop reading for ever (environment)
  Closable,     \* bound: ids for which the client sends Close
  NoTarget      \* target of an id whose Hello was not read yet

ASSUME InCapAssumption == InCap \in Nat \ {0}
ASSUME MaxDataAssumption == MaxData \in Nat
ASSUME StallAssumption == StallTargets \subseteq ConnIds

VARIABLES
  rd,       \* serveIncomingFrames: "run", or "exit" after the client's EOF
  pend,     \* pend[c]: packet serveIncomingFrames is sending on c.in
  conns,    \* keys of t.conns
  target,   \* target[c]: c.hello's address
  serve,    \* serve[c]: serveConn
  in,       \* in[c]: content of the channel c.in
  hand,     \* hand[c]: packet serveIncomingPackets received and now writes
  reads,    \* reads[c]: serveRemoteReads
  remote,   \* remote[c]: TCP connection to the target, as the kernel sees it
  wrote,    \* history: packets written to the target without an error
  lost,     \* history: number of packets whose Write returned an error
  sent,     \* history: number of data packets the client sent for c
  base,     \* history: value of sent[c] when c's Hello was accepted
  closeAt   \* history: value of sent[c] when c's Close was read, -1 before

connVars == <<conns, target, serve, in, hand, reads, remote>>
histVars == <<wrote, lost, sent, base, closeAt>>
vars == <<rd, pend, conns, target, serve, in, hand, reads, remote,
          wrote, lost, sent, base, closeAt>>

\* serveIncomingFrames is at readNextFrame, not blocked on a channel.
Reading == rd = "run" /\ \A c \in ConnIds : pend[c] = 0

TypeOK ==
  /\ rd \in {"run", "exit"}
  /\ pend \in [ConnIds -> 0..MaxData]
  /\ conns \subseteq ConnIds
  /\ target \in [ConnIds -> Targets \cup {NoTarget}]
  /\ serve \in [ConnIds -> {"none", "dialing", "failed", "open"}]
  /\ in \in [ConnIds -> Seq(1..MaxData)]
  /\ \A c \in ConnIds : Len(in[c]) <= InCap
  /\ hand \in [ConnIds -> 0..MaxData]
  /\ reads \in [ConnIds -> {"none", "run", "exit"}]
  /\ remote \in [ConnIds -> {"none", "open", "closed", "broken"}]
  /\ wrote \in [ConnIds -> Seq(1..MaxData)]
  /\ lost \in [ConnIds -> Nat]
  /\ sent \in [ConnIds -> 0..MaxData]
  /\ base \in [ConnIds -> 0..MaxData]
  /\ closeAt \in [ConnIds -> -1..MaxData]

Init ==
  /\ rd = "run"
  /\ pend = [c \in ConnIds |-> 0]
  /\ conns = {}
  /\ target = [c \in ConnIds |-> NoTarget]
  /\ serve = [c \in ConnIds |-> "none"]
  /\ in = [c \in ConnIds |-> <<>>]
  /\ hand = [c \in ConnIds |-> 0]
  /\ reads = [c \in ConnIds |-> "none"]
  /\ remote = [c \in ConnIds |-> "none"]
  /\ wrote = [c \in ConnIds |-> <<>>]
  /\ lost = [c \in ConnIds |-> 0]
  /\ sent = [c \in ConnIds |-> 0]
  /\ base = [c \in ConnIds |-> 0]
  /\ closeAt = [c \in ConnIds |-> -1]
-----------------------------------------------------------------------------
(* serveIncomingFrames: one readNextFrame per action                       *)

\* Mutant of ReadHello: a repeated Hello replaces the connection.
HelloReplaces(c, t) ==
  /\ Reading
  /\ conns' = conns \cup {c}
  /\ target' = [target EXCEPT ![c] = t]
  /\ serve' = [serve EXCEPT ![c] = "dialing"]
  /\ in' = [in EXCEPT ![c] = <<>>]
  /\ base' = [base EXCEPT ![c] = sent[c]]
  /\ UNCHANGED <<rd, pend, hand, reads, remote, wrote, lost, sent, closeAt>>

\* A Hello of a new id: the connection enters the table with an empty
\* channel and its serveConn starts.  A Hello of a known id is an error.
ReadHello(c, t) ==
  /\ Reading
  /\ c \notin conns
  /\ conns' = conns \cup {c}
  /\ target' = [target EXCEPT ![c] = t]
  /\ serve' = [serve EXCEPT ![c] = "dialing"]
  /\ in' = [in EXCEPT ![c] = <<>>]
  /\ base' = [base EXCEPT ![c] = sent[c]]
  /\ UNCHANGED <<rd, pend, hand, reads, remote, wrote, lost, sent, closeAt>>

\* Data of a known id: the reader goes on to `c.in <- &packet`.
ReadData(c) ==
  /\ Reading
  /\ c \in conns
  /\ sent[c] < MaxData
  /\ sent' = [sent EXCEPT ![c] = @ + 1]
  /\ pend' = [pend EXCEPT ![c] = sent[c] + 1]
  /\ UNCHANGED <<rd, connVars, wrote, lost, base, closeAt>>

\* Data of an unknown id: "packet from unknown connection", packet dropped.
ReadStrayData(c) ==
  /\ Reading
  /\ c \notin conns
  /\ sent[c] < MaxData
  /\ sent' = [sent EXCEPT ![c] = @ + 1]
  /\ UNCHANGED <<rd, pend, connVars, wrote, lost, base, closeAt>>

\* Close of a known id: the handler returns nil and touches nothing.
ReadClose(c) ==
  /\ Reading
  /\ c \in conns \cap Closable
  /\ closeAt[c] = -1
  /\ closeAt' = [closeAt EXCEPT ![c] = sent[c]]
  /\ UNCHANGED <<rd, pend, connVars, wrote, lost, sent, base>>

\* Every other outcome of readNextFrame is an error that is logged before the
\* loop goes on: a frame or a packet that does not decode, a malformed Hello,
\* a Hello of a known id, a Close of an unknown one, a ping, a junk packet.
ReadRejected ==
  /\ Reading
  /\ UNCHANGED vars

\* io.EOF: the client is gone and serveIncomingFrames returns.
ReadEOF ==
  /\ Reading
  /\ rd' = "exit"
  /\ UNCHANGED <<pend, connVars, histVars>>

\* Mutant of Enqueue: a select with a default branch drops the packet when the
\* channel is full.
EnqueueOrDrop(c) ==
  /\ pend[c] # 0
  /\ in' = [in EXCEPT ![c] = IF Len(@) < InCap THEN Append(@, pend[c]) ELSE @]
  /\ pend' = [pend EXCEPT ![c] = 0]
  /\ UNCHANGED <<rd, conns, target, serve, hand, reads, remote, histVars>>

\* Mutant of Enqueue: an unbounded queue instead of the channel.
EnqueueUnbounded(c) ==
  /\ pend[c] # 0
  /\ in' = [in EXCEPT ![c] = Append(@, pend[c])]
  /\ pend' = [pend EXCEPT ![c] = 0]
  /\ UNCHANGED <<rd, conns, target, serve, hand, reads, remote, histVars>>

\* `c.in <- &packet` goes through: the channel has room.
Enqueue(c) ==
  /\ pend[c] # 0
  /\ Len(in[c]) < InCap
  /\ in' = [in EXCEPT ![c] = Append(@, pend[c])]
  /\ pend' = [pend EXCEPT ![c] = 0]
  /\ UNCHANGED <<rd, conns, target, serve, hand, reads, remote, histVars>>
-----------------------------------------------------------------------------
(* serveConn                                                               *)

DialOK(c) ==
  /\ serve[c] = "dialing"
  /\ serve' = [serve EXCEPT ![c] = "open"]
  /\ remote' = [remote EXCEPT ![c] = "open"]
  /\ reads' = [reads EXCEPT ![c] = "run"]
  /\ UNCHANGED <<rd, pend, conns, target, in, hand, histVars>>

\* The dial fails: serveConn logs and returns; c stays in t.conns.
DialFail(c) ==
  /\ serve[c] = "dialing"
  /\ serve' = [serve EXCEPT ![c] = "failed"]
  /\ UNCHANGED <<rd, pend, conns, target, in, hand, reads, remote, histVars>>
-----------------------------------------------------------------------------
(* serveIncomingPackets                                                    *)

\* Mutant of Dequeue: the target's EOF, seen by serveRemoteReads, also ends
\* serveIncomingPackets.
DequeueUntilEOF(c) ==
  /\ serve[c] = "open"
  /\ reads[c] = "run"
  /\ hand[c] = 0
  /\ in[c] # <<>>
  /\ hand' = [hand EXCEPT ![c] = Head(in[c])]
  /\ in' = [in EXCEPT ![c] = Tail(@)]
  /\ UNCHANGED <<rd, pend, conns, target, serve, reads, remote, histVars>>

\* `packet := <-c.in`
Dequeue(c) ==
  /\ serve[c] = "open"
  /\ hand[c] = 0
  /\ in[c] # <<>>
  /\ hand' = [hand EXCEPT ![c] = Head(in[c])]
  /\ in' = [in EXCEPT ![c] = Tail(@)]
  /\ UNCHANGED <<rd, pend, conns, target, serve, reads, remote, histVars>>

\* c.conn.Write accepts the packet.
WriteOK(c) ==
  /\ hand[c] # 0
  /\ remote[c] \in {"open", "closed"}
  /\ wrote' = [wrote EXCEPT ![c] = Append(@, hand[c])]
  /\ hand' = [hand EXCEPT ![c] = 0]
  /\ UNCHANGED <<rd, pend, conns, target, serve, in, reads, remote,
                 lost, sent, base, closeAt>>

\* c.conn.Write fails: the error is logged and the loop goes on.  The branch
\* that returns on net.ErrClosed needs c.conn closed here, which nobody does.
WriteFail(c) ==
  /\ hand[c] # 0
  /\ remote[c] = "broken"
  /\ lost' = [lost EXCEPT ![c] = @ + 1]
  /\ hand' = [hand EXCEPT ![c] = 0]
  /\ UNCHANGED <<rd, pend, conns, target, serve, in, reads, remote,
                 wrote, sent, base, closeAt>>
-----------------------------------------------------------------------------
(* serveRemoteReads and the target                                         *)

\* Read returns io.EOF and the goroutine returns.  Data that Read returns is
\* encoded and dropped, and another error is logged and retried: neither
\* changes the state.
RemoteReadEOF(c) ==
  /\ reads[c] = "run"
  /\ remote[c] \in {"closed", "broken"}
  /\ reads' = [reads EXCEPT ![c] = "exit"]
  /\ UNCHANGED <<rd, pend, conns, target, serve, in, hand, remote, histVars>>

\* The target closes its end; until a reset arrives writes still succeed.
TargetClose(c) ==
  /\ remote[c] = "open"
  /\ remote' = [remote EXCEPT ![c] = "closed"]
  /\ UNCHANGED <<rd, pend, conns, target, serve, in, hand, reads, histVars>>

\* A reset arrives from the target; from now on every Write fails.
TargetReset(c) ==
  /\ remote[c] \in {"open", "closed"}
  /\ remote' = [remote EXCEPT ![c] = "broken"]
  /\ UNCHANGED <<rd, pend, conns, target, serve, in, hand, reads, histVars>>
-----------------------------------------------------------------------------
Reader ==
  \/ \E c \in ConnIds : \/ \E t \in Targets : ReadHello(c, t)
                        \/ ReadData(c)
                        \/ ReadStrayData(c)
                        \/ ReadClose(c)
                        \/ Enqueue(c)
  \/ ReadRejected
  \/ ReadEOF

Connection(c) ==
  \/ DialOK(c)
  \/ DialFail(c)
  \/ Dequeue(c)
  \/ WriteOK(c)
  \/ WriteFail(c)
  \/ RemoteReadEOF(c)

Target(c) == TargetClose(c) \/ TargetReset(c)

Next == Reader \/ \E c \in ConnIds : Connection(c) \/ Target(c)

(* Go runs every goroutine that can run, a dial ends (the kernel gives up   *)
(* on it) and a target that is not in StallTargets keeps reading, so that a *)
(* Write to it returns.  Nothing makes the client send, nor a target close. *)
Fairness ==
  \A c \in ConnIds :
    /\ WF_vars(Enqueue(c))
    /\ WF_vars(DialOK(c) \/ DialFail(c))
    /\ WF_vars(Dequeue(c))
    /\ WF_vars(RemoteReadEOF(c))
    /\ c \notin StallTargets => WF_vars(WriteOK(c) \/ WriteFail(c))

Spec == Init /\ [][Next]_vars /\ Fairness
-----------------------------------------------------------------------------
(* Properties                                                              *)

\* The packets written for c are numbered base[c]+1, base[c]+2, ...
Gapless(c) == \A i \in 1..Len(wrote[c]) : wrote[c][i] = base[c] + i

\* The target is handed one gapless run of the client's packets, in the order
\* they were sent, starting with the first one after the Hello: whatever the
\* reader, the channel and the writer do in between (tunnel.go:116-121,
\* conn.go:57-73), no packet is skipped, repeated or overtaken.
StreamIntact == \A c \in ConnIds : Gapless(c)

Held(n) == IF n = 0 THEN 0 ELSE 1

\* Packets of c that left serveIncomingPackets, counted from number 1.
Done(c) == base[c] + Len(wrote[c]) + lost[c]

\* Packets of c that left the channel, counted from number 1.
Taken(c) == Done(c) + Held(hand[c])

\* Every data packet read after the Hello is in exactly one place: written,
\* lost to a failed Write, held by the writer, in the channel, or held by the
\* reader; and these places hold consecutive numbers.
Conserved(c) ==
  /\ hand[c] # 0 => hand[c] = Done(c) + 1
  /\ \A i \in 1..Len(in[c]) : in[c][i] = Taken(c) + i
  /\ pend[c] # 0 => pend[c] = Taken(c) + Len(in[c]) + 1
  /\ sent[c] = Taken(c) + Len(in[c]) + Held(pend[c])

\* An id that no Hello announced has no goroutine and no packet.
Idle(c) ==
  /\ serve[c] = "none" /\ remote[c] = "none"
  /\ pend[c] = 0 /\ hand[c] = 0
  /\ in[c] = <<>> /\ wrote[c] = <<>> /\ lost[c] = 0

\* Writes fail only after a reset, and then for ever (conn.go:63-70).
LostAfterReset(c) == lost[c] > 0 => remote[c] = "broken"

\* What every reachable state says of c's packets and of c's goroutines.
Accounted(c) ==
  /\ c \in conns => Conserved(c)
  /\ c \notin conns => Idle(c)
  /\ LostAfterReset(c)
  /\ hand[c] # 0 => serve[c] = "open"
  /\ serve[c] = "open" <=> remote[c] # "none"

\* The inductive invariant behind StreamIntact: a packet that was accepted for
\* a connection is never dropped between the frame reader and the target's
\* socket (tunnel.go:116-121, conn.go:57-73).
NothingDropped == \A c \in ConnIds : Accounted(c)

\* The reader blocks on one channel at a time (tunnel.go:120).
OneSend == \A c, d \in ConnIds : pend[c] # 0 /\ pend[d] # 0 => c = d

\* A Hello that repeats a known id is refused, at any time and in particular
\* while the first dial is under way, after it failed or after the client sent
\* Close: it neither re-points the connection nor restarts its stream
\* (tunnel.go:92-98).
HelloOnce ==
  [][\A c \in conns : /\ c \in conns'
                      /\ target'[c] = target[c]
                      /\ base'[c] = base[c]]_vars

\* Nobody takes packets out of c's full channel: its dial failed, or the Write
\* under way does not return because its target stopped reading.
Jammed(c) ==
  /\ Len(in[c]) = InCap
  /\ serve[c] = "failed" \/ (c \in StallTargets /\ hand[c] # 0)

\* The reader, which blocks on one connection's channel while the packets of all
\* others wait behind it in the socket, comes back to the socket.
ReaderReturns(c) == pend[c] # 0 ~> Reading \/ (pend[c] # 0 /\ Jammed(c))

\* A connection is held up by another one only while that one is jammed, and never
\* by the client's departure.  The reader always comes back to the packets of the
\* others, unless the connection that it blocks on is jammed: a slow dial, a full
\* channel, a reset or an end of a target do not stop the tunnel.  And a packet it
\* starts to send leaves for its target (or is lost to a reset) unless the
\* connection's own dial failed or its own target stopped reading
\* (tunnel.go:108-120, conn.go:44-73).
Relayed ==
  /\ \A c \in ConnIds : ReaderReturns(c)
  /\ \A c \in ConnIds \ StallTargets : \A n \in 1..MaxData :
       pend[c] = n ~> (Done(c) >= n \/ serve[c] = "failed")

\* The pipe of each connection: what was accepted, and what was written.
Accepted == [c \in ConnIds |-> IF c \in conns
                               THEN [i \in 1..(sent[c] - base[c]) |-> base[c] + i]
                               ELSE <<>>]
Pipe == INSTANCE OrderedPipe
          WITH Items <- 1..MaxData, opened <- conns, accepted <- Accepted,
               delivered <- wrote,
               broken <- {c \in ConnIds : remote[c] = "broken"}

\* The tunnel implements an ordered pipe per connection (packet.go:68-69).
ImplementsPipe == Pipe!Spec

\* packet.go:60-61: "it should close connection to target and stop relaying
\* data for this connection": nothing read after Close reaches the target.
CloseStopsRelay ==
  \A c \in ConnIds : closeAt[c] # -1 =>
    \A i \in 1..Len(wrote[c]) : wrote[c][i] <= closeAt[c]
=============================================================================
