----------------------------- MODULE ClientApp -----------------------------
(***************************************************************************)
(* The life of client processes on one machine: StartClient and start of   *)
(* cmd/client/main.go, LocalNAT of internal/client/sys_linux.go, and the   *)
(* listening half of internal/client/server.go.                            *)
(*                                                                         *)
(* A process adds a REDIRECT rule to the kernel's nat table, listens on    *)
(* the port the rule points to, and flushes the table when it stops.  The  *)
(* table outlives the process: a process that is killed leaves its rule.   *)
(* All processes use the same configuration, hence the same port.          *)
(***************************************************************************)
EXTENDS Integers, FiniteSets

CONSTANTS
  Procs,     \* client processes (instances) on the machine
  MaxStarts, \* bound: starts of each process
  MaxConns,  \* bound: connections accepted in one start of a process
  MayFail,   \* what the environment does: a subset of {"kill", "iptables"}
  NoProc     \* the port is free

ASSUME BoundsAssumption == MaxStarts \in Nat /\ MaxConns \in Nat
ASSUME MayFailAssumption == MayFail \subseteq {"kill", "iptables"}
ASSUME NoProcAssumption == NoProc \notin Procs

VARIABLES
  pc,       \* pc[p]: "down", "init" (files, proxy.Connect), "nat", "listen",
            \* "serve", "cleanup"
  done,     \* done[p]: the context of NewContext is cancelled
  accept,   \* accept[p]: acceptAndHandleConnections: "none", "run", or "wait"
            \* at `<-done` after an Accept error, "exit"
  next,     \* next[p]: Server.next
  starts,   \* starts[p]: times p was started (bound)
  rules,    \* REDIRECT rules in the nat table
  port,     \* process that listens on the local port, or NoProc
  harmed    \* history: a process was killed or an iptables run failed after
            \* the table was last flushed

vars == <<pc, done, accept, next, starts, rules, port, harmed>>

TypeOK ==
  /\ pc \in [Procs -> {"down", "init", "nat", "listen", "serve", "cleanup"}]
  /\ done \in [Procs -> BOOLEAN]
  /\ accept \in [Procs -> {"none", "run", "wait", "exit"}]
  /\ next \in [Procs -> 0..MaxConns]
  /\ starts \in [Procs -> 0..MaxStarts]
  /\ rules \in Nat
  /\ port \in Procs \cup {NoProc}
  /\ harmed \in BOOLEAN

Init ==
  /\ pc = [p \in Procs |-> "down"]
  /\ done = [p \in Procs |-> FALSE]
  /\ accept = [p \in Procs |-> "none"]
  /\ next = [p \in Procs |-> 0]
  /\ starts = [p \in Procs |-> 0]
  /\ rules = 0 /\ port = NoProc /\ harmed = FALSE

Goto(p, label) == pc' = [pc EXCEPT ![p] = label]

\* The process is gone: the kernel closes its listener, and keeps its rule.
Gone(p) ==
  /\ Goto(p, "down")
  /\ accept' = [accept EXCEPT ![p] = "none"]
  /\ port' = IF port = p THEN NoProc ELSE port
-----------------------------------------------------------------------------
(* StartClient and start, in the order of their statements                 *)

\* Mutant of Start: the ids begin one too low.
StartBelowZero(p) ==
  /\ pc[p] = "down" /\ starts[p] < MaxStarts
  /\ Goto(p, "init")
  /\ done' = [done EXCEPT ![p] = FALSE]
  /\ next' = [next EXCEPT ![p] = -1]
  /\ starts' = [starts EXCEPT ![p] = @ + 1]
  /\ UNCHANGED <<accept, rules, port, harmed>>

\* scf.Load and SetupLogger succeed and NewContext is called with a Server
\* whose next is 0.  (When they fail the process exits without a trace here.)
Start(p) ==
  /\ pc[p] = "down" /\ starts[p] < MaxStarts
  /\ Goto(p, "init")
  /\ done' = [done EXCEPT ![p] = FALSE]
  /\ next' = [next EXCEPT ![p] = 0]
  /\ starts' = [starts EXCEPT ![p] = @ + 1]
  /\ UNCHANGED <<accept, rules, port, harmed>>

\* LoadNamesFromFile, LoadRoutesFromFile and proxy.Connect: all succeed, or
\* one fails and the process exits.
Connect(p) ==
  /\ pc[p] = "init"
  /\ \/ Goto(p, "nat") /\ UNCHANGED <<accept, port>>
     \/ Gone(p)
  /\ UNCHANGED <<done, next, starts, rules, harmed>>

\* nat.Setup appends the rule.
NatSetup(p) ==
  /\ pc[p] = "nat"
  /\ rules' = rules + 1
  /\ Goto(p, "listen")
  /\ UNCHANGED <<done, accept, next, starts, port, harmed>>

\* Mutant of NatSetupFails: the error is logged and start goes on.
NatSetupFailureLogged(p) ==
  /\ pc[p] = "nat" /\ "iptables" \in MayFail
  /\ rules' \in {rules, rules + 1}
  /\ harmed' = TRUE
  /\ Goto(p, "listen")
  /\ UNCHANGED <<done, accept, next, starts, port>>

\* iptables fails, or is stopped after a second with or without having added
\* the rule: start returns before it has deferred cleanupNAT.
NatSetupFails(p) ==
  /\ pc[p] = "nat" /\ "iptables" \in MayFail
  /\ rules' \in {rules, rules + 1}
  /\ harmed' = TRUE
  /\ Gone(p)
  /\ UNCHANGED <<done, next, starts>>

\* net.Listen, and the accepting goroutine; or it fails, as it must when another
\* instance has the port and may when another program has it, and start returns
\* the error through the deferred cleanupNAT.
Listen(p) ==
  /\ pc[p] = "listen"
  /\ \/ /\ port = NoProc
        /\ port' = p
        /\ accept' = [accept EXCEPT ![p] = "run"]
        /\ Goto(p, "serve")
     \/ Goto(p, "cleanup") /\ UNCHANGED <<port, accept>>
  /\ UNCHANGED <<done, next, starts, rules, harmed>>

\* Mutant of StopListening: the process exits where it stops listening, and the
\* deferred cleanupNAT never runs.
StopAtOnce(p) ==
  /\ pc[p] = "serve" /\ done[p]
  /\ Gone(p)
  /\ UNCHANGED <<done, next, starts, rules, harmed>>

\* Mutant of StopListening: the accept loop has to be there to be stopped.
StopAcceptingOnly(p) ==
  /\ pc[p] = "serve" /\ done[p] /\ accept[p] = "run"
  /\ port' = NoProc
  /\ Goto(p, "cleanup")
  /\ UNCHANGED <<done, accept, next, starts, rules, harmed>>

\* `<-done` in ListenAndHandleConnections, and the deferred listener.Close.
StopListening(p) ==
  /\ pc[p] = "serve" /\ done[p]
  /\ port' = NoProc
  /\ Goto(p, "cleanup")
  /\ UNCHANGED <<done, accept, next, starts, rules, harmed>>

\* cleanupNAT: `iptables -t nat -F` removes every rule; its error is logged.
Cleanup(p) ==
  /\ pc[p] = "cleanup"
  /\ \/ rules' = 0 /\ harmed' = FALSE
     \/ "iptables" \in MayFail /\ rules' \in {rules, 0} /\ harmed' = TRUE
  /\ Gone(p)
  /\ UNCHANGED <<done, next, starts>>
-----------------------------------------------------------------------------
(* acceptAndHandleConnections                                              *)

\* A connection arrives and gets the next id.
Accept(p) ==
  /\ accept[p] = "run" /\ port = p /\ next[p] < MaxConns
  /\ next' = [next EXCEPT ![p] = @ + 1]
  /\ UNCHANGED <<pc, done, accept, starts, rules, port, harmed>>

\* Accept fails while the listener is open (out of descriptors, an aborted
\* connection): the goroutine waits for done to be closed.
AcceptError(p) ==
  /\ accept[p] = "run" /\ port = p
  /\ accept' = [accept EXCEPT ![p] = "wait"]
  /\ UNCHANGED <<pc, done, next, starts, rules, port, harmed>>

\* The listener is closed, or done is: the goroutine returns.
AcceptExit(p) ==
  /\ \/ accept[p] = "run" /\ port # p
     \/ accept[p] = "wait"
  /\ done[p]
  /\ accept' = [accept EXCEPT ![p] = "exit"]
  /\ UNCHANGED <<pc, done, next, starts, rules, port, harmed>>
-----------------------------------------------------------------------------
(* The environment                                                         *)

\* SIGINT, while NotifyContext catches it, cancels the context.
Interrupt(p) ==
  /\ pc[p] # "down" /\ ~done[p]
  /\ done' = [done EXCEPT ![p] = TRUE]
  /\ UNCHANGED <<pc, accept, next, starts, rules, port, harmed>>

\* SIGKILL, which os.Kill in NotifyContext cannot catch, SIGTERM, which it does
\* not name, or a panic.
Kill(p) ==
  /\ pc[p] # "down" /\ "kill" \in MayFail
  /\ Gone(p)
  /\ harmed' = TRUE
  /\ UNCHANGED <<done, next, starts, rules>>
-----------------------------------------------------------------------------
Main(p) ==
  Connect(p) \/ NatSetup(p) \/ NatSetupFails(p) \/ Listen(p) \/ StopListening(p)
  \/ Cleanup(p)

Acceptor(p) == Accept(p) \/ AcceptError(p) \/ AcceptExit(p)

Next == \E p \in Procs : Start(p) \/ Main(p) \/ Acceptor(p) \/ Interrupt(p) \/ Kill(p)

(* A started process runs: files are read, proxy.Connect and iptables return *)
(* (the latter has a timeout).  Nothing starts, interrupts or kills it.      *)
Spec == Init /\ [][Next]_vars /\ \A p \in Procs : WF_vars(Main(p)) /\ WF_vars(AcceptExit(p))
-----------------------------------------------------------------------------
(* Properties                                                              *)

\* p has appended its rule and has not flushed the table yet.
Owes(p) == pc[p] \in {"listen", "serve", "cleanup"}

\* A rule in the table has a live process that will flush it, also when a listen
\* fails, an interrupt arrives early, or instances overlap, unless a process was
\* killed or iptables failed; what these leave behind is gone, and the promise
\* holds again, after the next orderly end of any instance (main.go:81-97).
RuleHasOwner == ~harmed /\ rules > 0 => \E p \in Procs : Owes(p)

\* An interrupt ends the process, whatever it was doing and whatever state its
\* accept loop is in (proc/context.go:9-12, server.go:125-129).
InterruptEnds == \A p \in Procs : done[p] ~> pc[p] = "down"

\* No other instance was ever started.
Alone(p) == \A q \in Procs \ {p} : starts[q] = 0

\* A client that serves has its rule in the table as long as no other instance
\* was started, whatever became of its own earlier runs: killed, interrupted,
\* stopped by a failure of iptables on either side (main.go:81-87).  It is only
\* another instance's cleanup that can take the rule away.
TransparentAlone == \A p \in Procs : pc[p] = "serve" /\ Alone(p) => rules > 0
=============================================================================
