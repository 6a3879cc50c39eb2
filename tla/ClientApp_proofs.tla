-------------------------- MODULE ClientApp_proofs --------------------------
(* Proofs about ClientApp for any number of processes.                     *)
EXTENDS ClientApp, TLAPS

\* RuleHasOwner is inductive once the types are known.
IInv == TypeOK /\ RuleHasOwner

LEMMA InitIInv == Init => IInv
<1> SUFFICES ASSUME Init PROVE IInv
  OBVIOUS
<1>1. TypeOK
  <2>1. 0 \in 0..MaxConns /\ 0 \in 0..MaxStarts /\ 0 \in Nat
    BY BoundsAssumption
  <2> QED
    BY <2>1, Zenon DEF Init, TypeOK
<1>2. RuleHasOwner
  BY DEF Init, RuleHasOwner
<1> QED
  BY <1>1, <1>2 DEF IInv

LEMMA StepType == TypeOK /\ [Next]_vars => TypeOK'
<1> SUFFICES ASSUME TypeOK, [Next]_vars PROVE TypeOK'
  OBVIOUS
<1> USE BoundsAssumption DEF TypeOK, Goto, Gone
<1>1. ASSUME NEW p \in Procs, Start(p) PROVE TypeOK'
  BY <1>1 DEF Start
<1>2. ASSUME NEW p \in Procs, Connect(p) PROVE TypeOK'
  BY <1>2 DEF Connect
<1>3. ASSUME NEW p \in Procs, NatSetup(p) PROVE TypeOK'
  BY <1>3 DEF NatSetup
<1>4. ASSUME NEW p \in Procs, NatSetupFails(p) PROVE TypeOK'
  BY <1>4 DEF NatSetupFails
<1>5. ASSUME NEW p \in Procs, Listen(p) PROVE TypeOK'
  BY <1>5 DEF Listen
<1>6. ASSUME NEW p \in Procs, StopListening(p) PROVE TypeOK'
  BY <1>6 DEF StopListening
<1>7. ASSUME NEW p \in Procs, Cleanup(p) PROVE TypeOK'
  <2>1. rules' \in Nat
    BY <1>7 DEF Cleanup
  <2>4. harmed' \in BOOLEAN
    BY <1>7, Zenon DEF Cleanup
  <2>2. UNCHANGED <<done, next, starts>>
    BY <1>7 DEF Cleanup
  <2>3. Gone(p)
    BY <1>7 DEF Cleanup
  <2> QED
    BY <2>1, <2>2, <2>3, <2>4
<1>8. ASSUME NEW p \in Procs, Acceptor(p) PROVE TypeOK'
  BY <1>8 DEF Acceptor, Accept, AcceptError, AcceptExit
<1>9. ASSUME NEW p \in Procs, Interrupt(p) \/ Kill(p) PROVE TypeOK'
  BY <1>9 DEF Interrupt, Kill
<1>10. CASE UNCHANGED vars
  BY <1>10 DEF vars
<1> QED
  BY <1>1, <1>2, <1>3, <1>4, <1>5, <1>6, <1>7, <1>8, <1>9, <1>10 DEF Next, Main

LEMMA StepOwner == IInv /\ [Next]_vars => RuleHasOwner'
<1> SUFFICES ASSUME IInv, [Next]_vars PROVE RuleHasOwner'
  OBVIOUS
<1> USE DEF IInv, TypeOK, RuleHasOwner, Owes, Goto, Gone
<1>1. ASSUME NEW p \in Procs, Start(p) PROVE RuleHasOwner'
  BY <1>1 DEF Start
<1>2. ASSUME NEW p \in Procs, Connect(p) PROVE RuleHasOwner'
  BY <1>2 DEF Connect
<1>3. ASSUME NEW p \in Procs, NatSetup(p) PROVE RuleHasOwner'
  BY <1>3 DEF NatSetup
<1>4. ASSUME NEW p \in Procs, NatSetupFails(p) \/ Kill(p) PROVE RuleHasOwner'
  BY <1>4 DEF NatSetupFails, Kill
<1>5. ASSUME NEW p \in Procs, Listen(p) PROVE RuleHasOwner'
  BY <1>5 DEF Listen
<1>6. ASSUME NEW p \in Procs, StopListening(p) PROVE RuleHasOwner'
  BY <1>6 DEF StopListening
<1>7. ASSUME NEW p \in Procs, Cleanup(p) PROVE RuleHasOwner'
  BY <1>7 DEF Cleanup
<1>8. ASSUME NEW p \in Procs, Acceptor(p) \/ Interrupt(p) PROVE RuleHasOwner'
  BY <1>8 DEF Acceptor, Accept, AcceptError, AcceptExit, Interrupt
<1>9. CASE UNCHANGED vars
  BY <1>9 DEF vars
<1> QED
  BY <1>1, <1>2, <1>3, <1>4, <1>5, <1>6, <1>7, <1>8, <1>9 DEF Next, Main

\* The invariant is inductive.
THEOREM Inductive == Spec => []IInv
<1>1. IInv /\ [Next]_vars => IInv'
  BY StepType, StepOwner DEF IInv
<1> QED
  BY InitIInv, <1>1, PTL DEF Spec

\* The types of the state, for any number of processes, starts and connections:
\* no count goes below zero or above its bound (main.go, server.go).
THEOREM TypeCorrect == Spec => []TypeOK
<1>1. IInv => TypeOK
  BY DEF IInv
<1> QED
  BY <1>1, Inductive, PTL

\* However many client processes start, overlap and stop, a redirect rule never
\* outlives all of them, unless one was killed or iptables failed after the table
\* was last flushed (main.go:81-97, sys_linux.go:22-36).
THEOREM NoOrphanRule == Spec => []RuleHasOwner
<1>1. IInv => RuleHasOwner
  BY DEF IInv
<1> QED
  BY <1>1, Inductive, PTL
-----------------------------------------------------------------------------
\* Behind TransparentAlone: an instance that was never started is not running,
\* and the rule of a lone instance is there from the moment it was added.
RuleFromSetup ==
  /\ \A p \in Procs : starts[p] = 0 => pc[p] = "down"
  /\ \A p \in Procs : pc[p] \in {"listen", "serve"} /\ Alone(p) => rules > 0

\* An instance that takes a step is running or starts, so that it has a start.
LEMMA MoverStarted ==
  ASSUME TypeOK, RuleFromSetup, NEW p \in Procs,
         Start(p) \/ Main(p) \/ Acceptor(p) \/ Interrupt(p) \/ Kill(p)
  PROVE  starts'[p] # 0 \/ UNCHANGED <<pc, starts, rules>>
<1> USE BoundsAssumption DEF TypeOK, RuleFromSetup
<1>1. CASE Start(p)
  <2>1. starts'[p] = starts[p] + 1 /\ starts[p] \in Nat
    BY <1>1 DEF Start
  <2> QED
    BY <2>1
<1>2. CASE Main(p)
  <2>1. pc[p] # "down" /\ starts' = starts
    BY <1>2 DEF Main, Connect, NatSetup, NatSetupFails, Listen, StopListening, Cleanup
  <2> QED
    BY <2>1
<1>3. CASE Acceptor(p) \/ Interrupt(p)
  BY <1>3 DEF Acceptor, Accept, AcceptError, AcceptExit, Interrupt
<1>4. CASE Kill(p)
  BY <1>4 DEF Kill
<1> QED
  BY <1>1, <1>2, <1>3, <1>4

\* A step leaves the counters and labels of the other instances alone.
LEMMA OthersStay ==
  ASSUME TypeOK, NEW p \in Procs,
         Start(p) \/ Main(p) \/ Acceptor(p) \/ Interrupt(p) \/ Kill(p)
  PROVE  \A q \in Procs \ {p} : pc'[q] = pc[q] /\ starts'[q] = starts[q]
<1> USE DEF TypeOK, Goto, Gone
<1>1. CASE Start(p)
  BY <1>1 DEF Start
<1>2. CASE Main(p)
  BY <1>2 DEF Main, Connect, NatSetup, NatSetupFails, Listen, StopListening, Cleanup
<1>3. CASE Acceptor(p) \/ Interrupt(p) \/ Kill(p)
  BY <1>3 DEF Acceptor, Accept, AcceptError, AcceptExit, Interrupt, Kill
<1> QED
  BY <1>1, <1>2, <1>3

\* A step of p itself leaves it with a rule if it is about to listen or serves.
LEMMA OwnStep ==
  ASSUME TypeOK, RuleFromSetup, NEW p \in Procs,
         Start(p) \/ Main(p) \/ Acceptor(p) \/ Interrupt(p) \/ Kill(p),
         pc'[p] \in {"listen", "serve"}, Alone(p)
  PROVE  rules' > 0
<1> USE DEF TypeOK, RuleFromSetup, Goto, Gone
<1>1. CASE Start(p)
  BY <1>1 DEF Start
<1>2. CASE NatSetup(p)
  BY <1>2 DEF NatSetup
<1>3. CASE Connect(p) \/ NatSetupFails(p) \/ Listen(p) \/ StopListening(p)
  BY <1>3 DEF Connect, NatSetupFails, Listen, StopListening
<1>4. CASE Cleanup(p)
  BY <1>4 DEF Cleanup
<1>5. CASE Acceptor(p) \/ Interrupt(p) \/ Kill(p)
  BY <1>5 DEF Acceptor, Accept, AcceptError, AcceptExit, Interrupt, Kill
<1> QED
  BY <1>1, <1>2, <1>3, <1>4, <1>5 DEF Main

LEMMA StepRule == TypeOK /\ TypeOK' /\ RuleFromSetup /\ [Next]_vars => RuleFromSetup'
<1> SUFFICES ASSUME TypeOK, TypeOK', RuleFromSetup, [Next]_vars PROVE RuleFromSetup'
  OBVIOUS
<1>1. CASE UNCHANGED vars
  BY <1>1 DEF vars, RuleFromSetup, Alone
<1>2. ASSUME NEW p \in Procs,
             Start(p) \/ Main(p) \/ Acceptor(p) \/ Interrupt(p) \/ Kill(p)
      PROVE  RuleFromSetup'
  <2>1. \A q \in Procs \ {p} : pc'[q] = pc[q] /\ starts'[q] = starts[q]
    BY <1>2, OthersStay
  <2>2. starts'[p] # 0 \/ UNCHANGED <<pc, starts, rules>>
    BY <1>2, MoverStarted
  <2>3. ASSUME NEW q \in Procs, starts'[q] = 0 PROVE pc'[q] = "down"
    BY <2>1, <2>2, <2>3 DEF RuleFromSetup
  <2>4. ASSUME NEW q \in Procs, pc'[q] \in {"listen", "serve"}, Alone(q)'
        PROVE  rules' > 0
    <3>1. CASE q = p
      <4>1. Alone(p)
        BY <2>1, <2>4, <3>1 DEF Alone
      <4> QED
        BY <1>2, <2>4, <3>1, <4>1, OwnStep
    <3>2. CASE q # p
      <4>1. starts'[p] = 0
        BY <2>4, <3>2 DEF Alone
      <4>2. UNCHANGED <<pc, starts, rules>>
        BY <2>2, <4>1
      <4> QED
        BY <2>4, <4>2 DEF RuleFromSetup, Alone
    <3> QED
      BY <3>1, <3>2
  <2> QED
    BY <2>3, <2>4 DEF RuleFromSetup
<1> QED
  BY <1>1, <1>2 DEF Next

\* An instance that is alone on its machine never serves without its rule,
\* through any number of restarts after kills and failures of iptables
\* (main.go:81-87).
THEOREM AloneTransparent == Spec => []TransparentAlone
<1>1. Init => RuleFromSetup
  BY DEF Init, RuleFromSetup
<1>2. TypeOK /\ TypeOK' /\ RuleFromSetup /\ [Next]_vars => RuleFromSetup'
  BY StepRule
<1>3. IInv => TypeOK
  BY DEF IInv
<1>4. RuleFromSetup => TransparentAlone
  BY DEF RuleFromSetup, TransparentAlone
<1> QED
  BY Inductive, <1>1, <1>2, <1>3, <1>4, PTL DEF Spec
=============================================================================
