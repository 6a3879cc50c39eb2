--------------------------- MODULE Tunnel_proofs ---------------------------
(* Proofs about Tunnel for any set of connections, targets and capacity.   *)
EXTENDS Tunnel, TLAPS, SequenceTheorems

\* The inductive invariant: TypeOK gives the ranges, OneSend and
\* NothingDropped say where each packet is, StreamIntact what was written.
IInv == TypeOK /\ OneSend /\ NothingDropped /\ StreamIntact

\* The values that Accounted(c) and Gapless(c) are about, but for sent[c].
View(c) == <<pend[c], serve[c], in[c], hand[c], remote[c], wrote[c], lost[c],
             base[c]>>

LEMMA InitIInv == Init => IInv
  BY InCapAssumption, MaxDataAssumption
  DEF Init, IInv, TypeOK, OneSend, NothingDropped, StreamIntact, Accounted,
      Gapless, Idle, LostAfterReset

LEMMA StepType == ASSUME IInv, [Next]_vars PROVE TypeOK'
<1> USE InCapAssumption, MaxDataAssumption
<1> SUFFICES ASSUME Next PROVE TypeOK'
  BY DEF IInv, TypeOK, vars
<1>1. ASSUME NEW c \in ConnIds, NEW t \in Targets, ReadHello(c, t) PROVE TypeOK'
  <2>1. in' \in [ConnIds -> Seq(1..MaxData)]
    BY <1>1, EmptySeq DEF IInv, TypeOK, ReadHello
  <2>2. \A d \in ConnIds : Len(in'[d]) <= InCap
    BY <1>1, EmptySeq DEF IInv, TypeOK, ReadHello
  <2>3. base' \in [ConnIds -> 0..MaxData]
    BY <1>1 DEF IInv, TypeOK, ReadHello
  <2> QED
    BY <1>1, <2>1, <2>2, <2>3 DEF IInv, TypeOK, ReadHello
<1>2. ASSUME NEW c \in ConnIds, ReadData(c) PROVE TypeOK'
  <2>1. sent[c] + 1 \in 0..MaxData
    BY <1>2 DEF IInv, TypeOK, ReadData
  <2>2. sent' \in [ConnIds -> 0..MaxData] /\ pend' \in [ConnIds -> 0..MaxData]
    BY <1>2, <2>1 DEF IInv, TypeOK, ReadData
  <2> QED
    BY <1>2, <2>2 DEF IInv, TypeOK, ReadData, connVars
<1>3. ASSUME NEW c \in ConnIds, ReadStrayData(c) PROVE TypeOK'
  <2>1. sent' \in [ConnIds -> 0..MaxData]
    BY <1>3 DEF IInv, TypeOK, ReadStrayData
  <2>2. UNCHANGED <<rd, pend, conns, target, serve, in, hand, reads, remote, wrote,
                    lost, base, closeAt>>
    BY <1>3 DEF ReadStrayData, connVars
  <2> QED
    BY <2>1, <2>2 DEF IInv, TypeOK
<1>4. ASSUME NEW c \in ConnIds, ReadClose(c) PROVE TypeOK'
  <2>1. closeAt' \in [ConnIds -> -1..MaxData]
    BY <1>4 DEF IInv, TypeOK, ReadClose
  <2>2. UNCHANGED <<rd, pend, conns, target, serve, in, hand, reads, remote, wrote,
                    lost, sent, base>>
    BY <1>4 DEF ReadClose, connVars
  <2> QED
    BY <2>1, <2>2 DEF IInv, TypeOK
<1>5. ASSUME NEW c \in ConnIds, Enqueue(c) PROVE TypeOK'
  <2>1. pend[c] \in 1..MaxData /\ in[c] \in Seq(1..MaxData)
    BY <1>5 DEF IInv, TypeOK, Enqueue
  <2>2. /\ Append(in[c], pend[c]) \in Seq(1..MaxData)
        /\ Len(Append(in[c], pend[c])) = Len(in[c]) + 1
    BY <2>1, AppendProperties
  <2>3. in' \in [ConnIds -> Seq(1..MaxData)]
    BY <1>5, <2>2 DEF IInv, TypeOK, Enqueue
  <2>4. \A d \in ConnIds : Len(in'[d]) <= InCap
    BY <1>5, <2>2, <2>1, LenProperties DEF IInv, TypeOK, Enqueue
  <2>5. pend' \in [ConnIds -> 0..MaxData]
    BY <1>5 DEF IInv, TypeOK, Enqueue
  <2> QED
    BY <1>5, <2>3, <2>4, <2>5 DEF IInv, TypeOK, Enqueue, histVars
<1>6. CASE ReadRejected \/ ReadEOF
  BY <1>6 DEF IInv, TypeOK, ReadRejected, ReadEOF, vars, connVars, histVars
<1>7. ASSUME NEW c \in ConnIds, DialOK(c) \/ DialFail(c) PROVE TypeOK'
  BY <1>7 DEF IInv, TypeOK, DialOK, DialFail, histVars
<1>8. ASSUME NEW c \in ConnIds, Dequeue(c) PROVE TypeOK'
  <2>1. in[c] \in Seq(1..MaxData) /\ in[c] # <<>>
    BY <1>8 DEF IInv, TypeOK, Dequeue
  <2>2. /\ Head(in[c]) \in 1..MaxData /\ Tail(in[c]) \in Seq(1..MaxData)
        /\ Len(Tail(in[c])) = Len(in[c]) - 1 /\ Len(in[c]) \in Nat
    BY <2>1, HeadTailProperties, LenProperties
  <2>3. in' \in [ConnIds -> Seq(1..MaxData)]
    BY <1>8, <2>2 DEF IInv, TypeOK, Dequeue
  <2>4. \A d \in ConnIds : Len(in'[d]) <= InCap
    <3>1. in' = [in EXCEPT ![c] = Tail(@)]
      BY <1>8 DEF Dequeue
    <3>2. in \in [ConnIds -> Seq(1..MaxData)] /\ \A d \in ConnIds : Len(in[d]) <= InCap
      BY DEF IInv, TypeOK
    <3>3. Len(Tail(in[c])) <= InCap
      BY <2>2, <3>2
    <3> QED
      BY <3>1, <3>2, <3>3
  <2>5. hand' \in [ConnIds -> 0..MaxData]
    BY <1>8, <2>2 DEF IInv, TypeOK, Dequeue
  <2>6. UNCHANGED <<rd, pend, conns, target, serve, reads, remote, wrote, lost, sent,
                    base, closeAt>>
    BY <1>8 DEF Dequeue, histVars
  <2> QED
    BY <2>3, <2>4, <2>5, <2>6 DEF IInv, TypeOK
<1>9. ASSUME NEW c \in ConnIds, WriteOK(c) \/ WriteFail(c) PROVE TypeOK'
  <2>1. hand[c] \in 1..MaxData /\ wrote[c] \in Seq(1..MaxData)
    BY <1>9 DEF IInv, TypeOK, WriteOK, WriteFail
  <2>2. Append(wrote[c], hand[c]) \in Seq(1..MaxData)
    BY <2>1, AppendProperties
  <2>3. CASE WriteOK(c)
    <3>1. wrote' \in [ConnIds -> Seq(1..MaxData)]
      BY <2>2, <2>3 DEF IInv, TypeOK, WriteOK
    <3>2. hand' \in [ConnIds -> 0..MaxData]
      BY <2>3 DEF IInv, TypeOK, WriteOK
    <3>3. UNCHANGED <<rd, pend, conns, target, serve, in, reads, remote, lost, sent,
                      base, closeAt>>
      BY <2>3 DEF WriteOK
    <3> QED
      BY <3>1, <3>2, <3>3 DEF IInv, TypeOK
  <2>4. CASE WriteFail(c)
    <3>1. lost' \in [ConnIds -> Nat]
      BY <2>4 DEF IInv, TypeOK, WriteFail
    <3>2. hand' \in [ConnIds -> 0..MaxData]
      BY <2>4 DEF IInv, TypeOK, WriteFail
    <3>3. UNCHANGED <<rd, pend, conns, target, serve, in, reads, remote, wrote, sent,
                      base, closeAt>>
      BY <2>4 DEF WriteFail
    <3> QED
      BY <3>1, <3>2, <3>3 DEF IInv, TypeOK
  <2> QED
    BY <1>9, <2>3, <2>4
<1>10. ASSUME NEW c \in ConnIds, RemoteReadEOF(c) \/ Target(c) PROVE TypeOK'
  BY <1>10 DEF IInv, TypeOK, RemoteReadEOF, Target, TargetClose, TargetReset,
               histVars
<1> QED
  BY <1>1, <1>2, <1>3, <1>4, <1>5, <1>6, <1>7, <1>8, <1>9, <1>10
  DEF Next, Reader, Connection

LEMMA StepOneSend == ASSUME IInv, [Next]_vars PROVE OneSend'
<1>1. CASE UNCHANGED vars
  BY <1>1 DEF IInv, OneSend, vars
<1>2. ASSUME NEW c \in ConnIds, ReadData(c) PROVE OneSend'
  BY <1>2 DEF IInv, TypeOK, OneSend, ReadData, Reading
<1>3. ASSUME NEW c \in ConnIds, Enqueue(c) PROVE OneSend'
  BY <1>3 DEF IInv, TypeOK, OneSend, Enqueue
<1>4. ASSUME pend' = pend PROVE OneSend'
  BY <1>4 DEF IInv, OneSend
<1> QED
  BY <1>1, <1>2, <1>3, <1>4
  DEF Next, Reader, Connection, Target, ReadHello, ReadStrayData, ReadClose,
      ReadRejected, ReadEOF, DialOK, DialFail, Dequeue, WriteOK, WriteFail,
      RemoteReadEOF, TargetClose, TargetReset, vars, connVars, histVars

\* A step that does not touch a connection preserves what is said of it.
LEMMA Untouched ==
  ASSUME NEW c \in ConnIds, Accounted(c), Gapless(c),
         View(c)' = View(c), (c \in conns)' <=> c \in conns,
         c \in conns => sent'[c] = sent[c]
  PROVE  Accounted(c)' /\ Gapless(c)'
  BY DEF View, Accounted, Gapless, Conserved, Idle, LostAfterReset, Done, Taken

\* What TypeOK says of one connection.
LEMMA ConnTypes ==
  ASSUME TypeOK, NEW c \in ConnIds
  PROVE  /\ pend[c] \in 0..MaxData /\ hand[c] \in 0..MaxData
         /\ sent[c] \in 0..MaxData /\ base[c] \in 0..MaxData
         /\ lost[c] \in Nat
         /\ in[c] \in Seq(1..MaxData) /\ wrote[c] \in Seq(1..MaxData)
         /\ Len(in[c]) \in Nat /\ Len(wrote[c]) \in Nat
<1>1. in[c] \in Seq(1..MaxData) /\ wrote[c] \in Seq(1..MaxData)
  BY DEF TypeOK
<1>2. Len(in[c]) \in Nat /\ Len(wrote[c]) \in Nat
  BY <1>1, LenProperties
<1> QED
  BY <1>1, <1>2 DEF TypeOK

\* The numbers alone, without the sequences.
LEMMA ConnNumbers ==
  ASSUME TypeOK, NEW c \in ConnIds
  PROVE  /\ base[c] \in Nat /\ lost[c] \in Nat /\ sent[c] \in Nat
         /\ pend[c] \in 0..MaxData /\ hand[c] \in 0..MaxData
         /\ Len(in[c]) \in Nat /\ Len(wrote[c]) \in Nat
  BY ConnTypes, MaxDataAssumption

\* One lemma per action that moves a packet: how it looks at its connection.
LEMMA HelloHere ==
  ASSUME TypeOK, NEW c \in ConnIds, NEW t \in Targets, ReadHello(c, t),
         Accounted(c), Gapless(c)
  PROVE  Accounted(c)' /\ Gapless(c)'
<1>1. Idle(c)
  BY DEF ReadHello, Accounted
<1>2. /\ in'[c] = <<>> /\ base'[c] = sent[c] /\ serve'[c] = "dialing"
      /\ c \in conns'
  BY DEF ReadHello, TypeOK
<1>3. UNCHANGED <<pend, hand, remote, wrote, lost, sent>>
  BY DEF ReadHello
<1>4. Len(<<>>) = 0 /\ Len(wrote[c]) = 0 /\ Len(in'[c]) = 0
  BY <1>1, <1>2, EmptySeq DEF Idle
<1>5. Conserved(c)'
  BY <1>1, <1>2, <1>3, <1>4, MaxDataAssumption, ConnTypes
  DEF Idle, Conserved, Taken, Done, Held
<1>6. Gapless(c)'
  BY <1>3, <1>4 DEF Gapless
<1> QED
  BY <1>1, <1>2, <1>3, <1>5, <1>6 DEF Idle, Accounted, LostAfterReset

LEMMA DataHere ==
  ASSUME TypeOK, NEW c \in ConnIds, ReadData(c), Accounted(c), Gapless(c)
  PROVE  Accounted(c)' /\ Gapless(c)'
<1>1. /\ c \in conns /\ pend[c] = 0
      /\ sent'[c] = sent[c] + 1 /\ pend'[c] = sent[c] + 1
  BY DEF ReadData, Reading, TypeOK
<1>2. UNCHANGED <<conns, serve, in, hand, remote, wrote, lost, base>>
  BY DEF ReadData, connVars
<1>3. Conserved(c)
  BY <1>1 DEF Accounted
<1>4. Done(c)' = Done(c) /\ Taken(c)' = Taken(c) /\ Taken(c) \in Nat
  BY <1>1, <1>2, ConnTypes DEF Done, Taken, Held
<1>5. sent[c] = Taken(c) + Len(in[c]) /\ Len(in[c]) \in Nat
  BY <1>1, <1>3, <1>4, ConnTypes DEF Conserved, Held
<1>6. pend'[c] = Taken(c)' + Len(in'[c]) + 1
  BY <1>1, <1>2, <1>4, <1>5
<1>7. sent'[c] = Taken(c)' + Len(in'[c]) + Held(pend'[c])
  BY <1>1, <1>2, <1>4, <1>5 DEF Held
<1>8. \A i \in 1..Len(in'[c]) : in'[c][i] = Taken(c)' + i
  BY <1>2, <1>3, <1>4 DEF Conserved
<1>9. Conserved(c)'
  BY <1>2, <1>3, <1>4, <1>6, <1>7, <1>8 DEF Conserved
<1> QED
  BY <1>1, <1>2, <1>9 DEF Accounted, Gapless, LostAfterReset

LEMMA EnqueueHere ==
  ASSUME TypeOK, NEW c \in ConnIds, Enqueue(c), Accounted(c), Gapless(c)
  PROVE  Accounted(c)' /\ Gapless(c)'
<1>0. /\ base[c] \in Nat /\ lost[c] \in Nat /\ sent[c] \in Nat
      /\ pend[c] \in 0..MaxData /\ hand[c] \in 0..MaxData
      /\ Len(in[c]) \in Nat /\ Len(wrote[c]) \in Nat
  BY ConnNumbers
<1>1. c \in conns /\ Conserved(c)
  BY DEF Enqueue, Accounted, Idle
<1>2. pend[c] \in 1..MaxData /\ in[c] \in Seq(1..MaxData)
  BY ConnTypes DEF Enqueue
<1>3. in'[c] = Append(in[c], pend[c]) /\ pend'[c] = 0
  BY DEF Enqueue, TypeOK
<1>4. /\ Len(in'[c]) = Len(in[c]) + 1
      /\ \A i \in 1..Len(in[c]) : in'[c][i] = in[c][i]
      /\ in'[c][Len(in[c]) + 1] = pend[c]
  BY <1>2, <1>3, AppendProperties
<1>5. UNCHANGED <<conns, serve, hand, remote, wrote, lost, sent, base>>
  BY DEF Enqueue, histVars
<1>6. Done(c)' = Done(c) /\ Taken(c)' = Taken(c) /\ Taken(c) \in Nat
  BY <1>5, <1>0 DEF Done, Taken, Held
<1>7. pend[c] = Taken(c) + Len(in[c]) + 1 /\ sent[c] = pend[c]
  BY <1>1, <1>2, <1>6, <1>0 DEF Conserved, Held
<1>8. ASSUME NEW i \in 1..Len(in'[c]) PROVE in'[c][i] = Taken(c)' + i
  <2>1. i \in 1..Len(in[c]) \/ i = Len(in[c]) + 1
    BY <1>0, <1>4
  <2>2. CASE i \in 1..Len(in[c])
    BY <1>1, <1>4, <1>6, <2>2 DEF Conserved
  <2>3. CASE i = Len(in[c]) + 1
    BY <1>0, <1>4, <1>6, <1>7, <2>3
  <2> QED
    BY <2>1, <2>2, <2>3
<1>9. sent'[c] = Taken(c)' + Len(in'[c]) + Held(pend'[c])
  <2>1. sent'[c] = sent[c] /\ Held(pend'[c]) = 0
    BY <1>3, <1>5 DEF Held
  <2> QED
    BY <1>0, <1>4, <1>6, <1>7, <2>1
<1>10. Conserved(c)'
  BY <1>1, <1>3, <1>5, <1>6, <1>8, <1>9 DEF Conserved
<1> QED
  BY <1>1, <1>5, <1>10 DEF Accounted, Gapless, LostAfterReset

LEMMA DialHere ==
  ASSUME TypeOK, NEW c \in ConnIds, DialOK(c) \/ DialFail(c),
         Accounted(c), Gapless(c)
  PROVE  Accounted(c)' /\ Gapless(c)'
<1>1. serve[c] = "dialing" /\ c \in conns
  BY DEF DialOK, DialFail, Accounted, Idle
<1>2. remote[c] = "none" /\ hand[c] = 0 /\ lost[c] = 0
  BY <1>1, ConnTypes DEF Accounted, LostAfterReset
<1>3. \/ serve'[c] = "open" /\ remote'[c] = "open"
      \/ serve'[c] = "failed" /\ remote'[c] = "none"
  BY <1>2 DEF DialOK, DialFail, TypeOK
<1>4. UNCHANGED <<conns, pend, in, hand, wrote, lost, sent, base>>
  BY DEF DialOK, DialFail, histVars
<1>5. Conserved(c)' /\ Gapless(c)'
  BY <1>1, <1>4 DEF Accounted, Conserved, Taken, Done, Gapless
<1> QED
  BY <1>1, <1>2, <1>3, <1>4, <1>5 DEF Accounted, LostAfterReset

LEMMA DequeueHere ==
  ASSUME TypeOK, NEW c \in ConnIds, Dequeue(c), Accounted(c), Gapless(c)
  PROVE  Accounted(c)' /\ Gapless(c)'
<1>1. c \in conns /\ Conserved(c) /\ hand[c] = 0
  BY DEF Dequeue, Accounted, Idle
<1>2. in[c] \in Seq(1..MaxData) /\ in[c] # <<>>
  BY ConnTypes DEF Dequeue
<1>3. in'[c] = Tail(in[c]) /\ hand'[c] = Head(in[c])
  BY DEF Dequeue, TypeOK
<1>4. /\ Len(in[c]) \in Nat \ {0} /\ hand'[c] \in 1..MaxData
      /\ Len(in'[c]) = Len(in[c]) - 1
      /\ \A i \in 1..Len(in'[c]) : in'[c][i] = in[c][i + 1]
  BY <1>2, <1>3, EmptySeq, HeadTailProperties
<1>5. hand'[c] = in[c][1]
  BY <1>2, <1>3
<1>6. UNCHANGED <<conns, pend, serve, remote, wrote, lost, sent, base>>
  BY DEF Dequeue, histVars
<1>7. /\ Done(c)' = Done(c) /\ Done(c) \in Nat
      /\ Taken(c) = Done(c) /\ Taken(c)' = Done(c) + 1
  BY <1>1, <1>4, <1>6, ConnTypes DEF Done, Taken, Held
<1>8. hand'[c] = Done(c)' + 1
  BY <1>1, <1>4, <1>5, <1>7 DEF Conserved
<1>9. \A i \in 1..Len(in'[c]) : in'[c][i] = Taken(c)' + i
  BY <1>1, <1>4, <1>7 DEF Conserved
<1>10. Taken(c)' + Len(in'[c]) = Taken(c) + Len(in[c])
  BY <1>4, <1>7
<1>11. Conserved(c)'
  BY <1>1, <1>6, <1>8, <1>9, <1>10 DEF Conserved
<1>12. serve[c] = "open"
  BY DEF Dequeue
<1> QED
  BY <1>1, <1>6, <1>11, <1>12 DEF Accounted, Gapless, LostAfterReset

LEMMA WriteOKHere ==
  ASSUME TypeOK, NEW c \in ConnIds, WriteOK(c), Accounted(c), Gapless(c)
  PROVE  /\ Accounted(c)' /\ Gapless(c)'
         /\ c \in conns /\ hand[c] = base[c] + Len(wrote[c]) + 1
<1>0. /\ base[c] \in Nat /\ lost[c] \in Nat /\ sent[c] \in Nat
      /\ pend[c] \in 0..MaxData /\ hand[c] \in 0..MaxData
      /\ Len(in[c]) \in Nat /\ Len(wrote[c]) \in Nat
  BY ConnNumbers
<1>1. c \in conns /\ Conserved(c) /\ hand[c] # 0
  BY DEF WriteOK, Accounted, Idle
<1>2. lost[c] = 0
  BY <1>0 DEF WriteOK, Accounted, LostAfterReset
<1>3. hand[c] \in 1..MaxData /\ wrote[c] \in Seq(1..MaxData)
  BY <1>1, ConnTypes
<1>4. wrote'[c] = Append(wrote[c], hand[c]) /\ hand'[c] = 0
  BY DEF WriteOK, TypeOK
<1>5. /\ Len(wrote'[c]) = Len(wrote[c]) + 1
      /\ \A i \in 1..Len(wrote[c]) : wrote'[c][i] = wrote[c][i]
      /\ wrote'[c][Len(wrote[c]) + 1] = hand[c]
  BY <1>3, <1>4, AppendProperties
<1>6. hand[c] = base[c] + Len(wrote[c]) + 1
  BY <1>1, <1>2, <1>0 DEF Conserved, Done
<1>7. UNCHANGED <<conns, pend, serve, in, remote, lost, sent, base>>
  BY DEF WriteOK
<1>8. Gapless(c)'
  <2>1. \A i \in 1..Len(wrote[c]) : wrote[c][i] = base[c] + i
    BY DEF Gapless
  <2>2. base'[c] = base[c]
    BY <1>7
  <2>3. ASSUME NEW i \in 1..Len(wrote'[c]) PROVE wrote'[c][i] = base'[c] + i
    <3>1. i \in 1..Len(wrote[c]) \/ i = Len(wrote[c]) + 1
      BY <1>0, <1>5
    <3>2. CASE i \in 1..Len(wrote[c])
      BY <1>5, <2>1, <2>2, <3>2
    <3>3. CASE i = Len(wrote[c]) + 1
      BY <1>0, <1>5, <1>6, <2>2, <3>3
    <3> QED
      BY <3>1, <3>2, <3>3
  <2> QED
    BY <2>3 DEF Gapless
<1>9. Conserved(c)'
  <2>4. Len(wrote'[c]) = Len(wrote[c]) + 1
    BY <1>5
  <2>5. base'[c] = base[c] /\ lost'[c] = lost[c]
    BY <1>7
  <2>1. Done(c)' = Done(c) + 1
    BY <1>0, <2>4, <2>5 DEF Done
  <2>3. Done(c) \in Nat
    BY <1>0 DEF Done
  <2>2. Taken(c)' = Taken(c)
    BY <1>1, <1>4, <2>1, <2>3 DEF Taken, Held
  <2> QED
    BY <1>1, <1>4, <1>7, <2>2 DEF Conserved
<1> QED
  BY <1>1, <1>4, <1>6, <1>7, <1>8, <1>9 DEF Accounted, LostAfterReset

LEMMA WriteFailHere ==
  ASSUME TypeOK, NEW c \in ConnIds, WriteFail(c), Accounted(c), Gapless(c)
  PROVE  Accounted(c)' /\ Gapless(c)'
<1>0. /\ base[c] \in Nat /\ lost[c] \in Nat /\ sent[c] \in Nat
      /\ pend[c] \in 0..MaxData /\ hand[c] \in 0..MaxData
      /\ Len(in[c]) \in Nat /\ Len(wrote[c]) \in Nat
  BY ConnNumbers
<1>1. c \in conns /\ Conserved(c) /\ hand[c] # 0 /\ remote[c] = "broken"
  BY DEF WriteFail, Accounted, Idle
<1>2. hand'[c] = 0 /\ lost'[c] = lost[c] + 1
  BY DEF WriteFail, TypeOK
<1>3. UNCHANGED <<conns, pend, serve, in, remote, wrote, sent, base>>
  BY DEF WriteFail
<1>4. Conserved(c)'
  <2>4. base'[c] = base[c] /\ Len(wrote'[c]) = Len(wrote[c])
    BY <1>3
  <2>5. lost'[c] = lost[c] + 1
    BY <1>2
  <2>6. base[c] \in Nat /\ Len(wrote[c]) \in Nat /\ lost[c] \in Nat
    BY <1>0
  <2>7. base[c] + Len(wrote[c]) + (lost[c] + 1) = base[c] + Len(wrote[c]) + lost[c] + 1
    BY <2>6
  <2>1. Done(c)' = Done(c) + 1
    BY <2>4, <2>5, <2>7 DEF Done
  <2>3. Done(c) \in Nat
    BY <1>0 DEF Done
  <2>2. Taken(c)' = Taken(c)
    BY <1>1, <1>2, <2>1, <2>3 DEF Taken, Held
  <2> QED
    BY <1>1, <1>2, <1>3, <2>2 DEF Conserved
<1> QED
  BY <1>1, <1>2, <1>3, <1>4 DEF Accounted, Gapless, LostAfterReset

LEMMA TargetHere ==
  ASSUME TypeOK, NEW c \in ConnIds, Target(c), Accounted(c), Gapless(c)
  PROVE  Accounted(c)' /\ Gapless(c)'
<1>1. /\ remote[c] # "none" /\ remote'[c] # "none"
      /\ remote[c] = "broken" => remote'[c] = "broken"
  BY DEF Target, TargetClose, TargetReset, TypeOK
<1>2. UNCHANGED <<conns, pend, serve, in, hand, wrote, lost, sent, base>>
  BY DEF Target, TargetClose, TargetReset, histVars
<1>3. c \in conns /\ Conserved(c)
  BY <1>1 DEF Accounted, Idle
<1>4. Conserved(c)' /\ Gapless(c)'
  BY <1>2, <1>3 DEF Conserved, Taken, Done, Gapless
<1> QED
  BY <1>1, <1>2, <1>3, <1>4 DEF Accounted, LostAfterReset

\* Every step preserves what is said of every connection d.
LEMMA StepConn ==
  ASSUME IInv, [Next]_vars, NEW d \in ConnIds
  PROVE  Accounted(d)' /\ Gapless(d)'
<1>0. TypeOK /\ Accounted(d) /\ Gapless(d)
  BY DEF IInv, NothingDropped, StreamIntact
<1>1. CASE UNCHANGED vars
  BY <1>0, <1>1, Untouched DEF vars, View
<1>2. ASSUME NEW c \in ConnIds, NEW t \in Targets, ReadHello(c, t)
      PROVE  Accounted(d)' /\ Gapless(d)'
  <2>1. CASE d # c
    BY <1>0, <1>2, <2>1, Untouched DEF ReadHello, TypeOK, View
  <2> QED
    BY <1>0, <1>2, <2>1, HelloHere
<1>3. ASSUME NEW c \in ConnIds, ReadData(c)
      PROVE  Accounted(d)' /\ Gapless(d)'
  <2>1. CASE d # c
    BY <1>0, <1>3, <2>1, Untouched DEF ReadData, connVars, TypeOK, View
  <2> QED
    BY <1>0, <1>3, <2>1, DataHere
<1>4. ASSUME NEW c \in ConnIds, ReadStrayData(c)
      PROVE  Accounted(d)' /\ Gapless(d)'
  BY <1>0, <1>4, Untouched DEF ReadStrayData, connVars, TypeOK, View
<1>5. ASSUME NEW c \in ConnIds, ReadClose(c) \/ RemoteReadEOF(c)
      PROVE  Accounted(d)' /\ Gapless(d)'
  BY <1>0, <1>5, Untouched DEF ReadClose, RemoteReadEOF, connVars, histVars, View
<1>6. CASE ReadRejected \/ ReadEOF
  BY <1>0, <1>6, Untouched
  DEF ReadRejected, ReadEOF, vars, connVars, histVars, View
<1>7. ASSUME NEW c \in ConnIds, Enqueue(c)
      PROVE  Accounted(d)' /\ Gapless(d)'
  <2>1. CASE d # c
    BY <1>0, <1>7, <2>1, Untouched DEF Enqueue, histVars, TypeOK, View
  <2> QED
    BY <1>0, <1>7, <2>1, EnqueueHere
<1>8. ASSUME NEW c \in ConnIds, DialOK(c) \/ DialFail(c)
      PROVE  Accounted(d)' /\ Gapless(d)'
  <2>1. CASE d # c
    BY <1>0, <1>8, <2>1, Untouched DEF DialOK, DialFail, histVars, TypeOK, View
  <2> QED
    BY <1>0, <1>8, <2>1, DialHere
<1>9. ASSUME NEW c \in ConnIds, Dequeue(c)
      PROVE  Accounted(d)' /\ Gapless(d)'
  <2>1. CASE d # c
    BY <1>0, <1>9, <2>1, Untouched DEF Dequeue, histVars, TypeOK, View
  <2> QED
    BY <1>0, <1>9, <2>1, DequeueHere
<1>10. ASSUME NEW c \in ConnIds, WriteOK(c)
       PROVE  Accounted(d)' /\ Gapless(d)'
  <2>1. CASE d # c
    BY <1>0, <1>10, <2>1, Untouched DEF WriteOK, TypeOK, View
  <2> QED
    BY <1>0, <1>10, <2>1, WriteOKHere
<1>11. ASSUME NEW c \in ConnIds, WriteFail(c)
       PROVE  Accounted(d)' /\ Gapless(d)'
  <2>1. CASE d # c
    BY <1>0, <1>11, <2>1, Untouched DEF WriteFail, TypeOK, View
  <2> QED
    BY <1>0, <1>11, <2>1, WriteFailHere
<1>12. ASSUME NEW c \in ConnIds, Target(c)
       PROVE  Accounted(d)' /\ Gapless(d)'
  <2>1. CASE d # c
    BY <1>0, <1>12, <2>1, Untouched
    DEF Target, TargetClose, TargetReset, histVars, TypeOK, View
  <2> QED
    BY <1>0, <1>12, <2>1, TargetHere
<1> QED
  BY <1>1, <1>2, <1>3, <1>4, <1>5, <1>6, <1>7, <1>8, <1>9, <1>10, <1>11, <1>12
  DEF Next, Reader, Connection

THEOREM Inductive == Spec => []IInv
<1>1. Init => IInv
  BY InitIInv
<1>2. IInv /\ [Next]_vars => IInv'
  BY StepType, StepOneSend, StepConn DEF IInv, NothingDropped, StreamIntact
<1> QED
  BY <1>1, <1>2, PTL DEF Spec

\* Every variable keeps its type; in particular the channel c.in never holds
\* more than its capacity (tunnel.go:108).
THEOREM TypeCorrect == Spec => []TypeOK
<1>1. IInv => TypeOK
  BY DEF IInv
<1> QED
  BY <1>1, Inductive, PTL

\* The reader never waits on two channels at once (tunnel.go:120).
THEOREM SingleSend == Spec => []OneSend
<1>1. IInv => OneSend
  BY DEF IInv
<1> QED
  BY <1>1, Inductive, PTL

\* No packet vanishes between the frame reader and the target's socket
\* (tunnel.go:116-121, conn.go:57-73).
THEOREM PacketsAccountedFor == Spec => []NothingDropped
<1>1. IInv => NothingDropped
  BY DEF IInv
<1> QED
  BY <1>1, Inductive, PTL

\* Each target is handed a gapless run of its client's packets, from the first
\* one after the Hello, in the order they were sent (conn.go:57-73).
THEOREM StreamsIntact == Spec => []StreamIntact
<1>1. IInv => StreamIntact
  BY DEF IInv
<1> QED
  BY <1>1, Inductive, PTL

\* A repeated Hello changes nothing of the connection it names
\* (tunnel.go:92-98).
THEOREM RepeatedHelloRefused == Spec => HelloOnce
<1> DEFINE Kept == \A c \in conns : /\ c \in conns'
                                    /\ target'[c] = target[c]
                                    /\ base'[c] = base[c]
<1>1. ASSUME TypeOK, NEW d \in ConnIds, NEW t \in Targets, ReadHello(d, t)
      PROVE  Kept
  BY <1>1 DEF ReadHello, TypeOK
<1>2. ASSUME UNCHANGED <<conns, target, base>> PROVE Kept
  BY <1>2
<1>3. TypeOK /\ [Next]_vars => [Kept]_vars
  <2> SUFFICES ASSUME TypeOK, [Next]_vars PROVE Kept
    OBVIOUS
  <2> QED
    BY <1>1, <1>2
    DEF Next, Reader, Connection, Target, ReadData, ReadStrayData, ReadClose,
        ReadRejected, ReadEOF, Enqueue, DialOK, DialFail, Dequeue, WriteOK,
        WriteFail, RemoteReadEOF, TargetClose, TargetReset, vars, connVars,
        histVars
<1> QED
  BY <1>3, TypeCorrect, PTL DEF Spec, HelloOnce
-----------------------------------------------------------------------------
(* The tunnel implements OrderedPipe.                                      *)

LEMMA PipeInit == Init => Pipe!Init
<1> SUFFICES ASSUME Init PROVE Pipe!Init
  OBVIOUS
<1>1. Accepted = [c \in ConnIds |-> <<>>]
  BY DEF Init, Accepted
<1>2. {c \in ConnIds : remote[c] = "broken"} = {}
  BY DEF Init
<1> QED
  BY <1>1, <1>2 DEF Init, Pipe!Init

\* The count of Conserved, as plain arithmetic.
LEMMA CountArithmetic ==
  ASSUME NEW b \in Nat, NEW w \in Nat, NEW l \in Nat, NEW h \in Nat,
         NEW n \in Nat, NEW p \in Nat, NEW s, s = b + w + l + h + n + p
  PROVE  /\ s - b \in Nat
         /\ h = 1 => w + 1 \in 1..(s - b)
<1>1. s - b = w + l + h + n + p
  OBVIOUS
<1>2. w + l + h + n + p \in Nat
  OBVIOUS
<1>3. h = 1 => w + 1 <= w + l + h + n + p
  OBVIOUS
<1>4. h = 1 => w + 1 \in 1..(w + l + h + n + p)
  BY <1>2, <1>3
<1> QED
  BY <1>1, <1>2, <1>4

\* A step that leaves the pipe's variables alone is a stutter of the pipe.
LEMMA PipeStutter ==
  ASSUME UNCHANGED <<conns, wrote, remote, base>>,
         \A c \in conns : sent'[c] = sent[c]
  PROVE  UNCHANGED Pipe!vars
<1>1. Accepted' = Accepted
  BY DEF Accepted
<1> QED
  BY <1>1 DEF Pipe!vars

LEMMA PipeStep == IInv /\ [Next]_vars => [Pipe!Next]_(Pipe!vars)
<1> SUFFICES ASSUME IInv, [Next]_vars PROVE Pipe!Next \/ UNCHANGED Pipe!vars
  BY DEF Pipe!vars
<1>0. TypeOK /\ \A c \in ConnIds : Accounted(c) /\ Gapless(c)
  BY DEF IInv, NothingDropped, StreamIntact
<1>1. ASSUME NEW c \in ConnIds, NEW t \in Targets, ReadHello(c, t)
      PROVE  Pipe!Open(c)
  <2>1. c \notin conns /\ conns' = conns \cup {c}
    BY <1>1 DEF ReadHello
  <2>2. base' = [base EXCEPT ![c] = sent[c]] /\ UNCHANGED <<sent, wrote, remote>>
    BY <1>1 DEF ReadHello
  <2>3. ASSUME NEW d \in ConnIds PROVE Accepted'[d] = Accepted[d]
    <3>1. CASE d = c
      <4>1. sent'[c] - base'[c] = 0
        BY <1>0, <2>2, ConnTypes DEF TypeOK
      <4>2. Accepted'[c] = [i \in 1..0 |-> base'[c] + i]
        BY <2>1, <4>1 DEF Accepted
      <4>3. [i \in 1..0 |-> base'[c] + i] = <<>>
        OBVIOUS
      <4> QED
        BY <2>1, <3>1, <4>2, <4>3 DEF Accepted
    <3>2. CASE d # c
      BY <1>0, <2>1, <2>2, <3>2 DEF Accepted, TypeOK
    <3> QED
      BY <3>1, <3>2
  <2>4. Accepted' = Accepted
    BY <2>3 DEF Accepted
  <2> QED
    BY <2>1, <2>2, <2>4 DEF Pipe!Open
<1>2. ASSUME NEW c \in ConnIds, ReadData(c)
      PROVE  \E n \in 1..MaxData : Pipe!Accept(c, n)
  <2>1. c \in conns /\ sent' = [sent EXCEPT ![c] = @ + 1] /\ sent[c] < MaxData
    BY <1>2 DEF ReadData
  <2>2. UNCHANGED <<conns, remote, wrote, base>>
    BY <1>2 DEF ReadData, connVars
  <2>8. base[c] \in Nat /\ sent[c] \in Nat /\ lost[c] \in Nat
        /\ Len(wrote[c]) \in Nat /\ Len(in[c]) \in Nat
    BY <1>0, ConnNumbers
  <2>9. sent'[c] = sent[c] + 1
    BY <1>0, <2>1 DEF TypeOK
  <2>10. sent[c] + 1 \in 1..MaxData
    BY <2>1, <2>8, MaxDataAssumption
  <2>3. sent'[c] = sent[c] + 1 /\ sent[c] + 1 \in 1..MaxData
    BY <2>9, <2>10
  <2>4. sent[c] - base[c] \in Nat
    <3>1. Conserved(c)
      BY <1>0, <2>1 DEF Accounted
    <3>2. sent[c] = base[c] + Len(wrote[c]) + lost[c] + Held(hand[c])
                    + Len(in[c]) + Held(pend[c])
      BY <3>1 DEF Conserved, Taken, Done
    <3>3. Held(hand[c]) \in Nat /\ Held(pend[c]) \in Nat
      BY DEF Held
    <3> QED
      BY <2>8, <3>2, <3>3, CountArithmetic
  <2>5. Accepted'[c] = Append(Accepted[c], sent[c] + 1)
    <3> DEFINE n == sent[c] - base[c]
               b == base[c]
    <3>1. Accepted[c] = [i \in 1..n |-> b + i]
      BY <2>1 DEF Accepted
    <3>2. sent'[c] - base'[c] = n + 1 /\ base'[c] = b
      BY <1>0, <2>2, <2>3, ConnTypes
    <3>3. Accepted'[c] = [i \in 1..(n + 1) |-> b + i]
      BY <2>1, <2>2, <3>2 DEF Accepted
    <3>4. sent[c] + 1 = b + (n + 1)
      BY <1>0, ConnTypes
    <3>5. n \in Nat /\ b \in Nat
      BY <1>0, <2>4, ConnTypes
    <3> HIDE DEF n, b
    <3> QED
      BY <3>1, <3>3, <3>4, <3>5
  <2>6. ASSUME NEW d \in ConnIds, d # c PROVE Accepted'[d] = Accepted[d]
    BY <1>0, <2>1, <2>2, <2>6 DEF Accepted, TypeOK
  <2>7. Accepted' = [Accepted EXCEPT ![c] = Append(@, sent[c] + 1)]
    BY <2>5, <2>6 DEF Accepted
  <2> QED
    BY <2>1, <2>2, <2>3, <2>7 DEF Pipe!Accept
<1>3. ASSUME NEW c \in ConnIds, WriteOK(c) PROVE Pipe!Deliver(c)
  <2>8. /\ base[c] \in Nat /\ sent[c] \in Nat /\ lost[c] \in Nat
        /\ Len(wrote[c]) \in Nat /\ Len(in[c]) \in Nat
    BY <1>0, ConnNumbers
  <2>9. c \in conns /\ hand[c] = base[c] + Len(wrote[c]) + 1
    BY <1>0, <1>3, WriteOKHere
  <2>1. c \in conns /\ hand[c] = base[c] + (Len(wrote[c]) + 1)
    BY <2>8, <2>9
  <2>2. wrote' = [wrote EXCEPT ![c] = Append(@, hand[c])] /\ remote[c] # "broken"
    BY <1>3 DEF WriteOK
  <2>3. UNCHANGED <<conns, sent, base, remote>>
    BY <1>3 DEF WriteOK
  <2>4. Accepted' = Accepted
    BY <2>3 DEF Accepted
  <2>5. Accepted[c] = [i \in 1..(sent[c] - base[c]) |-> base[c] + i]
    BY <2>1 DEF Accepted
  <2>6. Len(wrote[c]) + 1 \in 1..(sent[c] - base[c])
    <3>1. Conserved(c) /\ hand[c] # 0
      BY <1>0, <1>3, <2>1 DEF Accounted, WriteOK
    <3>2. sent[c] = base[c] + Len(wrote[c]) + lost[c] + Held(hand[c])
                    + Len(in[c]) + Held(pend[c])
      BY <3>1 DEF Conserved, Taken, Done
    <3>3. Held(hand[c]) = 1 /\ Held(hand[c]) \in Nat /\ Held(pend[c]) \in Nat
      BY <3>1 DEF Held
    <3> QED
      BY <2>8, <3>2, <3>3, CountArithmetic
  <2>7. Accepted[c][Len(wrote[c]) + 1] = hand[c]
    BY <2>1, <2>5, <2>6
  <2>10. Len(Accepted[c]) = sent[c] - base[c] /\ Len(wrote[c]) < Len(Accepted[c])
    BY <2>5, <2>6, <2>8
  <2> QED
    BY <2>1, <2>2, <2>3, <2>4, <2>7, <2>10 DEF Pipe!Deliver
<1>4. ASSUME NEW c \in ConnIds, TargetReset(c) PROVE Pipe!Break(c)
  <2>1. c \in conns /\ remote[c] # "broken"
    BY <1>0, <1>4 DEF TargetReset, Accounted, Idle
  <2>2. remote' = [remote EXCEPT ![c] = "broken"]
    BY <1>4 DEF TargetReset
  <2>3. {d \in ConnIds : remote'[d] = "broken"}
          = {d \in ConnIds : remote[d] = "broken"} \cup {c}
    BY <1>0, <2>2 DEF TypeOK
  <2>4. UNCHANGED <<conns, sent, base, wrote>>
    BY <1>4 DEF TargetReset, histVars
  <2>5. Accepted' = Accepted
    BY <2>4 DEF Accepted
  <2> QED
    BY <2>1, <2>3, <2>4, <2>5 DEF Pipe!Break
<1>5. ASSUME NEW c \in ConnIds, DialOK(c) \/ TargetClose(c)
      PROVE  UNCHANGED Pipe!vars
  <2>1. \A d \in ConnIds : remote'[d] = "broken" <=> remote[d] = "broken"
    BY <1>0, <1>5 DEF DialOK, TargetClose, TypeOK, Accounted
  <2>2. UNCHANGED <<conns, sent, base, wrote>>
    BY <1>5 DEF DialOK, TargetClose, histVars
  <2>3. Accepted' = Accepted
    BY <2>2 DEF Accepted
  <2> QED
    BY <2>1, <2>2, <2>3 DEF Pipe!vars
<1>6. ASSUME NEW c \in ConnIds, ReadStrayData(c) PROVE UNCHANGED Pipe!vars
  BY <1>0, <1>6, PipeStutter DEF ReadStrayData, connVars, TypeOK
<1>7. ASSUME UNCHANGED <<conns, wrote, remote, base, sent>>
      PROVE  UNCHANGED Pipe!vars
  BY <1>7, PipeStutter
<1>8. (\E c \in ConnIds : ReadClose(c) \/ Enqueue(c) \/ DialFail(c) \/ Dequeue(c)
                          \/ WriteFail(c) \/ RemoteReadEOF(c))
      \/ ReadRejected \/ ReadEOF \/ UNCHANGED vars
      => UNCHANGED <<conns, wrote, remote, base, sent>>
  BY DEF ReadClose, Enqueue, DialFail, Dequeue, WriteFail, RemoteReadEOF,
         ReadRejected, ReadEOF, vars, connVars, histVars
<1> QED
  BY <1>1, <1>2, <1>3, <1>4, <1>5, <1>6, <1>7, <1>8
  DEF Next, Reader, Connection, Target, Pipe!Next

\* The tunnel implements one ordered pipe per connection (packet.go:68-69).
THEOREM TunnelImplementsPipe == Spec => ImplementsPipe
  BY PipeInit, PipeStep, Inductive, PTL DEF Spec, ImplementsPipe, Pipe!Spec
=============================================================================
