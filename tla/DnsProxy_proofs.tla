-------------------------- MODULE DnsProxy_proofs ---------------------------
(* Proofs about DnsDecode, for any set of buffers of any length, and about  *)
(* DnsMessage and DnsProxy, for any messages, table, cache and clock.       *)
EXTENDS DnsProxy, SequenceTheorems, FunctionTheorems, FiniteSetTheorems, TLAPS

\* k elements of a sequence behind the first p.
LEMMA PartOf ==
  ASSUME NEW S, NEW s \in Seq(S), NEW p \in Nat, NEW k \in Nat, p + k <= Len(s)
  PROVE  /\ SubSeq(s, p + 1, p + k) \in Seq(S)
         /\ Len(SubSeq(s, p + 1, p + k)) = k
         /\ \A i \in 1..k : SubSeq(s, p + 1, p + k)[i] = s[p + i]
<1>1. \A i \in (p + 1)..(p + k) : s[i] \in S
  BY ElementOfSeq
<1>2. p + 1 \in Int /\ p + k \in Int
  OBVIOUS
<1>3. /\ SubSeq(s, p + 1, p + k) \in Seq(S)
      /\ Len(SubSeq(s, p + 1, p + k)) = IF p + 1 <= p + k THEN p + k - (p + 1) + 1 ELSE 0
      /\ \A i \in 1..(p + k - (p + 1) + 1) : SubSeq(s, p + 1, p + k)[i] = s[p + 1 + i - 1]
  BY <1>1, <1>2, SubSeqProperties
<1>4. p + k - (p + 1) + 1 = k /\ \A i \in 1..k : p + 1 + i - 1 = p + i
  OBVIOUS
<1> QED
  BY <1>3, <1>4

\* While a name is read the decoder is in the buffer, or it has jumped and the
\* place to come back to is in the buffer.
Reading ==
  /\ stage = "header" => pos = 0 /\ mark = 0
  /\ stage = "label" => IF mark = 0 THEN 12 <= pos /\ pos <= Length
                        ELSE 12 <= mark /\ mark <= Length

IInv == TypeOK /\ NoOverrun /\ BackInPlace /\ Reading

\* A byte of the buffer is a number.
LEMMA ByteIsByte ==
  ASSUME buf \in Seq(Bytes), NEW p \in Nat, p + 1 <= Length
  PROVE  Byte(p) \in Nat
<1>1. p + 1 \in 1..Len(buf)
  BY DEF Length
<1>2. buf[p + 1] \in Bytes
  BY <1>1, ElementOfSeq
<1>3. Bytes \subseteq Nat
  BY DEF Bytes
<1> QED
  BY <1>2, <1>3 DEF Byte

LEMMA WordIsWord ==
  ASSUME buf \in Seq(Bytes), NEW p \in Nat, p + 2 <= Length
  PROVE  U16(p) \in Nat
<1>1. Byte(p) \in Nat /\ Byte(p + 1) \in Nat
  <2>1. Length \in Nat
    BY DEF Length
  <2>2. p + 1 <= Length /\ p + 1 \in Nat /\ (p + 1) + 1 <= Length
    BY <2>1
  <2> QED
    BY <2>2, ByteIsByte
<1> QED
  BY <1>1 DEF U16

LEMMA InitIInv == Init => IInv
<1> SUFFICES ASSUME Init PROVE IInv
  OBVIOUS
<1>1. buf \in Seq(Bytes)
  BY BuffersAssumption DEF Init
<1>2. TypeOK
  BY <1>1 DEF Init, Reset, TypeOK, Stages
<1>3. NoOverrun /\ BackInPlace /\ Reading
  BY DEF Init, Reset, NoOverrun, BackInPlace, Reading
<1> QED
  BY <1>2, <1>3 DEF IInv

\* An error leaves everything but the stage.
LEMMA FailIInv ==
  ASSUME IInv, NEW how \in Errors \ {"overrun"}, Fail(how)
  PROVE  IInv'
<1>1. TypeOK'
  BY DEF Fail, IInv, TypeOK, result, Stages, Ended
<1>2. NoOverrun' /\ BackInPlace' /\ Reading'
  BY DEF Fail, NoOverrun, BackInPlace, Reading, Errors
<1> QED
  BY <1>1, <1>2 DEF IInv

LEMMA LabelIInv ==
  ASSUME IInv, Label
  PROVE  IInv' /\ (stage' = "label" => \/ mark = 0 /\ mark' # 0
                                       \/ mark' = mark /\ pos' > pos)
<1> DEFINE Moves == stage' = "label" => \/ mark = 0 /\ mark' # 0
                                        \/ mark' = mark /\ pos' > pos
<1>0. TypeOK /\ NoOverrun /\ Reading /\ stage = "label"
  BY DEF IInv, Label
<1>1. /\ buf \in Seq(Bytes) /\ Length \in Nat /\ pos \in Nat /\ mark \in Nat
      /\ name \in Seq(Labels)
  BY <1>0 DEF TypeOK, Length
<1>2. ASSUME NEW how \in Errors \ {"overrun"}, Fail(how) PROVE IInv' /\ Moves
  BY <1>2, FailIInv, Zenon DEF Fail, Errors
<1>3. ASSUME Remaining >= 1 PROVE Byte(pos) \in Nat /\ Within(pos, 1) /\ pos + 1 <= Length
  <2>1. pos + 1 <= Length
    BY <1>1, <1>3 DEF Remaining
  <2> QED
    BY <1>1, <2>1, ByteIsByte DEF Within
<1>4. CASE Remaining >= 1 /\ Terminator
  <2> USE <1>0, <1>1, <1>3, <1>4
  <2>1. /\ stage' = "fixed" /\ mark' = 0
        /\ pos' \in Nat /\ 12 <= pos' /\ pos' <= Length
    BY DEF Terminator, Reading
  <2>2. Length' = Length
    BY DEF Terminator, Length
  <2>3. TypeOK'
    BY <2>1 DEF Terminator, TypeOK, result, Stages
  <2>4. NoOverrun' /\ BackInPlace' /\ Reading'
    BY <2>1, <2>2 DEF NoOverrun, BackInPlace, Reading
  <2> QED
    BY <2>1, <2>3, <2>4 DEF IInv
<1>5. CASE Remaining >= 1 /\ Pointer
  <2>1. CASE mark # 0 /\ Fail("recursive pointer")
    BY <2>1, <1>2 DEF Errors
  <2>2. CASE mark = 0 /\ Remaining - 1 < 1 /\ Fail("not enough data")
    BY <2>2, <1>2 DEF Errors
  <2>3. CASE /\ mark = 0 /\ Remaining - 1 >= 1
             /\ IF Within(pos, 2)
                THEN /\ mark' = pos + 2
                     /\ pos' = (Byte(pos) % 64) * 256 + Byte(pos + 1)
                     /\ UNCHANGED stage
                ELSE stage' = "overrun" /\ UNCHANGED <<pos, mark>>
             /\ UNCHANGED <<buf, left, section, result>>
    <3>1. pos + 2 <= Length /\ Within(pos, 2)
      BY <2>3, <1>1 DEF Remaining, Within
    <3>2. Byte(pos) \in Nat /\ Byte(pos + 1) \in Nat
      <4>1. pos + 1 \in Nat /\ (pos + 1) + 1 <= Length
        BY <1>1, <3>1
      <4> QED
        BY <1>1, <1>3, <1>5, <4>1, ByteIsByte
    <3>3. mark' = pos + 2 /\ pos' \in Nat /\ stage' = "label"
      BY <2>3, <3>1, <3>2, <1>0
    <3>4. 12 <= mark' /\ mark' <= Length /\ mark' \in Nat
      BY <2>3, <3>1, <3>3, <1>0, <1>1 DEF Reading
    <3>5. Length' = Length
      BY <2>3 DEF Length
    <3>6. TypeOK'
      BY <2>3, <3>3, <3>4, <1>0 DEF TypeOK, result, Stages
    <3>7. NoOverrun' /\ BackInPlace' /\ Reading'
      BY <3>3, <3>4, <3>5 DEF NoOverrun, BackInPlace, Reading
    <3> QED
      BY <2>3, <3>3, <3>4, <3>6, <3>7, <1>1 DEF IInv
  <2> QED
    BY <1>5, <2>1, <2>2, <2>3 DEF Pointer
<1>6. CASE Remaining >= 1 /\ Text
  <2>1. CASE Byte(pos) > Remaining - 1 /\ Fail("not enough data")
    BY <2>1, <1>2 DEF Errors
  <2>2. CASE /\ Byte(pos) <= Remaining - 1
             /\ IF Within(pos + 1, Byte(pos))
                THEN /\ name' = Append(name, SubSeq(buf, pos + 2, pos + 1 + Byte(pos)))
                     /\ pos' = pos + 1 + Byte(pos)
                     /\ UNCHANGED stage
                ELSE stage' = "overrun" /\ UNCHANGED <<name, pos>>
             /\ UNCHANGED <<buf, mark, left, section, opcode, out>>
    <3>0. Byte(pos) \in Nat /\ Byte(pos) >= 1
      <4>1. Byte(pos) # 0
        BY <1>6, Zenon DEF Text
      <4> QED
        BY <1>3, <1>6, <4>1
    <3>1. pos + 1 + Byte(pos) <= Length /\ Within(pos + 1, Byte(pos))
      BY <2>2, <1>1, <3>0 DEF Remaining, Within
    <3>2. /\ pos' = pos + 1 + Byte(pos) /\ stage' = "label" /\ mark' = mark
          /\ name' = Append(name, SubSeq(buf, pos + 2, pos + 1 + Byte(pos)))
      BY <2>2, <3>1, <1>0
    <3>3. SubSeq(buf, pos + 2, pos + 1 + Byte(pos)) \in Labels
      <4>1. pos + 1 \in Nat /\ (pos + 1) + Byte(pos) <= Len(buf)
        BY <1>1, <3>0, <3>1 DEF Length
      <4>2. /\ SubSeq(buf, (pos + 1) + 1, (pos + 1) + Byte(pos)) \in Seq(Bytes)
            /\ Len(SubSeq(buf, (pos + 1) + 1, (pos + 1) + Byte(pos))) = Byte(pos)
        BY <1>1, <3>0, <4>1, PartOf
      <4>3. (pos + 1) + 1 = pos + 2 /\ (pos + 1) + Byte(pos) = pos + 1 + Byte(pos)
        BY <1>1, <3>0
      <4>4. Byte(pos) < 192
        BY <1>6, Zenon DEF Text
      <4>5. Byte(pos) \in 1..191
        BY <3>0, <4>4
      <4> QED
        BY <4>2, <4>3, <4>5 DEF Labels
    <3>4. name' \in Seq(Labels)
      BY <3>2, <3>3, <1>1, AppendProperties
    <3>5. Length' = Length /\ pos' \in Nat /\ pos' > pos /\ pos' <= Length
      BY <2>2, <3>0, <3>1, <3>2, <1>1 DEF Length
    <3>6. TypeOK'
      BY <2>2, <3>2, <3>4, <3>5, <1>0 DEF TypeOK
    <3>7. NoOverrun' /\ BackInPlace' /\ Reading'
      BY <3>2, <3>5, <1>0, <1>1 DEF NoOverrun, BackInPlace, Reading
    <3> QED
      BY <3>2, <3>5, <3>6, <3>7 DEF IInv
  <2> QED
    BY <1>6, <2>1, <2>2 DEF Text
<1>7. CASE Remaining < 1 /\ Fail("not enough data")
  BY <1>7, <1>2 DEF Errors
<1> QED
  BY <1>4, <1>5, <1>6, <1>7 DEF Label

\* What Quest and Record add behind a name.
LEMMA ItemIInv ==
  ASSUME IInv, stage = "fixed", NEW k \in Nat, NEW size \in Nat,
         pos + k <= Length, stage' = "item", pos' = pos + k,
         out' = Append(out, [section |-> section, name |-> name, size |-> size]),
         UNCHANGED <<buf, mark, left, section, name, opcode>>
  PROVE  IInv'
<1>0. /\ TypeOK /\ BackInPlace
      /\ section \in 1..3 /\ name \in Seq(Labels) /\ pos \in Nat /\ Length \in Nat
  BY DEF IInv, TypeOK, Length
<1>1. out' \in Seq(Items)
  <2>1. [section |-> section, name |-> name, size |-> size]
          \in Items
    BY <1>0 DEF Items
  <2> QED
    BY <1>0, <2>1, AppendProperties DEF TypeOK
<1>2. Length' = Length /\ pos' \in Nat /\ 12 <= pos' /\ pos' <= Length
  BY <1>0 DEF BackInPlace, Length
<1>3. TypeOK'
  BY <1>0, <1>1, <1>2 DEF TypeOK, Stages
<1>4. NoOverrun' /\ BackInPlace' /\ Reading'
  BY <1>0, <1>2 DEF NoOverrun, BackInPlace, Reading
<1> QED
  BY <1>3, <1>4 DEF IInv

LEMMA StepIInv == IInv /\ [Next]_vars => IInv'
<1> SUFFICES ASSUME IInv, [Next]_vars PROVE IInv'
  OBVIOUS
<1>0. /\ TypeOK /\ NoOverrun /\ BackInPlace /\ Reading
      /\ buf \in Seq(Bytes) /\ Length \in Nat /\ pos \in Nat
  BY DEF IInv, TypeOK, Length
<1>r. Remaining \in Int
  BY <1>0 DEF Remaining
<1>1. CASE UNCHANGED vars
  BY <1>0, <1>1 DEF vars, result, IInv, TypeOK, NoOverrun, BackInPlace, Reading, Length
<1>2. CASE Header
  <2>1. CASE Remaining < 12 /\ Fail("no header")
    BY <2>1, FailIInv DEF Errors
  <2>2. CASE Remaining >= 12
    <3>1. Within(pos, 12) /\ pos = 0 /\ mark = 0 /\ 12 <= Length
      <4>1. stage = "header"
        BY <1>2 DEF Header
      <4>2. pos = 0 /\ mark = 0
        BY <4>1, <1>0 DEF Reading
      <4> QED
        BY <4>2, <2>2, <1>0 DEF Remaining, Within
    <3>2. ~(Remaining < 12)
      BY <2>2, <1>0 DEF Remaining
    <3>3. /\ stage' = "item" /\ pos' = 12 /\ mark' = 0
          /\ opcode' = (Byte(2) \div 8) % 16
          /\ left' = <<U16(4), U16(6), U16(10)>>
          /\ UNCHANGED <<buf, section, name, out>>
      <4>1. /\ IF Within(pos, 12)
               THEN /\ stage' = "item" /\ pos' = pos + 12
                    /\ opcode' = (Byte(2) \div 8) % 16
                    /\ left' = <<U16(4), U16(6), U16(10)>>
               ELSE stage' = "overrun" /\ UNCHANGED <<pos, opcode, left>>
            /\ UNCHANGED <<buf, mark, section, name, out>>
        BY <1>2, <3>2, Zenon DEF Header
      <4> QED
        BY <4>1, <3>1
    <3>4. U16(4) \in Nat /\ U16(6) \in Nat /\ U16(10) \in Nat
      <4>1. 4 + 2 <= Length /\ 6 + 2 <= Length /\ 10 + 2 <= Length
        BY <3>1, <1>0
      <4> QED
        BY <4>1, <1>0, WordIsWord
    <3>5. left' \in [1..3 -> Nat]
      BY <3>3, <3>4
    <3>6. opcode' \in 0..15
      <4>1. Byte(2) \in Nat
        <5>1. 2 + 1 <= Length
          BY <3>1, <1>0
        <5> QED
          BY <5>1, <1>0, ByteIsByte
      <4> QED
        BY <3>3, <4>1
    <3>7. TypeOK'
      BY <3>3, <3>5, <3>6, <1>0 DEF TypeOK, Stages
    <3>8. NoOverrun' /\ BackInPlace' /\ Reading'
      BY <3>1, <3>3, <1>0 DEF NoOverrun, BackInPlace, Reading, Length
    <3> QED
      BY <3>7, <3>8 DEF IInv
  <2> QED
    BY <1>r, <1>2, <2>1, <2>2 DEF Header
<1>3. CASE NextItem
  <2> USE <1>0, <1>3 DEF NextItem
  <2>1. TypeOK'
    <3>1. left' \in [1..3 -> Nat]
      BY DEF TypeOK
    <3>2. section' \in 1..3
      BY DEF TypeOK
    <3>3. stage' \in Stages
      BY DEF TypeOK, Stages, Ended
    <3>4. name' \in Seq(Labels)
      <4>1. name' = <<>> \/ name' = name
        BY Zenon
      <4>2. name \in Seq(Labels)
        BY DEF TypeOK
      <4> QED
        BY <4>1, <4>2, EmptySeq
    <3> QED
      BY <3>1, <3>2, <3>3, <3>4 DEF TypeOK
  <2>2. NoOverrun' /\ BackInPlace' /\ Reading'
    BY DEF NoOverrun, BackInPlace, Reading, Length
  <2> QED
    BY <2>1, <2>2 DEF IInv
<1>4. CASE Label
  BY <1>4, LabelIInv
<1>5. CASE Quest
  <2>1. CASE name = <<>> /\ Fail("empty name")
    BY <2>1, FailIInv DEF Errors
  <2>2. CASE Remaining < 4 /\ Fail("not enough data")
    BY <2>2, FailIInv DEF Errors
  <2>3. CASE /\ name # <<>> /\ Remaining >= 4
             /\ IF Within(pos, 4)
                THEN /\ stage' = "item" /\ pos' = pos + 4
                     /\ out' = Append(out, [section |-> section, name |-> name, size |-> 0])
                ELSE stage' = "overrun" /\ UNCHANGED <<pos, out>>
             /\ UNCHANGED <<buf, mark, left, section, name, opcode>>
    <3>1. pos + 4 <= Length /\ Within(pos, 4)
      BY <2>3, <1>0 DEF Remaining, Within
    <3> QED
      BY <2>3, <3>1, <1>5, ItemIInv DEF Quest
  <2> QED
    BY <1>5, <2>1, <2>2, <2>3 DEF Quest
<1>6. CASE Record
  <2>1. CASE Remaining < 10 /\ Fail("not enough data")
    BY <2>1, FailIInv DEF Errors
  <2>2. CASE Remaining >= 10 /\ ~(Remaining < 10)
    <3> DEFINE size == U16(pos + 8)
    <3>1. pos + 10 <= Length /\ Within(pos, 10)
      BY <2>2, <1>0 DEF Remaining, Within
    <3>2. size \in Nat
      BY <3>1, <1>0, WordIsWord
    <3>3. stage = "fixed" /\ UNCHANGED <<buf, mark, left, section, name, opcode>>
      BY <1>6, <2>2 DEF Record, Fail, result
    <3>4. CASE Remaining - 10 < size
      <4>1. Fail("not enough data")
        BY <1>6, <2>2, <3>1, <3>4 DEF Record, Fail, result
      <4> QED
        BY <4>1, FailIInv DEF Errors
    <3>5. CASE ~(Remaining - 10 < size)
      <4>1. /\ stage' = "item" /\ pos' = pos + 10 + size
            /\ out' = Append(out, [section |-> section, name |-> name, size |-> size])
        BY <1>6, <2>2, <3>1, <3>5 DEF Record
      <4>2. 10 + size \in Nat /\ pos + (10 + size) <= Length /\ pos' = pos + (10 + size)
        BY <4>1, <3>1, <3>2, <3>5, <1>0 DEF Remaining
      <4> QED
        BY <4>1, <4>2, <3>2, <3>3, ItemIInv
    <3> QED
      BY <3>4, <3>5
  <2>3. Remaining < 10 \/ (Remaining >= 10 /\ ~(Remaining < 10))
    BY <1>r
  <2>4. CASE Remaining < 10 /\ ~(Remaining >= 10)
    BY <1>6, <2>1, <2>4, Zenon DEF Record
  <2> QED
    BY <1>r, <2>2, <2>3, <2>4
<1> QED
  BY <1>1, <1>2, <1>3, <1>4, <1>5, <1>6 DEF Next

\* The invariant is inductive.
THEOREM Inductive == Spec => []IInv
BY InitIInv, StepIInv, PTL DEF Spec

\* Positions, counts and names have their types, for any buffers.
THEOREM TypeCorrect == Spec => []TypeOK
<1>1. IInv => TypeOK
  BY DEF IInv
<1> QED
  BY <1>1, Inductive, PTL

\* No buffer makes the decoder read outside of it (decode.go:81-318).
THEOREM StaysInside == Spec => []NoOverrun
<1>1. IInv => NoOverrun
  BY DEF IInv
<1> QED
  BY <1>1, Inductive, PTL

\* Behind each name the decoder is back in place, pointer or not
\* (decode.go:63-74).
THEOREM ComesBackInPlace == Spec => []BackInPlace
<1>1. IInv => BackInPlace
  BY DEF IInv
<1> QED
  BY <1>1, Inductive, PTL

\* In a name each step is the one jump or goes forward, so that no cycle of
\* pointers holds the decoder (decode.go:255-288).
THEOREM GoesForward == Spec => Forward
<1>1. IInv /\ [Next]_vars =>
        [(stage = "label" /\ stage' = "label") =>
            \/ mark = 0 /\ mark' # 0
            \/ mark' = mark /\ pos' > pos]_vars
  <2> SUFFICES ASSUME IInv, Next, stage = "label", stage' = "label"
               PROVE  \/ mark = 0 /\ mark' # 0
                      \/ mark' = mark /\ pos' > pos
    BY DEF vars
  <2>1. Label
    BY DEF Next, Header, NextItem, Quest, Record
  <2> QED
    BY <2>1, LabelIInv
<1> QED
  BY <1>1, Inductive, PTL DEF Spec, Forward
-----------------------------------------------------------------------------
(* What Encode has laid out, and where Decode is in it                     *)

Mark(p, k, s) == [at |-> p, item |-> k, rest |-> s]

\* At offset p the encoder began with the rest s of the k-th name, or is about to.
Begun(p, k, s) ==
  \/ Mark(p, k, s) \in trail
  \/ /\ p = Length
     /\ \/ call = "item" /\ k = item + 1 /\ k <= Len(Sent) /\ s = Sent[k].name
        \/ call = "name" /\ k = item /\ s = rest

FixedLen(i) == IF i.section = 1 THEN 4 ELSE 10 + i.size

\* The k-th item is behind the encoder.
Written(k) == k < item \/ (k = item /\ call \in {"item", "sent"})

\* What is behind the k-th name: its fixed part, and then the next name or the end.
\* It is at q, or is about to be.
Behind(q, k) ==
  \/ call = "fixed" /\ k = item /\ q = Length
  \/ /\ Written(k)
     /\ Within(q, FixedLen(Sent[k]))
     /\ Sent[k].section # 1 => U16(q + 8) = Sent[k].size
     /\ k < Len(Sent) => Begun(q + FixedLen(Sent[k]), k + 1, Sent[k + 1].name)
     /\ k = Len(Sent) => q + FixedLen(Sent[k]) = Length

\* The two bytes of a pointer.
PtrHigh(o) == 192 + (o \div 256)
PtrLow(o) == o % 256

\* A mark of the trail is at a terminator, a pointer to another mark of the same
\* rest, or the first label of the rest.
AtZero(p, k, s) == s = <<>> /\ Within(p, 1) /\ Byte(p) = 0 /\ Behind(p + 1, k)
AtPointer(p, k, s) ==
  /\ s # <<>> /\ s \in DOMAIN offsets /\ Within(p, 2)
  /\ Byte(p) = PtrHigh(offsets[s]) /\ Byte(p + 1) = PtrLow(offsets[s])
  /\ Behind(p + 2, k)
AtLabel(p, k, s) ==
  /\ s # <<>> /\ Within(p, 1 + Len(s[1]))
  /\ Byte(p) = Len(s[1]) /\ SubSeq(buf, p + 2, p + 1 + Len(s[1])) = s[1]
  /\ Begun(p + 1 + Len(s[1]), k, Tail(s))
Laid(p, k, s) == AtZero(p, k, s) \/ AtPointer(p, k, s) \/ AtLabel(p, k, s)

Marks == [at : Nat, item : Nat \ {0}, rest : Seq(Labels)]

TrailInv ==
  /\ trail \subseteq Marks
  /\ \A e \in trail : e.item <= item /\ Laid(e.at, e.item, e.rest)

\* The offsets that a pointer can hold.
Pointable == {o \in Nat : o <= 16383}

OffsetsInv ==
  \A s \in DOMAIN offsets :
    /\ offsets[s] \in Pointable
    /\ \E e \in trail : e.at = offsets[s] /\ e.rest = s

\* A number in two bytes, and what is left of one that is longer.
Pair(s, i) == s[i] * 256 + s[i + 1]
Low(n) == n % 65536

HeaderInv ==
  /\ 12 <= Length
  /\ U16(4) = Low(Len(msg.quests))
  /\ U16(6) = Low(Len(msg.answers))
  /\ U16(10) = Low(Len(msg.records))

Calls == {"header", "item", "name", "fixed", "sent"}

\* The items that are begun and not yet ended.
Open == IF call \in {"name", "fixed"} THEN 1 ELSE 0

StartInv ==
  /\ Length >= 12 + (item - Open)
  /\ Len(Sent) = 0 => Length = 12
  /\ Len(Sent) > 0 => Begun(12, 1, Sent[1].name)

\* Encode on its way through a message.
EncodeInv ==
  /\ TrailInv /\ OffsetsInv
  /\ call = "header" => buf = <<>> /\ item = 0 /\ trail = {}
  /\ call # "header" => HeaderInv /\ StartInv
  /\ call = "sent" => item = Len(Sent)

Count(s) == CASE s = 1 -> Len(msg.quests) [] s = 2 -> Len(msg.answers) [] s = 3 -> Len(msg.records)

\* Items whose names have been begun by Decode.
Taken == CASE section = 1 -> Count(1) - left[1]
           [] section = 2 -> Count(1) + Count(2) - left[2]
           [] section = 3 -> Count(1) + Count(2) + Count(3) - left[3]

\* What has been decoded is what was sent so far.
Agrees == Len(out) <= Len(Sent) /\ \A i \in 1..Len(out) : out[i] = Sent[i]

LeftInv ==
  /\ left[section] <= Count(section)
  /\ \A s \in 1..3 : s > section => left[s] = Count(s)

\* Where Decode is in what Encode has laid out.
AtItem ==
  /\ Len(out) = Taken
  /\ Taken < Len(Sent) => Mark(pos, Taken + 1, Sent[Taken + 1].name) \in trail
  /\ Taken = Len(Sent) => pos = Length
AtName ==
  /\ left[section] < Count(section) /\ Len(out) = Taken - 1
  /\ \E e \in trail :
       /\ e.at = pos /\ name \o e.rest = Sent[Taken].name
       /\ mark = 0 => e.item = Taken
       /\ mark # 0 => Behind(mark, Taken)
AtFixed ==
  /\ left[section] < Count(section) /\ Len(out) = Taken - 1
  /\ name = Sent[Taken].name /\ Behind(pos, Taken)

\* Decode on its way through what Encode returned.
DecodeInv ==
  /\ Agrees
  /\ stage = "header" => out = <<>> /\ section = 1
  /\ stage \in {"item", "label", "fixed", "done"} => LeftInv
  /\ stage = "item" => AtItem
  /\ stage = "label" => AtName
  /\ stage = "fixed" => AtFixed
  /\ stage = "done" => Len(out) = Len(Sent) /\ pos = Length

CodecInv == msg # Raw => EncodeInv /\ DecodeInv
-----------------------------------------------------------------------------
(* What Proxy.handle has made of the questions                             *)

CacheInv ==
  \A n \in DOMAIN cache : cache[n] \in [list : Seq(Nat), ts : Times, ttl : 0..(W - 1)]

AnswersTo(n) == {j \in 1..Len(resp.answers) : resp.answers[j].name = n}
SeenOf(n) == {i \in 1..asked : out[i].name = n}

\* The questions come first in what was decoded, and none asks for the root.
QuestsFirst ==
  /\ \A i, j \in 1..Len(out) : i <= j => out[i].section <= out[j].section
  /\ \A i \in 1..Len(out) : out[i].section <= section
  /\ \A i \in 1..Len(out) : out[i].section = 1 => out[i].name # <<>>

LegInv ==
  /\ leg \in {"request", "handle", "response", "crashed", "lost"}
  /\ request \in Messages \cup {Raw}
  /\ leg \in {"request", "handle", "crashed"} => msg = request
  /\ leg \in {"response", "lost"} => msg = resp
  /\ leg = "handle" => stage = "done"

\* The types of what the encoder and handle keep.
EncodeTypes ==
  /\ call \in Calls /\ rest \in Seq(Labels) /\ item \in Nat
  /\ \A s \in DOMAIN offsets : offsets[s] \in Nat
  /\ msg # Raw => msg \in Message /\ item <= Len(Sent)
  /\ call \in {"name", "fixed"} => item >= 1
  /\ call # "sent" => stage = "header" /\ msg # Raw

HandleTypes == resp \in Message /\ asked \in Nat /\ CacheInv

RespInv ==
  /\ leg = "handle" =>
       /\ asked \in 0..Len(out)
       /\ \A i \in 1..asked : Asks(i)
       /\ \A n \in DOMAIN Table : Cardinality(AnswersTo(n)) = Len(Table[n]) * Cardinality(SeenOf(n))
       /\ \A j \in 1..Len(resp.answers) :
            Known(resp.answers[j].name) /\ SeenOf(resp.answers[j].name) # {}
  /\ leg = "response" /\ request # Raw =>
       /\ \A n \in DOMAIN Table :
            Cardinality(AnswersTo(n)) = Len(Table[n]) * Cardinality(AsksFor(n))
       /\ \A j \in 1..Len(resp.answers) :
            Known(resp.answers[j].name) /\ AsksFor(resp.answers[j].name) # {}

TInv == IInv /\ EncodeTypes /\ LegInv /\ HandleTypes /\ QuestsFirst /\ NeverOutlives

-----------------------------------------------------------------------------
(* The bytes that Encode writes                                            *)

LEMMA ZerosBytes ==
  ASSUME NEW n \in Nat
  PROVE  Zeros(n) \in Seq(Bytes) /\ Len(Zeros(n)) = n
<1>1. 0 \in Bytes
  BY DEF Bytes
<1>2. Zeros(n) \in [1..n -> Bytes]
  BY <1>1 DEF Zeros
<1> QED
  BY <1>2

LEMMA WordBytes ==
  ASSUME NEW v \in Nat
  PROVE  /\ Word(v) \in Seq(Bytes) /\ Len(Word(v)) = 2
         /\ Pair(Word(v), 1) = Low(v)
<1>1. (v \div 256) % 256 \in Bytes /\ v % 256 \in Bytes
  BY DEF Bytes
<1>2. (((v \div 256) % 256) * 256) + (v % 256) = v % 65536
  OBVIOUS
<1>3. Word(v)[1] = (v \div 256) % 256 /\ Word(v)[2] = v % 256
  BY DEF Word
<1> QED
  BY <1>1, <1>2, <1>3 DEF Word, Pair, Low

LEMMA LabelBytesLaid ==
  ASSUME NEW l \in Labels
  PROVE  /\ LabelBytes(l) \in Seq(Bytes) /\ Len(LabelBytes(l)) = 1 + Len(l)
         /\ LabelBytes(l)[1] = Len(l)
         /\ \A i \in 1..Len(l) : LabelBytes(l)[1 + i] = l[i]
<1>1. l \in Seq(Bytes) /\ Len(l) \in 1..191
  BY DEF Labels
<1>2. Len(l) % 256 = Len(l) /\ Len(l) \in Bytes
  <2>1. \A k \in 1..191 : k % 256 = k /\ k \in Bytes
    BY DEF Bytes
  <2> QED
    BY <1>1, <2>1
<1>3. <<Len(l)>> \in Seq(Bytes) /\ Len(<<Len(l)>>) = 1 /\ <<Len(l)>>[1] = Len(l)
  BY <1>2
<1>4. LabelBytes(l) = <<Len(l)>> \o l
  BY <1>2 DEF LabelBytes
<1>5. /\ <<Len(l)>> \o l \in Seq(Bytes)
      /\ Len(<<Len(l)>> \o l) = 1 + Len(l)
      /\ \A i \in 1..(1 + Len(l)) :
           (<<Len(l)>> \o l)[i] = IF i <= 1 THEN <<Len(l)>>[i] ELSE l[i - 1]
  <2> DEFINE p == <<Len(l)>>
  <2>1. p \in Seq(Bytes) /\ Len(p) = 1
    BY <1>3
  <2>2. l \in Seq(Bytes)
    BY <1>1
  <2> HIDE DEF p
  <2>3. /\ p \o l \in Seq(Bytes) /\ Len(p \o l) = Len(p) + Len(l)
        /\ \A i \in 1..(Len(p) + Len(l)) : (p \o l)[i] = IF i <= Len(p) THEN p[i] ELSE l[i - Len(p)]
    BY <2>1, <2>2, ConcatProperties, Zenon
  <2> QED
    BY <2>1, <2>3 DEF p
<1>6. \A i \in 1..Len(l) : 1 + i \in 1..(1 + Len(l)) /\ ~(1 + i <= 1) /\ (1 + i) - 1 = i
  BY <1>1
<1>7. 1 \in 1..(1 + Len(l))
  BY <1>1
<1> QED
  BY <1>3, <1>4, <1>5, <1>6, <1>7

LEMMA PointerBytesLaid ==
  ASSUME NEW o \in Nat
  PROVE  /\ PointerBytes(o) \in Seq(Bytes) /\ Len(PointerBytes(o)) = 2
         /\ o <= 16383 => PointerBytes(o)[1] = PtrHigh(o)
         /\ PointerBytes(o)[2] = PtrLow(o)
<1>1. 192 + ((o \div 256) % 64) \in Bytes /\ o % 256 \in Bytes
  BY DEF Bytes
<1>2. o <= 16383 => (o \div 256) % 64 = o \div 256
  OBVIOUS
<1> QED
  BY <1>1, <1>2 DEF PointerBytes, PtrHigh, PtrLow

LEMMA TwoMore ==
  ASSUME NEW s \in Seq(Bytes), NEW t \in Seq(Bytes)
  PROVE  /\ s \o t \in Seq(Bytes) /\ Len(s \o t) = Len(s) + Len(t)
         /\ \A i \in 1..Len(s) : (s \o t)[i] = s[i]
         /\ \A i \in 1..Len(t) : (s \o t)[Len(s) + i] = t[i]
<1>1. /\ s \o t \in Seq(Bytes) /\ Len(s \o t) = Len(s) + Len(t)
      /\ \A i \in 1..(Len(s) + Len(t)) : (s \o t)[i] = IF i <= Len(s) THEN s[i] ELSE t[i - Len(s)]
  BY ConcatProperties, Zenon
<1>2. \A i \in 1..Len(s) : (s \o t)[i] = s[i]
  BY <1>1
<1>3. \A i \in 1..Len(t) : (s \o t)[Len(s) + i] = t[i]
  <2> SUFFICES ASSUME NEW i \in 1..Len(t) PROVE (s \o t)[Len(s) + i] = t[i]
    OBVIOUS
  <2>1. /\ Len(s) + i \in 1..(Len(s) + Len(t)) /\ ~(Len(s) + i <= Len(s))
        /\ (Len(s) + i) - Len(s) = i
    OBVIOUS
  <2> QED
    BY <1>1, <2>1
<1> QED
  BY <1>1, <1>2, <1>3

HeaderBytes ==
  Zeros(2)
  \o <<HeaderByte(msg.answers # <<>> \/ msg.failed, msg.opcode), IF msg.failed THEN 2 ELSE 0>>
  \o Word(Len(msg.quests)) \o Word(Len(msg.answers)) \o Zeros(2) \o Word(Len(msg.records))

LEMMA HeaderBytesLaid ==
  ASSUME msg \in Message
  PROVE  /\ HeaderBytes \in Seq(Bytes) /\ Len(HeaderBytes) = 12
         /\ Pair(HeaderBytes, 5) = Low(Len(msg.quests))
         /\ Pair(HeaderBytes, 7) = Low(Len(msg.answers))
         /\ Pair(HeaderBytes, 11) = Low(Len(msg.records))
<1> DEFINE h == HeaderByte(msg.answers # <<>> \/ msg.failed, msg.opcode)
           g == IF msg.failed THEN 2 ELSE 0
           b == <<h, g>>
           c == Word(Len(msg.quests))
           d == Word(Len(msg.answers))
           e == Word(Len(msg.records))
<1>1. /\ msg.opcode \in 0..15 /\ Len(msg.quests) \in Nat /\ Len(msg.answers) \in Nat
      /\ Len(msg.records) \in Nat
  <2>1. /\ msg.opcode \in 0..15 /\ msg.quests \in Seq(Seq(Labels))
        /\ msg.answers \in Seq(Records) /\ msg.records \in Seq(Records)
    BY DEF Message
  <2> QED
    BY <2>1
<1>2. h \in Bytes /\ g \in Bytes
  <2>1. \A k \in 0..15 : k - (k % 2) \in 0..15
    OBVIOUS
  <2>2. \A k \in 0..15 : k + 1 \in 0..255 /\ 128 + k + 1 \in 0..255 /\ 0 + k + 1 \in 0..255
    OBVIOUS
  <2>3. g \in Bytes
    BY DEF Bytes
  <2>4. \A x \in BOOLEAN, k \in 0..15 : HeaderByte(x, k) \in Bytes
    <3> SUFFICES ASSUME NEW x \in BOOLEAN, NEW k \in 0..15 PROVE HeaderByte(x, k) \in Bytes
      OBVIOUS
    <3> DEFINE z == k - (k % 2)
    <3>1. z \in 0..15 /\ HeaderByte(x, k) = (IF x THEN 128 ELSE 0) + z + 1
      BY <2>1 DEF HeaderByte
    <3> HIDE DEF z
    <3> QED
      BY <2>2, <3>1 DEF Bytes
  <2>5. (msg.answers # <<>> \/ msg.failed) \in BOOLEAN
    BY DEF Message
  <2> QED
    BY <1>1, <2>3, <2>4, <2>5
<1> HIDE DEF h, g
<1>3. b \in Seq(Bytes) /\ Len(b) = 2
  BY <1>2
<1>4. Zeros(2) \in Seq(Bytes) /\ Len(Zeros(2)) = 2
  BY ZerosBytes
<1> HIDE DEF b
<1>5. /\ c \in Seq(Bytes) /\ Len(c) = 2
      /\ d \in Seq(Bytes) /\ Len(d) = 2
      /\ e \in Seq(Bytes) /\ Len(e) = 2
  BY <1>1, WordBytes
<1>6. Pair(c, 1) = Low(Len(msg.quests))
  BY <1>1, WordBytes
<1>7. Pair(d, 1) = Low(Len(msg.answers))
  BY <1>1, WordBytes
<1>0. Pair(e, 1) = Low(Len(msg.records))
  BY <1>1, WordBytes
<1>8. HeaderBytes = Zeros(2) \o b \o c \o d \o Zeros(2) \o e
  BY DEF HeaderBytes, b, h, g
<1> HIDE DEF c, d, e
<1>9. /\ HeaderBytes \in Seq(Bytes) /\ Len(HeaderBytes) = 12
      /\ HeaderBytes[5] = c[1] /\ HeaderBytes[6] = c[2] /\ HeaderBytes[7] = d[1] /\ HeaderBytes[8] = d[2]
      /\ HeaderBytes[11] = e[1] /\ HeaderBytes[12] = e[2]
  <2> DEFINE a == Zeros(2)
  <2>0. a \in Seq(Bytes) /\ Len(a) = 2
    BY <1>4
  <2> HIDE DEF a
  <2> DEFINE x == a \o b  y == x \o c  z == y \o d  v == z \o a  u == v \o e
  <2>1. x \in Seq(Bytes) /\ Len(x) = Len(a) + Len(b)
    BY <1>3, <2>0, TwoMore, Zenon
  <2> HIDE DEF x
  <2>2. /\ y \in Seq(Bytes) /\ Len(y) = Len(x) + Len(c)
        /\ \A i \in 1..Len(c) : y[Len(x) + i] = c[i]
    BY <1>5, <2>1, TwoMore, Zenon
  <2> HIDE DEF y
  <2>3. /\ z \in Seq(Bytes) /\ Len(z) = Len(y) + Len(d)
        /\ \A i \in 1..Len(y) : z[i] = y[i]
        /\ \A i \in 1..Len(d) : z[Len(y) + i] = d[i]
    BY <1>5, <2>2, TwoMore, Zenon
  <2> HIDE DEF z
  <2>4. /\ v \in Seq(Bytes) /\ Len(v) = Len(z) + Len(a)
        /\ \A i \in 1..Len(z) : v[i] = z[i]
    BY <2>0, <2>3, TwoMore, Zenon
  <2> HIDE DEF v
  <2>5. /\ u \in Seq(Bytes) /\ Len(u) = Len(v) + Len(e)
        /\ \A i \in 1..Len(v) : u[i] = v[i]
        /\ \A i \in 1..Len(e) : u[Len(v) + i] = e[i]
    BY <1>5, <2>4, TwoMore, Zenon
  <2> HIDE DEF u
  <2>6. Len(x) = 4 /\ Len(y) = 6 /\ Len(z) = 8 /\ Len(v) = 10 /\ Len(u) = 12
    BY <1>3, <1>5, <2>0, <2>1, <2>2, <2>3, <2>4, <2>5
  <2>7. y[5] = c[1] /\ y[6] = c[2]
    <3>1. y[4 + 1] = c[1] /\ y[4 + 2] = c[2]
      BY <1>5, <2>2, <2>6
    <3> QED
      BY <3>1
  <2>8. z[5] = c[1] /\ z[6] = c[2] /\ z[7] = d[1] /\ z[8] = d[2]
    <3>1. z[6 + 1] = d[1] /\ z[6 + 2] = d[2]
      BY <1>5, <2>3, <2>6
    <3>2. z[5] = y[5] /\ z[6] = y[6]
      BY <2>3, <2>6
    <3> QED
      BY <2>7, <3>1, <3>2
  <2>9. v[5] = c[1] /\ v[6] = c[2] /\ v[7] = d[1] /\ v[8] = d[2]
    BY <2>4, <2>6, <2>8
  <2>10. u[5] = c[1] /\ u[6] = c[2] /\ u[7] = d[1] /\ u[8] = d[2]
    BY <2>5, <2>6, <2>9
  <2>11. u[11] = e[1] /\ u[12] = e[2]
    <3>1. u[10 + 1] = e[1] /\ u[10 + 2] = e[2]
      BY <1>5, <2>5, <2>6
    <3> QED
      BY <3>1
  <2>12. HeaderBytes = u
    BY <1>8 DEF a, u, v, z, y, x
  <2> QED
    BY <2>5, <2>6, <2>10, <2>11, <2>12
<1>10. Pair(HeaderBytes, 5) = Low(Len(msg.quests))
  BY <1>6, <1>9 DEF Pair
<1>11. Pair(HeaderBytes, 7) = Low(Len(msg.answers))
  BY <1>7, <1>9 DEF Pair
<1>12. Pair(HeaderBytes, 11) = Low(Len(msg.records))
  BY <1>0, <1>9 DEF Pair
<1>13. HeaderBytes \in Seq(Bytes) /\ Len(HeaderBytes) = 12
  BY <1>9
<1> QED
  BY <1>10, <1>11, <1>12, <1>13

\* The fixed part of an item has the length that Decode expects, and the size
\* of the data where Decode reads it.
LEMMA FixedLaid ==
  ASSUME NEW i \in Items
  PROVE  /\ Fixed(i) \in Seq(Bytes) /\ Len(Fixed(i)) = FixedLen(i) /\ FixedLen(i) \in Nat
         /\ i.section # 1 => Pair(Fixed(i), 9) = Low(i.size)
<1>1. i.size \in Nat
  BY DEF Items
<1>2. CASE i.section = 1
  <2>1. Zeros(4) \in Seq(Bytes) /\ Len(Zeros(4)) = 4
    BY ZerosBytes
  <2> QED
    BY <1>2, <2>1 DEF Fixed, FixedLen
<1>3. CASE i.section # 1
  <2> DEFINE z == Zeros(8)  w == Word(i.size)  d == Zeros(i.size)  y == z \o w  u == y \o d
  <2>1. z \in Seq(Bytes) /\ Len(z) = 8
    BY ZerosBytes
  <2>2. w \in Seq(Bytes) /\ Len(w) = 2
    BY <1>1, WordBytes
  <2>w. Pair(w, 1) = Low(i.size)
    BY <1>1, WordBytes
  <2>3. d \in Seq(Bytes) /\ Len(d) = i.size
    BY <1>1, ZerosBytes, Zenon
  <2>4. Fixed(i) = u /\ FixedLen(i) = 10 + i.size
    BY <1>3 DEF Fixed, FixedLen
  <2> HIDE DEF z, w, d
  <2>5. /\ y \in Seq(Bytes) /\ Len(y) = Len(z) + Len(w)
        /\ \A j \in 1..Len(w) : y[Len(z) + j] = w[j]
    BY <2>1, <2>2, TwoMore, Zenon
  <2> HIDE DEF y
  <2>6. /\ u \in Seq(Bytes) /\ Len(u) = Len(y) + Len(d)
        /\ \A j \in 1..Len(y) : u[j] = y[j]
    BY <2>3, <2>5, TwoMore, Zenon
  <2> HIDE DEF u
  <2>7. y[9] = w[1] /\ y[10] = w[2]
    <3>1. y[8 + 1] = w[1] /\ y[8 + 2] = w[2]
      BY <2>1, <2>2, <2>5
    <3> QED
      BY <3>1
  <2>8. Len(y) = 10 /\ u[9] = y[9] /\ u[10] = y[10]
    BY <2>1, <2>2, <2>5, <2>6
  <2> QED
    BY <1>1, <1>3, <2>w, <2>3, <2>4, <2>6, <2>7, <2>8 DEF Pair
<1> QED
  BY <1>2, <1>3

-----------------------------------------------------------------------------
(* Types, and what holds of any datagram, long or short                    *)

\* A function on 1..n is a sequence.
LEMMA FunctionIsSequence ==
  ASSUME NEW S, NEW n \in Nat, NEW f \in [1..n -> S]
  PROVE  f \in Seq(S) /\ Len(f) = n
OBVIOUS

\* Three sequences, one behind the other.
LEMMA ThreeParts ==
  ASSUME NEW q \in Seq(Items), NEW a \in Seq(Items), NEW r \in Seq(Items)
  PROVE  /\ (q \o a) \o r \in Seq(Items)
         /\ Len((q \o a) \o r) = Len(q) + Len(a) + Len(r)
         /\ \A i \in 1..Len(q) : ((q \o a) \o r)[i] = q[i]
         /\ \A i \in 1..Len(a) : ((q \o a) \o r)[Len(q) + i] = a[i]
         /\ \A i \in 1..Len(r) : ((q \o a) \o r)[Len(q) + Len(a) + i] = r[i]
<1> DEFINE y == q \o a  u == y \o r
<1>1. Len(q) \in Nat /\ Len(a) \in Nat /\ Len(r) \in Nat
  OBVIOUS
<1>2. /\ y \in Seq(Items) /\ Len(y) = Len(q) + Len(a)
      /\ \A i \in 1..(Len(q) + Len(a)) : y[i] = IF i <= Len(q) THEN q[i] ELSE a[i - Len(q)]
  BY ConcatProperties, Zenon
<1>3. y \in Seq(Items)
  BY <1>2
<1> HIDE DEF y
<1>4. /\ u \in Seq(Items) /\ Len(u) = Len(y) + Len(r)
      /\ \A i \in 1..(Len(y) + Len(r)) : u[i] = IF i <= Len(y) THEN y[i] ELSE r[i - Len(y)]
  BY <1>3, ConcatProperties, Zenon
<1> HIDE DEF u
<1>5. Len(u) = Len(q) + Len(a) + Len(r)
  BY <1>1, <1>2, <1>4
<1>6. \A i \in 1..Len(q) : u[i] = q[i]
  <2> SUFFICES ASSUME NEW i \in 1..Len(q) PROVE u[i] = q[i]
    OBVIOUS
  <2>1. y[i] = q[i]
    BY <1>1, <1>2
  <2>2. u[i] = y[i]
    BY <1>1, <1>2, <1>4
  <2> QED
    BY <2>1, <2>2
<1>7. \A i \in 1..Len(a) : u[Len(q) + i] = a[i]
  <2> SUFFICES ASSUME NEW i \in 1..Len(a) PROVE u[Len(q) + i] = a[i]
    OBVIOUS
  <2>1. /\ Len(q) + i \in 1..(Len(q) + Len(a)) /\ ~(Len(q) + i <= Len(q))
        /\ (Len(q) + i) - Len(q) = i
    BY <1>1
  <2>2. y[Len(q) + i] = a[i]
    BY <1>2, <2>1
  <2>3. u[Len(q) + i] = y[Len(q) + i]
    BY <1>1, <1>2, <1>4, <2>1
  <2> QED
    BY <2>2, <2>3
<1>8. \A i \in 1..Len(r) : u[Len(q) + Len(a) + i] = r[i]
  <2> SUFFICES ASSUME NEW i \in 1..Len(r) PROVE u[Len(q) + Len(a) + i] = r[i]
    OBVIOUS
  <2>1. Len(y) \in Nat /\ Len(y) = Len(q) + Len(a)
    BY <1>1, <1>2
  <2>2. /\ Len(y) + i \in 1..(Len(y) + Len(r)) /\ ~(Len(y) + i <= Len(y))
        /\ (Len(y) + i) - Len(y) = i
    BY <1>1, <2>1
  <2>3. u[Len(y) + i] = r[i]
    BY <1>4, <2>2
  <2> QED
    BY <2>1, <2>3
<1> QED
  BY <1>4, <1>5, <1>6, <1>7, <1>8 DEF u, y

\* What Encode writes, item by item.
LEMMA SentItems ==
  ASSUME msg \in Message
  PROVE  /\ Len(msg.quests) \in Nat /\ Len(msg.answers) \in Nat /\ Len(msg.records) \in Nat
         /\ Sent \in Seq(Items)
         /\ Len(Sent) = Len(msg.quests) + Len(msg.answers) + Len(msg.records)
         /\ \A i \in 1..Len(msg.quests) :
              Sent[i] = [section |-> 1, name |-> msg.quests[i], size |-> 0]
         /\ \A i \in 1..Len(msg.answers) :
              Sent[Len(msg.quests) + i] =
                [section |-> 2, name |-> msg.answers[i].name, size |-> msg.answers[i].size]
         /\ \A i \in 1..Len(msg.records) :
              Sent[Len(msg.quests) + Len(msg.answers) + i] =
                [section |-> 3, name |-> msg.records[i].name, size |-> msg.records[i].size]
<1> DEFINE nq == Len(msg.quests)
           na == Len(msg.answers)
           nr == Len(msg.records)
           q == [i \in 1..nq |-> [section |-> 1, name |-> msg.quests[i], size |-> 0]]
           a == [i \in 1..na |->
                  [section |-> 2, name |-> msg.answers[i].name, size |-> msg.answers[i].size]]
           r == [i \in 1..nr |->
                  [section |-> 3, name |-> msg.records[i].name, size |-> msg.records[i].size]]
<1>1. /\ msg.quests \in Seq(Seq(Labels)) /\ msg.answers \in Seq(Records)
      /\ msg.records \in Seq(Records)
  BY DEF Message
<1>2. /\ nq \in Nat /\ na \in Nat /\ nr \in Nat
  BY <1>1
<1>a. /\ \A i \in 1..nq : msg.quests[i] \in Seq(Labels)
      /\ \A i \in 1..na : msg.answers[i] \in Records
      /\ \A i \in 1..nr : msg.records[i] \in Records
  BY <1>1, ElementOfSeq
<1>6. Sent = (q \o a) \o r
  BY DEF Sent
<1> HIDE DEF nq, na, nr
<1>3. q \in Seq(Items) /\ Len(q) = nq
  <2>1. q \in [1..nq -> Items]
    BY <1>a DEF Items
  <2> HIDE DEF q
  <2> QED
    BY <1>2, <2>1, FunctionIsSequence
<1>4. a \in Seq(Items) /\ Len(a) = na
  <2>1. a \in [1..na -> Items]
    BY <1>a DEF Items, Records
  <2> HIDE DEF a
  <2> QED
    BY <1>2, <2>1, FunctionIsSequence
<1>5. r \in Seq(Items) /\ Len(r) = nr
  <2>1. r \in [1..nr -> Items]
    BY <1>a DEF Items, Records
  <2> HIDE DEF r
  <2> QED
    BY <1>2, <2>1, FunctionIsSequence
<1>7. /\ \A i \in 1..nq : q[i] = [section |-> 1, name |-> msg.quests[i], size |-> 0]
      /\ \A i \in 1..na :
           a[i] = [section |-> 2, name |-> msg.answers[i].name, size |-> msg.answers[i].size]
      /\ \A i \in 1..nr :
           r[i] = [section |-> 3, name |-> msg.records[i].name, size |-> msg.records[i].size]
  OBVIOUS
<1> HIDE DEF q, a, r
<1> DEFINE u == (q \o a) \o r
<1>8. /\ u \in Seq(Items) /\ Len(u) = Len(q) + Len(a) + Len(r)
      /\ \A i \in 1..Len(q) : u[i] = q[i]
      /\ \A i \in 1..Len(a) : u[Len(q) + i] = a[i]
      /\ \A i \in 1..Len(r) : u[Len(q) + Len(a) + i] = r[i]
  <2>1. q \in Seq(Items) /\ a \in Seq(Items) /\ r \in Seq(Items)
    BY <1>3, <1>4, <1>5
  <2> QED
    BY <2>1, ThreeParts, ZenonT(40)
<1>9. Sent = u
  BY <1>6
<1> HIDE DEF u
<1>10. Sent \in Seq(Items) /\ Len(Sent) = nq + na + nr
  BY <1>3, <1>4, <1>5, <1>8, <1>9
<1>11. \A i \in 1..nq : Sent[i] = [section |-> 1, name |-> msg.quests[i], size |-> 0]
  BY <1>3, <1>7, <1>8, <1>9
<1>12. \A i \in 1..na : Sent[nq + i] =
         [section |-> 2, name |-> msg.answers[i].name, size |-> msg.answers[i].size]
  BY <1>3, <1>4, <1>7, <1>8, <1>9
<1>13. \A i \in 1..nr : Sent[nq + na + i] =
         [section |-> 3, name |-> msg.records[i].name, size |-> msg.records[i].size]
  BY <1>3, <1>4, <1>5, <1>7, <1>8, <1>9
<1> QED
  BY <1>2, <1>10, <1>11, <1>12, <1>13 DEF nq, na, nr

\* What a part of Encode does to the types when it does not touch the names.
LEMMA PutTypes ==
  ASSUME buf \in Seq(Bytes), NEW bytes \in Seq(Bytes), Put(bytes)
  PROVE  buf' \in Seq(Bytes) /\ Len(buf') = Len(buf) + Len(bytes)
<1>1. buf' = buf \o bytes
  BY DEF Put
<1>2. buf \o bytes \in Seq(Bytes) /\ Len(buf \o bytes) = Len(buf) + Len(bytes)
  BY TwoMore, Zenon
<1> QED
  BY <1>1, <1>2

\* The encoder at work leaves the decoder where it begins.
LEMMA EncodeIInv ==
  ASSUME IInv, stage = "header", buf' \in Seq(Bytes), UNCHANGED decoder
  PROVE  IInv'
<1>1. /\ stage' = stage /\ pos' = pos /\ mark' = mark /\ left' = left /\ section' = section
      /\ name' = name /\ opcode' = opcode /\ out' = out
  BY DEF decoder, result
<1>2. TypeOK'
  BY <1>1 DEF IInv, TypeOK
<1>3. NoOverrun' /\ BackInPlace' /\ Reading'
  BY <1>1 DEF IInv, NoOverrun, BackInPlace, Reading
<1> QED
  BY <1>2, <1>3 DEF IInv

\* What Encode writes, each call of it.
LEMMA PutHeaderBytes ==
  ASSUME msg \in Message, PutHeader
  PROVE  Put(HeaderBytes) /\ HeaderBytes \in Seq(Bytes)
BY HeaderBytesLaid DEF PutHeader, HeaderBytes

LEMMA PutFixedBytes ==
  ASSUME msg \in Message, item \in 1..Len(Sent), PutFixed
  PROVE  /\ Put(Fixed(Sent[item])) /\ Fixed(Sent[item]) \in Seq(Bytes)
         /\ Sent[item] \in Items
<1>1. Sent[item] \in Items
  BY SentItems, ElementOfSeq
<1> QED
  BY <1>1, FixedLaid DEF PutFixed

LEMMA EncodeTypesStep ==
  ASSUME IInv, EncodeTypes, Encode
  PROVE  IInv' /\ EncodeTypes'
<1>0. /\ buf \in Seq(Bytes) /\ call \in Calls /\ rest \in Seq(Labels) /\ item \in Nat
      /\ \A s \in DOMAIN offsets : offsets[s] \in Nat
      /\ call \in {"name", "fixed"} => item >= 1
  BY DEF IInv, TypeOK, EncodeTypes
<1>1. call # "sent"
  BY DEF Encode, PutHeader, NextName, PutName, PutFixed
<1>2. stage = "header" /\ msg # Raw /\ msg \in Message /\ item <= Len(Sent)
  BY <1>1 DEF EncodeTypes
<1>3. UNCHANGED decoder /\ msg' = msg
  BY DEF Encode, PutHeader, NextName, PutName, PutFixed
<1>4. Sent' = Sent
  BY <1>3 DEF Sent
<1>5. Sent \in Seq(Items) /\ Len(Sent) \in Nat
  BY <1>2, SentItems
<1>6. stage' = "header" /\ msg' # Raw /\ msg' \in Message
  BY <1>2, <1>3 DEF decoder
<1>7. CASE PutHeader
  <2>1. buf' \in Seq(Bytes)
    BY <1>0, <1>2, <1>7, PutHeaderBytes, PutTypes
  <2>2. call' = "item" /\ UNCHANGED <<offsets, item, rest>>
    BY <1>7 DEF PutHeader
  <2>3. EncodeTypes'
    BY <1>0, <1>2, <1>4, <1>6, <2>2 DEF EncodeTypes, Calls
  <2> QED
    BY <1>2, <1>3, <2>1, <2>3, EncodeIInv
<1>8. CASE NextName
  <2>1. buf' \in Seq(Bytes) /\ offsets' = offsets
    BY <1>0, <1>8 DEF NextName
  <2>2. CASE /\ item < Len(Sent)
             /\ item' = item + 1 /\ rest' = Sent[item + 1].name /\ call' = "name"
    <3>1. item + 1 \in 1..Len(Sent)
      BY <1>0, <1>5, <2>2
    <3>2. Sent[item + 1] \in Items
      BY <1>5, <3>1, ElementOfSeq
    <3>3. rest' \in Seq(Labels)
      BY <2>2, <3>2 DEF Items
    <3>4. item' \in Nat /\ item' >= 1 /\ item' <= Len(Sent)
      BY <1>0, <1>5, <2>2
    <3>5. EncodeTypes'
      BY <1>0, <1>4, <1>6, <2>1, <2>2, <3>3, <3>4 DEF EncodeTypes, Calls
    <3> QED
      BY <1>2, <1>3, <2>1, <3>5, EncodeIInv
  <2>3. CASE call' = "sent" /\ UNCHANGED <<item, rest>>
    <3>1. EncodeTypes'
      BY <1>0, <1>2, <1>4, <1>6, <2>1, <2>3 DEF EncodeTypes, Calls
    <3> QED
      BY <1>2, <1>3, <2>1, <3>1, EncodeIInv
  <2> QED
    BY <1>8, <2>2, <2>3 DEF NextName
<1>9. CASE PutName
  <2>0. item' = item /\ call = "name" /\ item' >= 1
    BY <1>0, <1>9 DEF PutName
  <2>1. CASE Put(<<0>>) /\ call' = "fixed" /\ UNCHANGED <<offsets, rest>>
    <3>1. <<0>> \in Seq(Bytes)
      BY DEF Bytes
    <3>2. buf' \in Seq(Bytes)
      BY <1>0, <2>1, <3>1, PutTypes
    <3>3. EncodeTypes'
      BY <1>0, <1>2, <1>4, <1>6, <2>0, <2>1 DEF EncodeTypes, Calls
    <3> QED
      BY <1>2, <1>3, <3>2, <3>3, EncodeIInv
  <2>2. CASE /\ rest # <<>> /\ rest \in DOMAIN offsets
             /\ Put(PointerBytes(offsets[rest])) /\ call' = "fixed"
             /\ UNCHANGED <<offsets, rest>>
    <3>1. PointerBytes(offsets[rest]) \in Seq(Bytes)
      BY <1>0, <2>2, PointerBytesLaid
    <3>2. buf' \in Seq(Bytes)
      BY <1>0, <2>2, <3>1, PutTypes
    <3>3. EncodeTypes'
      BY <1>0, <1>2, <1>4, <1>6, <2>0, <2>2 DEF EncodeTypes, Calls
    <3> QED
      BY <1>2, <1>3, <3>2, <3>3, EncodeIInv
  <2>3. CASE /\ rest # <<>> /\ Store
             /\ Put(LabelBytes(rest[1])) /\ rest' = Tail(rest)
             /\ UNCHANGED call
    <3>1. rest[1] \in Labels /\ Tail(rest) \in Seq(Labels)
      BY <1>0, <2>3
    <3>2. LabelBytes(rest[1]) \in Seq(Bytes)
      BY <3>1, LabelBytesLaid
    <3>3. buf' \in Seq(Bytes)
      BY <1>0, <2>3, <3>2, PutTypes
    <3>4. \A s \in DOMAIN offsets' : offsets'[s] \in Nat
      <4>1. Len(buf) % 65536 \in Nat
        BY <1>0
      <4> QED
        BY <1>0, <2>3, <4>1 DEF Store
    <3>5. EncodeTypes'
      BY <1>0, <1>2, <1>4, <1>6, <2>0, <2>3, <3>1, <3>4 DEF EncodeTypes, Calls
    <3> QED
      BY <1>2, <1>3, <3>3, <3>5, EncodeIInv
  <2> QED
    BY <1>9, <2>1, <2>2, <2>3 DEF PutName
<1>10. CASE PutFixed
  <2>1. item \in 1..Len(Sent)
    BY <1>0, <1>2, <1>5, <1>10 DEF PutFixed
  <2>2. buf' \in Seq(Bytes)
    BY <1>0, <1>2, <1>10, <2>1, PutFixedBytes, PutTypes
  <2>3. call' = "item" /\ UNCHANGED <<offsets, item, rest>>
    BY <1>10 DEF PutFixed
  <2>4. EncodeTypes'
    BY <1>0, <1>2, <1>4, <1>6, <2>3 DEF EncodeTypes, Calls
  <2> QED
    BY <1>2, <1>3, <2>2, <2>4, EncodeIInv
<1> QED
  BY <1>7, <1>8, <1>9, <1>10 DEF Encode

\* Decode adds an item at a time, of the section it is in.
LEMMA NextOut ==
  ASSUME IInv, Next
  PROVE  \/ out' = out /\ section' \in 1..3 /\ section' >= section
         \/ /\ stage = "fixed" /\ section' = section
            /\ section = 1 => name # <<>>
            /\ \E size \in Nat :
                 out' = Append(out, [section |-> section, name |-> name, size |-> size])
<1>0. section \in 1..3 /\ pos \in Nat /\ buf \in Seq(Bytes) /\ Length \in Nat
  BY DEF IInv, TypeOK, Length
<1>1. CASE Header
  <2>1. out' = out /\ section' = section
    BY <1>1, Zenon DEF Header, Fail, result
  <2> QED
    BY <1>0, <2>1
<1>2. CASE NextItem
  BY <1>0, <1>2 DEF NextItem
<1>3. CASE Label
  <2>1. out' = out /\ section' = section
    BY <1>3, Zenon DEF Label, Terminator, Pointer, Text, Fail, result
  <2> QED
    BY <1>0, <2>1
<1>4. CASE Quest
  <2>1. \/ out' = out /\ section' = section
        \/ /\ stage = "fixed" /\ section' = section /\ name # <<>>
           /\ out' = Append(out, [section |-> section, name |-> name, size |-> 0])
    BY <1>4 DEF Quest, Fail, result
  <2> QED
    BY <1>0, <2>1
<1>5. CASE Record
  <2>0. stage = "fixed" /\ section' = section /\ section > 1
    BY <1>5, Zenon DEF Record, Fail, result
  <2>1. out' = out \/
        /\ Within(pos, 10)
        /\ out' = Append(out, [section |-> section, name |-> name, size |-> U16(pos + 8)])
    BY <1>5, Zenon DEF Record, Fail, result
  <2>2. ASSUME Within(pos, 10) PROVE U16(pos + 8) \in Nat
    <3>1. pos + 8 \in Nat /\ (pos + 8) + 2 <= Length
      BY <1>0, <2>2 DEF Within
    <3> QED
      BY <1>0, <3>1, WordIsWord
  <2> QED
    BY <1>0, <2>0, <2>1, <2>2
<1> QED
  BY <1>1, <1>2, <1>3, <1>4, <1>5 DEF Next

LEMMA QuestsFirstStep ==
  ASSUME IInv, QuestsFirst, Next
  PROVE  QuestsFirst'
<1>0. out \in Seq(Items) /\ section \in 1..3 /\ name \in Seq(Labels)
      /\ Len(out) \in Nat /\ \A i \in 1..Len(out) : out[i].section \in 1..3
  <2>1. out \in Seq(Items) /\ section \in 1..3 /\ name \in Seq(Labels)
    BY DEF IInv, TypeOK
  <2>2. \A i \in 1..Len(out) : out[i] \in Items
    BY <2>1, ElementOfSeq
  <2> QED
    BY <2>1, <2>2 DEF Items
<1>1. CASE out' = out /\ section' \in 1..3 /\ section' >= section
  BY <1>0, <1>1 DEF QuestsFirst
<1>2. CASE /\ section' = section
           /\ section = 1 => name # <<>>
           /\ \E size \in Nat :
                out' = Append(out, [section |-> section, name |-> name, size |-> size])
  <2>1. PICK size \in Nat :
          out' = Append(out, [section |-> section, name |-> name, size |-> size])
    BY <1>2
  <2> DEFINE e == [section |-> section, name |-> name, size |-> size]
  <2>2. e \in Items /\ e.section = section /\ e.name = name
    BY <1>0 DEF Items
  <2> HIDE DEF e
  <2>3. /\ Len(out') = Len(out) + 1 /\ out'[Len(out) + 1] = e
        /\ \A i \in 1..Len(out) : out'[i] = out[i]
    BY <1>0, <2>1, <2>2, AppendProperties DEF e
  <2>4. \A i \in 1..Len(out') : i \in 1..Len(out) \/ i = Len(out) + 1
    BY <1>0, <2>3
  <2>5. \A i \in 1..Len(out') : out'[i].section <= section'
    BY <1>2, <2>2, <2>3, <2>4, <1>0 DEF QuestsFirst
  <2>6. \A i \in 1..Len(out') : out'[i].section = 1 => out'[i].name # <<>>
    BY <1>2, <2>2, <2>3, <2>4 DEF QuestsFirst
  <2>7. \A i, j \in 1..Len(out') : i <= j => out'[i].section <= out'[j].section
    <3> SUFFICES ASSUME NEW i \in 1..Len(out'), NEW j \in 1..Len(out'), i <= j
                 PROVE  out'[i].section <= out'[j].section
      OBVIOUS
    <3>1. CASE j \in 1..Len(out)
      <4>1. i \in 1..Len(out)
        BY <1>0, <2>3, <3>1
      <4> QED
        BY <2>3, <3>1, <4>1 DEF QuestsFirst
    <3>2. CASE j = Len(out) + 1
      BY <1>2, <2>2, <2>3, <2>5, <3>2
    <3> QED
      BY <2>4, <3>1, <3>2
  <2> QED
    BY <2>5, <2>6, <2>7 DEF QuestsFirst
<1> QED
  BY <1>1, <1>2, NextOut

\* A step of either coder keeps the types.
LEMMA CodingTInv ==
  ASSUME TInv, Coding
  PROVE  TInv'
<1>0. IInv /\ EncodeTypes /\ LegInv /\ HandleTypes /\ QuestsFirst /\ NeverOutlives
  BY DEF TInv
<1>1. UNCHANGED proxy /\ leg \in {"request", "response"} /\ MsgNext
  BY DEF Coding
<1>2. msg' = msg
  BY <1>1 DEF MsgNext, Encode, PutHeader, NextName, PutName, PutFixed
<1>3. LegInv' /\ HandleTypes' /\ NeverOutlives'
  BY <1>0, <1>1, <1>2 DEF proxy, LegInv, HandleTypes, CacheInv, NeverOutlives
<1>4. CASE Encode
  <2>1. IInv' /\ EncodeTypes'
    BY <1>0, <1>4, EncodeTypesStep
  <2>2. UNCHANGED <<out, section>>
    BY <1>4 DEF Encode, PutHeader, NextName, PutName, PutFixed, decoder, result
  <2>3. QuestsFirst'
    BY <1>0, <2>2 DEF QuestsFirst
  <2> QED
    BY <1>3, <2>1, <2>3 DEF TInv
<1>5. CASE call = "sent" /\ Next /\ UNCHANGED <<msg, encoder>>
  <2>1. IInv'
    BY <1>0, <1>5, StepIInv
  <2>2. EncodeTypes'
    <3>1. UNCHANGED <<msg, call, offsets, item, rest>>
      BY <1>5 DEF encoder
    <3>2. Sent' = Sent
      BY <3>1 DEF Sent
    <3> QED
      BY <1>0, <1>5, <3>1, <3>2 DEF EncodeTypes
  <2>3. QuestsFirst'
    BY <1>0, <1>5, QuestsFirstStep
  <2> QED
    BY <1>3, <2>1, <2>2, <2>3 DEF TInv
<1> QED
  BY <1>1, <1>4, <1>5 DEF MsgNext

LEMMA Remainder ==
  ASSUME NEW a \in Int, NEW w \in Nat \ {0}
  PROVE  /\ a % w \in 0..(w - 1)
         /\ 0 <= a /\ a < w => a % w = a
         /\ -w < a /\ a < 0 => a % w = a + w
         /\ a < 0 => a <= (a % w) - w
<1>1. a % w \in 0..(w - 1)
  OBVIOUS
<1>2. 0 <= a /\ a < w => a % w = a
  OBVIOUS
<1>3. -w < a /\ a < 0 => a % w = a + w
  OBVIOUS
<1>4. a < 0 => a <= (a % w) - w
  OBVIOUS
<1> QED
  BY <1>1, <1>2, <1>3, <1>4

\* The unsigned subtraction of Cache.Get, with a clock that may stand before the
\* fill: what is left never exceeds what was left in truth.
LEMMA RestIsShort ==
  ASSUME NEW ts \in Nat, NEW ttl \in 0..(W - 1), NEW now \in Nat, now - ttl < ts,
         NEW entry, entry.ts = ts, entry.ttl = ttl
  PROVE  now + Rest(entry, now) <= ts + ttl
<1>0. W \in Nat \ {0}
  BY TimesAssumption
<1> DEFINE d == now - ts  m == d % W  x == ttl - m
<1>1. d \in Int /\ d < ttl /\ ttl \in Nat /\ ttl < W
  BY <1>0
<1>2. now = ts + d
  BY <1>0
<1>3. Rest(entry, now) = x % W
  BY DEF Rest
<1> HIDE DEF d
<1>4. m \in 0..(W - 1) /\ (0 <= d /\ d < W => m = d) /\ (d < 0 => d <= m - W)
  BY <1>0, <1>1, Remainder
<1> HIDE DEF m
<1>5. x \in Int /\ -W < x /\ x < W
  BY <1>0, <1>1, <1>4
<1>6. (0 <= x => x % W = x) /\ (x < 0 => x % W = x + W)
  BY <1>0, <1>5, Remainder
<1>7. x % W <= ttl - d
  <2>1. CASE 0 <= d
    <3>1. m = d
      BY <1>0, <1>1, <1>4, <2>1
    <3>2. x = ttl - d /\ 0 <= x
      BY <1>1, <3>1
    <3> QED
      BY <1>1, <1>6, <3>2
  <2>2. CASE d < 0 /\ 0 <= x
    <3>1. x <= ttl - d
      BY <1>0, <1>1, <1>4, <2>2
    <3> QED
      BY <1>6, <2>2, <3>1
  <2>3. CASE d < 0 /\ x < 0
    <3>1. x + W <= ttl - d
      BY <1>0, <1>1, <1>4, <2>3
    <3> QED
      BY <1>6, <2>3, <3>1
  <2> QED
    BY <1>1, <1>5, <2>1, <2>2, <2>3
<1>8. x % W \in Int
  BY <1>0, <1>5
<1> HIDE DEF x
<1>9. now + (x % W) <= ts + ttl
  BY <1>1, <1>2, <1>7, <1>8
<1> QED
  BY <1>3, <1>9

\* What handle finds for a name, in the table or in the cache.
LEMMA CacheGetList ==
  ASSUME CacheInv, NEW n, NEW now \in Times
  PROVE  /\ CacheGet(Entry(n), now).list \in Seq(Nat)
         /\ CacheGet(Entry(n), now).list # <<>> =>
              /\ n \in DOMAIN cache /\ Entry(n) = cache[n]
              /\ CacheGet(Entry(n), now).list = cache[n].list
              /\ now - cache[n].ttl < cache[n].ts
              /\ CacheGet(Entry(n), now).ttl = Rest(cache[n], now)
<1>0. W \in Nat \ {0} /\ now \in Nat
  BY TimesAssumption
<1>1. CASE n \in DOMAIN cache
  <2>1. /\ Entry(n) = cache[n] /\ cache[n].list \in Seq(Nat) /\ cache[n].ts \in Nat
        /\ cache[n].ttl \in Nat
    <3>1. cache[n] \in [list : Seq(Nat), ts : Times, ttl : 0..(W - 1)]
      BY <1>1 DEF CacheInv
    <3>2. \A k \in 0..(W - 1) : k \in Nat
      BY <1>0
    <3>3. cache[n].ts \in Nat /\ cache[n].ttl \in Nat /\ cache[n].list \in Seq(Nat)
      BY <3>1, <3>2, TimesAssumption
    <3> QED
      BY <1>1, <3>3 DEF Entry
  <2>2. CASE now - cache[n].ttl >= cache[n].ts
    BY <1>1, <2>1, <2>2 DEF CacheGet
  <2>3. CASE ~(now - cache[n].ttl >= cache[n].ts)
    <3>1. now - cache[n].ttl < cache[n].ts
      BY <1>0, <2>1, <2>3
    <3> QED
      BY <1>1, <2>1, <2>3, <3>1 DEF CacheGet
  <2> QED
    BY <2>2, <2>3
<1>2. CASE n \notin DOMAIN cache
  <2>1. Entry(n).list = <<>>
    BY <1>2 DEF Entry, NoEntry
  <2>2. CacheGet(Entry(n), now).list = <<>>
    BY <2>1 DEF CacheGet
  <2> QED
    BY <2>2
<1> QED
  BY <1>1, <1>2

LEMMA CacheSetTInv ==
  ASSUME TInv, CacheSet
  PROVE  TInv'
<1>0. /\ IInv /\ EncodeTypes /\ LegInv /\ HandleTypes /\ QuestsFirst /\ NeverOutlives
      /\ UNCHANGED <<vars, msg, encoder, leg, request, read, asked, resp>>
  BY DEF TInv, CacheSet
<1>1. IInv'
  BY <1>0, StepIInv
<1>2. EncodeTypes' /\ LegInv' /\ QuestsFirst' /\ NeverOutlives'
  BY <1>0 DEF EncodeTypes, Sent, LegInv, QuestsFirst, NeverOutlives, encoder, vars, result
<1>3. CacheInv'
  <2>1. PICK f \in Fills, t \in Times :
          cache' = [n \in {f.name} |-> [list |-> f.list, ts |-> t, ttl |-> f.ttl]]
    BY DEF CacheSet
  <2>2. f.list \in Seq(Nat) /\ f.ttl \in 0..(W - 1)
    BY FillsAssumption
  <2> QED
    BY <2>1, <2>2 DEF CacheInv
<1>4. HandleTypes'
  BY <1>0, <1>3 DEF HandleTypes
<1> QED
  BY <1>1, <1>2, <1>4 DEF TInv

\* A step that touches the leg only, and neither begins nor ends the handling.
LEMMA LegTInv ==
  ASSUME TInv, leg' \in {"crashed", "lost"}, leg = "request" \/ leg = "response",
         leg' = "crashed" => leg = "request", leg' = "lost" => leg = "response",
         UNCHANGED <<vars, msg, encoder, request, cache, read, asked, resp>>
  PROVE  TInv'
<1>0. /\ IInv /\ EncodeTypes /\ LegInv /\ HandleTypes /\ QuestsFirst /\ NeverOutlives
  BY DEF TInv
<1>1. IInv'
  BY <1>0, StepIInv
<1>2. EncodeTypes' /\ QuestsFirst' /\ NeverOutlives' /\ HandleTypes'
  BY <1>0 DEF EncodeTypes, Sent, QuestsFirst, NeverOutlives, HandleTypes, CacheInv,
              encoder, vars, result
<1>3. LegInv'
  BY <1>0 DEF LegInv
<1> QED
  BY <1>1, <1>2, <1>3 DEF TInv

LEMMA HandleStartsTInv ==
  ASSUME TInv, HandleStarts
  PROVE  TInv'
<1>0. /\ IInv /\ EncodeTypes /\ LegInv /\ HandleTypes /\ QuestsFirst /\ NeverOutlives
      /\ leg = "request" /\ leg' = "handle" /\ asked' = 0 /\ stage = "done"
      /\ UNCHANGED <<vars, msg, encoder, request, cache, read>>
  BY DEF TInv, HandleStarts, Answerable
<1>1. IInv'
  BY <1>0, StepIInv
<1>2. EncodeTypes' /\ QuestsFirst' /\ NeverOutlives' /\ CacheInv'
  BY <1>0 DEF EncodeTypes, Sent, QuestsFirst, NeverOutlives, HandleTypes, CacheInv,
              encoder, vars, result
<1>3. LegInv'
  BY <1>0 DEF LegInv, vars
<1>4. resp' \in Message
  <2>1. opcode \in 0..15
    BY <1>0 DEF IInv, TypeOK
  <2>2. resp' = [opcode |-> opcode, failed |-> FALSE, quests |-> <<>>, answers |-> <<>>,
                 records |-> <<[name |-> <<>>, size |-> 0]>>]
    BY DEF HandleStarts, NoAnswer
  <2>3. <<[name |-> <<>>, size |-> 0]>> \in Seq(Records)
    BY DEF Records
  <2> QED
    BY <2>1, <2>2, <2>3 DEF Message
<1> QED
  BY <1>0, <1>1, <1>2, <1>3, <1>4 DEF TInv, HandleTypes

\* The response stays a message, whatever is added to it.
LEMMA AddMessage ==
  ASSUME resp \in Message, NEW n \in Seq(Labels), NEW list \in Seq(Nat), Add(n, list)
  PROVE  resp' \in Message
<1>1. CASE ~HasList(n, list)
  BY <1>1 DEF Add
<1>2. CASE HasList(n, list)
  <2>1. Answers(n, list) \in Seq(Records)
    <3>1. Answers(n, list) \in [1..Len(list) -> Records]
      BY ElementOfSeq DEF Answers, Records
    <3> QED
      BY <3>1, FunctionIsSequence
  <2>2. resp.quests \in Seq(Seq(Labels)) /\ resp.answers \in Seq(Records)
    BY DEF Message
  <2>3. Append(resp.quests, n) \in Seq(Seq(Labels))
    BY <2>2, AppendProperties
  <2>4. resp.answers \o Answers(n, list) \in Seq(Records)
    BY <2>1, <2>2, ConcatProperties, Zenon
  <2>5. resp' = [resp EXCEPT !.quests = Append(@, n), !.answers = @ \o Answers(n, list)]
    BY <1>2 DEF Add
  <2> QED
    BY <2>3, <2>4, <2>5 DEF Message
<1> QED
  BY <1>1, <1>2

LEMMA HandleQuestTInv ==
  ASSUME TInv, HandleQuest
  PROVE  TInv'
<1>0. /\ IInv /\ EncodeTypes /\ LegInv /\ HandleTypes /\ QuestsFirst /\ NeverOutlives
      /\ leg = "handle" /\ asked' = asked + 1
      /\ UNCHANGED <<vars, msg, encoder, leg, request, cache>>
  BY DEF TInv, HandleQuest
<1>1. IInv'
  BY <1>0, StepIInv
<1>2. EncodeTypes' /\ QuestsFirst' /\ CacheInv'
  BY <1>0 DEF EncodeTypes, Sent, QuestsFirst, HandleTypes, CacheInv, encoder, vars, result
<1>3. LegInv'
  BY <1>0 DEF LegInv, vars
<1> DEFINE n == out[asked + 1].name
<1>4. n \in Seq(Labels)
  <2>1. asked + 1 \in 1..Len(out) /\ out \in Seq(Items)
    BY <1>0 DEF HandleQuest, Asks, IInv, TypeOK
  <2>2. out[asked + 1] \in Items
    BY <2>1, ElementOfSeq
  <2> QED
    BY <2>2 DEF Items
<1>5. CASE n \in DOMAIN Table /\ Add(n, Table[n]) /\ UNCHANGED read
  <2>1. Table[n] \in Seq(Nat)
    BY <1>5, TableAssumption
  <2>2. resp' \in Message
    BY <1>0, <1>4, <1>5, <2>1, AddMessage DEF HandleTypes
  <2>3. NeverOutlives'
    BY <1>0, <1>5 DEF NeverOutlives
  <2> QED
    BY <1>0, <1>1, <1>2, <1>3, <2>2, <2>3 DEF TInv, HandleTypes
<1>6. CASE /\ n \notin DOMAIN Table
           /\ \E now \in Times : \E hit \in {CacheGet(Entry(n), now)} :
                /\ Add(n, hit.list)
                /\ read' = IF HasList(n, hit.list)
                           THEN read \cup {[entry |-> Entry(n), now |-> now, rest |-> hit.ttl]}
                           ELSE read
  <2>1. PICK now \in Times : \E hit \in {CacheGet(Entry(n), now)} :
                /\ Add(n, hit.list)
                /\ read' = IF HasList(n, hit.list)
                           THEN read \cup {[entry |-> Entry(n), now |-> now, rest |-> hit.ttl]}
                           ELSE read
    BY <1>6
  <2> DEFINE hit == CacheGet(Entry(n), now)
  <2>2. /\ Add(n, hit.list)
        /\ read' = IF HasList(n, hit.list)
                   THEN read \cup {[entry |-> Entry(n), now |-> now, rest |-> hit.ttl]}
                   ELSE read
    BY <2>1
  <2>3. /\ hit.list \in Seq(Nat)
        /\ hit.list # <<>> =>
             /\ n \in DOMAIN cache /\ Entry(n) = cache[n]
             /\ now - cache[n].ttl < cache[n].ts
             /\ hit.ttl = Rest(cache[n], now)
    BY <1>0, CacheGetList DEF HandleTypes
  <2> HIDE DEF hit, n
  <2>4. resp' \in Message
    BY <1>0, <1>4, <2>2, <2>3, AddMessage DEF HandleTypes
  <2>5. NeverOutlives'
    <3>1. CASE ~HasList(n, hit.list)
      BY <1>0, <2>2, <3>1 DEF NeverOutlives
    <3>2. CASE HasList(n, hit.list)
      <4>1. /\ n \in DOMAIN cache /\ Entry(n) = cache[n]
            /\ now - cache[n].ttl < cache[n].ts
            /\ hit.ttl = Rest(cache[n], now)
        BY <2>3, <3>2 DEF HasList
      <4>2. cache[n].ts \in Nat /\ cache[n].ttl \in 0..(W - 1) /\ now \in Nat
        BY <1>0, <4>1, TimesAssumption DEF HandleTypes, CacheInv
      <4>3. now + hit.ttl <= cache[n].ts + cache[n].ttl
        BY <4>1, <4>2, RestIsShort
      <4>4. read' = read \cup {[entry |-> cache[n], now |-> now, rest |-> hit.ttl]}
        BY <2>2, <3>2, <4>1
      <4> QED
        BY <1>0, <4>3, <4>4 DEF NeverOutlives
    <3> QED
      BY <3>1, <3>2
  <2> QED
    BY <1>0, <1>1, <1>2, <1>3, <2>4, <2>5 DEF TInv, HandleTypes
<1> QED
  BY <1>5, <1>6 DEF HandleQuest

LEMMA SentLength == msg \in Message => Len(Sent) \in Nat
BY SentItems

LEMMA RespondTInv ==
  ASSUME TInv, Respond
  PROVE  TInv'
<1>0. /\ IInv /\ EncodeTypes /\ LegInv /\ HandleTypes /\ QuestsFirst /\ NeverOutlives
      /\ UNCHANGED <<request, cache, read, asked, resp>>
  BY DEF TInv, Respond
<1>1. IInv'
  <2>1. TypeOK'
    BY DEF Respond, TypeOK, Stages
  <2>2. NoOverrun' /\ BackInPlace' /\ Reading'
    BY DEF Respond, NoOverrun, BackInPlace, Reading
  <2> QED
    BY <2>1, <2>2 DEF IInv
<1>2. EncodeTypes'
  <2>1. msg' \in Message /\ msg' # Raw
    BY <1>0, RawAssumption DEF Respond, HandleTypes
  <2>2. Len(Sent') \in Nat
    <3>1. (msg \in Message => Len(Sent) \in Nat)'
      BY SentLength, PTL
    <3> QED
      BY <2>1, <3>1
  <2> QED
    BY <2>1, <2>2 DEF Respond, EncodeTypes, Calls
<1>3. QuestsFirst'
  BY DEF Respond, QuestsFirst
<1>4. LegInv' /\ HandleTypes' /\ NeverOutlives'
  BY <1>0 DEF Respond, LegInv, HandleTypes, CacheInv, NeverOutlives
<1> QED
  BY <1>1, <1>2, <1>3, <1>4 DEF TInv

LEMMA InitTInv == ProxyInit => TInv
<1> SUFFICES ASSUME ProxyInit PROVE TInv
  OBVIOUS
<1>1. /\ leg = "request" /\ request = msg /\ cache = <<>> /\ read = {} /\ asked = 0
      /\ resp = NoAnswer /\ offsets = <<>> /\ item = 0 /\ rest = <<>>
      /\ call \in {"header", "sent"} /\ Reset
  BY DEF ProxyInit, EncodeInit
<1>2. /\ msg \in Messages \cup {Raw} /\ (msg = Raw => call = "sent")
      /\ buf \in Seq(Bytes)
  <2>1. CASE msg \in Messages /\ EncodeInit
    BY <2>1, MessagesAssumption, RawAssumption, EmptySeq DEF EncodeInit
  <2>2. CASE msg = Raw /\ buf \in Buffers /\ call = "sent"
    BY <2>2, BuffersAssumption
  <2> QED
    BY <2>1, <2>2 DEF ProxyInit
<1>3. IInv
  <2>1. TypeOK
    BY <1>1, <1>2 DEF Reset, TypeOK, Stages
  <2>2. NoOverrun /\ BackInPlace /\ Reading
    BY <1>1 DEF Reset, NoOverrun, BackInPlace, Reading
  <2> QED
    BY <2>1, <2>2 DEF IInv
<1>4. EncodeTypes
  <2>1. msg # Raw => msg \in Message /\ Len(Sent) \in Nat
    BY <1>2, MessagesAssumption, SentLength
  <2>2. stage = "header"
    BY <1>1 DEF Reset
  <2>3. \A s \in DOMAIN offsets : offsets[s] \in Nat
    BY <1>1
  <2> QED
    BY <1>1, <1>2, <2>1, <2>2, <2>3 DEF EncodeTypes, Calls
<1>5. LegInv
  BY <1>1, <1>2 DEF LegInv
<1>6. HandleTypes
  <2>1. resp \in Message
    BY <1>1 DEF NoAnswer, Message
  <2>2. CacheInv
    BY <1>1 DEF CacheInv
  <2> QED
    BY <1>1, <2>1, <2>2 DEF HandleTypes
<1>7. QuestsFirst /\ NeverOutlives
  BY <1>1 DEF Reset, QuestsFirst, NeverOutlives
<1> QED
  BY <1>3, <1>4, <1>5, <1>6, <1>7 DEF TInv

\* The types and what holds of any datagram are kept by every step.
LEMMA StepTInv == TInv /\ [ProxyNext]_<<vars, msg, encoder, proxy>> => TInv'
<1> SUFFICES ASSUME TInv, [ProxyNext]_<<vars, msg, encoder, proxy>> PROVE TInv'
  OBVIOUS
<1>1. CASE Coding
  BY <1>1, CodingTInv
<1>2. CASE CacheSet
  BY <1>2, CacheSetTInv
<1>3. CASE Crash
  BY <1>3, LegTInv DEF Crash
<1>4. CASE HandleStarts
  BY <1>4, HandleStartsTInv
<1>5. CASE HandleQuest
  BY <1>5, HandleQuestTInv
<1>6. CASE Respond
  BY <1>6, RespondTInv
<1>7. CASE Lost
  BY <1>7, LegTInv DEF Lost
<1>8. CASE UNCHANGED <<vars, msg, encoder, proxy>>
  <2>1. IInv'
    BY <1>8, StepIInv DEF TInv
  <2>2. EncodeTypes' /\ LegInv' /\ HandleTypes' /\ QuestsFirst' /\ NeverOutlives'
    BY <1>8 DEF TInv, EncodeTypes, Sent, LegInv, HandleTypes, CacheInv, QuestsFirst,
                NeverOutlives, vars, result, encoder, proxy
  <2> QED
    BY <2>1, <2>2 DEF TInv
<1> QED
  BY <1>1, <1>2, <1>3, <1>4, <1>5, <1>6, <1>7, <1>8 DEF ProxyNext, Handle

LEMMA AlwaysTInv == ProxySpec => []TInv
BY InitTInv, StepTInv, PTL DEF ProxySpec

\* Behind the proxy as well the decoder keeps its types and its place, whatever
\* the datagram holds (decode.go:22-318).
THEOREM ProxyDecodes == ProxySpec => [](TypeOK /\ NoOverrun /\ BackInPlace)
<1>1. TInv => TypeOK /\ NoOverrun /\ BackInPlace
  BY DEF TInv, IInv
<1> QED
  BY <1>1, AlwaysTInv, PTL

\* However the clock has been set, an answer from the cache is given a time to
\* live that ends when its entry does or before (cache.go:44-60).
THEOREM CacheNeverOutlives == ProxySpec => []NeverOutlives
<1>1. TInv => NeverOutlives
  BY DEF TInv
<1> QED
  BY <1>1, AlwaysTInv, PTL

-----------------------------------------------------------------------------
(* Encode keeps what it has laid out                                       *)

LEMMA EncodeTypesFacts ==
  ASSUME IInv, EncodeTypes, call # "sent"
  PROVE  /\ msg \in Message /\ stage = "header" /\ item \in 0..Len(Sent)
         /\ Sent \in Seq(Items) /\ Len(Sent) \in Nat /\ item \in Nat
         /\ call \in {"name", "fixed"} => item \in 1..Len(Sent)
         /\ buf \in Seq(Bytes) /\ Length \in Nat /\ rest \in Seq(Labels)
<1>1. msg \in Message /\ stage = "header" /\ item \in Nat /\ item <= Len(Sent) /\ rest \in Seq(Labels)
      /\ (call \in {"name", "fixed"} => item >= 1)
  BY DEF EncodeTypes
<1>2. Sent \in Seq(Items) /\ Len(Sent) \in Nat
  BY <1>1, SentItems
<1>3. buf \in Seq(Bytes) /\ Length \in Nat
  BY DEF IInv, TypeOK, Length
<1> QED
  BY <1>1, <1>2, <1>3

\* Bytes that have been written stay as they are.
Keeps == Length <= Length' /\ \A p \in 1..Length : buf'[p] = buf[p]

LEMMA PutKeeps ==
  ASSUME buf \in Seq(Bytes), NEW bytes \in Seq(Bytes), Put(bytes)
  PROVE  /\ buf' \in Seq(Bytes) /\ Length \in Nat /\ Length' = Length + Len(bytes) /\ Keeps
         /\ \A i \in 1..Len(bytes) : buf'[Length + i] = bytes[i]
<1>1. buf' = buf \o bytes
  BY DEF Put
<1>2. /\ buf \o bytes \in Seq(Bytes) /\ Len(buf \o bytes) = Len(buf) + Len(bytes)
      /\ \A i \in 1..Len(buf) : (buf \o bytes)[i] = buf[i]
      /\ \A i \in 1..Len(bytes) : (buf \o bytes)[Len(buf) + i] = bytes[i]
  BY TwoMore, Zenon
<1>3. Len(buf) \in Nat /\ Len(bytes) \in Nat
  OBVIOUS
<1> QED
  BY <1>1, <1>2, <1>3 DEF Keeps, Length

\* What each call of the encoder writes.
LEMMA EncodeKeeps ==
  ASSUME IInv, EncodeTypes, Encode
  PROVE  Keeps /\ buf' \in Seq(Bytes) /\ Length' \in Nat
<1>0. call # "sent"
  BY DEF Encode, PutHeader, NextName, PutName, PutFixed
<1>1. /\ msg \in Message /\ buf \in Seq(Bytes) /\ Length \in Nat /\ rest \in Seq(Labels)
      /\ call \in {"name", "fixed"} => item \in 1..Len(Sent)
  BY <1>0, EncodeTypesFacts
<1>2. ASSUME NEW bytes \in Seq(Bytes), Put(bytes)
      PROVE  Keeps /\ buf' \in Seq(Bytes) /\ Length' \in Nat
  BY <1>1, <1>2, PutKeeps
<1>3. ASSUME buf' = buf PROVE Keeps /\ buf' \in Seq(Bytes) /\ Length' \in Nat
  BY <1>1, <1>3 DEF Keeps, Length
<1>4. CASE PutHeader
  BY <1>1, <1>2, <1>4, PutHeaderBytes
<1>5. CASE NextName
  BY <1>3, <1>5 DEF NextName
<1>6. CASE PutName
  <2>1. <<0>> \in Seq(Bytes)
    BY DEF Bytes
  <2>2. CASE Put(<<0>>)
    BY <1>2, <2>1, <2>2
  <2>3. CASE rest \in DOMAIN offsets /\ Put(PointerBytes(offsets[rest]))
    <3>1. PointerBytes(offsets[rest]) \in Seq(Bytes)
      BY <2>3, PointerBytesLaid DEF EncodeTypes
    <3> QED
      BY <1>2, <2>3, <3>1
  <2>4. CASE rest # <<>> /\ Put(LabelBytes(rest[1]))
    <3>1. rest[1] \in Labels
      BY <1>1, <2>4
    <3> QED
      BY <1>2, <2>4, <3>1, LabelBytesLaid
  <2> QED
    BY <1>6, <2>2, <2>3, <2>4 DEF PutName
<1>7. CASE PutFixed
  <2>1. item \in 1..Len(Sent)
    BY <1>1, <1>7 DEF PutFixed
  <2> QED
    BY <1>1, <1>2, <1>7, <2>1, PutFixedBytes
<1> QED
  BY <1>4, <1>5, <1>6, <1>7 DEF Encode

\* What the encoder does to the places where it is.
LEMMA EncodeTrail ==
  ASSUME Encode
  PROVE  trail \subseteq trail' /\ Sent' = Sent /\ msg' = msg /\ UNCHANGED decoder
<1>1. msg' = msg /\ UNCHANGED decoder
  BY DEF Encode, PutHeader, NextName, PutName, PutFixed
<1>2. trail \subseteq trail'
  BY DEF Encode, PutHeader, NextName, PutName, PutFixed
<1> QED
  BY <1>1, <1>2 DEF Sent

LEMMA BegunKept ==
  ASSUME IInv, EncodeTypes, Encode, NEW p, NEW k \in Nat, NEW s, Begun(p, k, s)
  PROVE  Begun(p, k, s)'
<1>0. trail \subseteq trail' /\ Sent' = Sent /\ item \in Nat /\ Len(Sent) \in Nat
  <2>1. call # "sent"
    BY DEF Encode, PutHeader, NextName, PutName, PutFixed
  <2> QED
    BY <2>1, EncodeTrail, EncodeTypesFacts
<1>1. CASE Mark(p, k, s) \in trail
  BY <1>0, <1>1 DEF Begun, Mark
<1>2. CASE p = Length /\ call = "item" /\ k = item + 1 /\ k <= Len(Sent) /\ s = Sent[k].name
  <2>1. NextName /\ item < Len(Sent)
    BY <1>0, <1>2 DEF Encode, PutHeader, PutName, PutFixed
  <2>2. item' = item + 1 /\ rest' = Sent[item + 1].name /\ call' = "name" /\ buf' = buf
    BY <2>1, <1>0 DEF NextName
  <2> QED
    BY <1>2, <2>2 DEF Begun, Length
<1>3. CASE p = Length /\ call = "name" /\ k = item /\ s = rest
  <2>1. PutName
    BY <1>3 DEF Encode, PutHeader, NextName, PutFixed
  <2>2. Mark(p, k, s) \in trail'
    BY <1>3, <2>1 DEF PutName, Mark, Length
  <2> QED
    BY <2>2 DEF Begun, Mark
<1> QED
  BY <1>1, <1>2, <1>3 DEF Begun

LEMMA BytesKept ==
  ASSUME Keeps, Length \in Nat, NEW p \in Nat, p < Length
  PROVE  Byte(p)' = Byte(p)
<1>1. p + 1 \in 1..Length
  OBVIOUS
<1> QED
  BY <1>1 DEF Keeps, Byte

LEMMA WordKept ==
  ASSUME Keeps, Length \in Nat, NEW p \in Nat, p + 2 <= Length
  PROVE  U16(p)' = U16(p)
<1>1. p < Length /\ p + 1 \in Nat /\ p + 1 < Length
  OBVIOUS
<1>2. Byte(p)' = Byte(p) /\ Byte(p + 1)' = Byte(p + 1)
  BY <1>1, BytesKept
<1> QED
  BY <1>2 DEF U16

\* What is behind a name stays there, and is there when the encoder has got to it.
LEMMA BehindKept ==
  ASSUME IInv, EncodeTypes, Encode, Short', NEW q \in Nat, NEW k \in 1..Len(Sent), Behind(q, k)
  PROVE  Behind(q, k)'
<1> DEFINE i == Sent[k]  f == FixedLen(i)
<1>0. call # "sent"
  BY DEF Encode, PutHeader, NextName, PutName, PutFixed
<1>1. /\ Sent' = Sent /\ Keeps /\ Length' \in Nat /\ Length \in Nat /\ Length <= Length'
      /\ msg \in Message /\ item \in 0..Len(Sent) /\ Sent \in Seq(Items) /\ Len(Sent) \in Nat
      /\ buf \in Seq(Bytes)
  BY <1>0, EncodeTrail, EncodeKeeps, EncodeTypesFacts DEF Keeps
<1>2. i \in Items /\ i.size \in Nat /\ f \in Nat
  <2>1. i \in Items
    BY <1>1, ElementOfSeq
  <2> HIDE DEF i
  <2> QED
    BY <2>1, FixedLaid DEF Items
<1>3. f = IF i.section = 1 THEN 4 ELSE 10 + i.size
  BY DEF FixedLen
<1>5. CASE call = "fixed" /\ k = item /\ q = Length
  <2>1. PutFixed
    BY <1>5 DEF Encode, PutHeader, NextName, PutName
  <2>2. /\ Put(Fixed(i)) /\ Fixed(i) \in Seq(Bytes) /\ Len(Fixed(i)) = f
        /\ i.section # 1 => Pair(Fixed(i), 9) = Low(i.size)
    BY <1>1, <1>2, <1>5, <2>1, FixedLaid DEF PutFixed
  <2>3. /\ Length' = Length + f
        /\ \A j \in 1..f : buf'[Length + j] = Fixed(i)[j]
    BY <1>1, <2>2, PutKeeps
  <2>4. Within(q, f)'
    BY <1>1, <1>2, <1>5, <2>3 DEF Within
  <2>5. call' = "item" /\ item' = item
    BY <2>1 DEF PutFixed
  <2>6. Written(k)'
    BY <1>5, <2>5 DEF Written
  <2>7. i.section # 1 => U16(q + 8)' = i.size
    <3> SUFFICES ASSUME i.section # 1 PROVE U16(q + 8)' = i.size
      OBVIOUS
    <3>1. 9 \in 1..f /\ 10 \in 1..f
      BY <1>2, <1>3
    <3>2. buf'[Length + 9] = Fixed(i)[9] /\ buf'[Length + 10] = Fixed(i)[10]
      BY <2>3, <3>1
    <3>3. (q + 8) + 1 = Length + 9 /\ ((q + 8) + 1) + 1 = Length + 10
      BY <1>1, <1>5
    <3>4. U16(q + 8)' = buf'[(q + 8) + 1] * 256 + buf'[((q + 8) + 1) + 1]
      BY DEF U16, Byte
    <3>5. U16(q + 8)' = Fixed(i)[9] * 256 + Fixed(i)[10]
      BY <3>2, <3>3, <3>4
    <3>6. U16(q + 8)' = Low(i.size)
      BY <2>2, <3>5 DEF Pair
    <3>7. i.size <= 16384
      BY <1>1, <1>2, <1>3, <2>3 DEF Short
    <3>8. Low(i.size) = i.size
      BY <1>2, <3>7 DEF Low
    <3> QED
      BY <3>6, <3>8
  <2>8. Length' = q + f
    BY <1>5, <2>3
  <2>9. k < Len(Sent) => Begun(q + f, k + 1, Sent[k + 1].name)'
    BY <1>1, <1>2, <1>5, <2>5, <2>8 DEF Begun
  <2> QED
    BY <1>1, <2>4, <2>6, <2>7, <2>8, <2>9 DEF Behind
<1>6. CASE /\ Written(k)
           /\ Within(q, f)
           /\ i.section # 1 => U16(q + 8) = i.size
           /\ k < Len(Sent) => Begun(q + f, k + 1, Sent[k + 1].name)
           /\ k = Len(Sent) => q + f = Length
  <2>1. Written(k)'
    <3>1. k < item \/ (k = item /\ call = "item")
      BY <1>0, <1>6 DEF Written
    <3>2. \/ item' = item /\ (call = "item" => call' \in {"item", "sent"})
          \/ item' = item + 1
      BY DEF Encode, PutHeader, NextName, PutName, PutFixed
    <3> QED
      BY <1>1, <3>1, <3>2 DEF Written
  <2>2. Within(q, f)'
    BY <1>1, <1>2, <1>6 DEF Within
  <2>3. i.section # 1 => U16(q + 8)' = i.size
    <3> SUFFICES ASSUME i.section # 1 PROVE U16(q + 8)' = i.size
      OBVIOUS
    <3>0. f = 10 + i.size /\ q + f <= Length
      BY <1>3, <1>6 DEF Within
    <3> DEFINE z == i.size
    <3>2. z \in Nat /\ Length \in Nat /\ f = 10 + z
      BY <1>1, <1>2, <3>0
    <3> HIDE DEF f, i, z
    <3>1. q + 8 \in Nat /\ (q + 8) + 2 <= Length
      BY <3>0, <3>2
    <3> QED
      BY <1>1, <1>6, <3>1, WordKept
  <2>4. k < Len(Sent) => Begun(q + f, k + 1, Sent[k + 1].name)'
    <3>1. \A p, s : Begun(p, k + 1, s) => Begun(p, k + 1, s)'
      <4>1. k + 1 \in Nat
        OBVIOUS
      <4> QED
        BY <4>1, BegunKept
    <3> QED
      BY <1>1, <1>6, <3>1
  <2>5. k = Len(Sent) => q + f = Length'
    <3> SUFFICES ASSUME k = Len(Sent) PROVE q + f = Length'
      OBVIOUS
    <3>1. k = item /\ call = "item"
      BY <1>0, <1>1, <1>6 DEF Written
    <3>2. NextName
      BY <3>1 DEF Encode, PutHeader, PutName, PutFixed
    <3> QED
      BY <1>6, <3>2 DEF NextName, Length
  <2> QED
    BY <1>1, <2>1, <2>2, <2>3, <2>4, <2>5 DEF Behind
<1> QED
  BY <1>5, <1>6 DEF Behind

\* Suffixes that have been stored stay where they are.
LEMMA OffsetsKept ==
  ASSUME Encode, NEW s \in DOMAIN offsets
  PROVE  s \in DOMAIN offsets' /\ offsets'[s] = offsets[s]
<1>1. CASE UNCHANGED offsets
  BY <1>1
<1>2. CASE rest \notin DOMAIN offsets /\ Store
  BY <1>2 DEF Store
<1> QED
  BY <1>1, <1>2 DEF Encode, PutHeader, NextName, PutName, PutFixed

LEMMA LaidKept ==
  ASSUME IInv, EncodeTypes, Encode, Short', NEW p \in Nat, NEW k \in 1..Len(Sent),
         NEW s \in Seq(Labels), Laid(p, k, s)
  PROVE  Laid(p, k, s)'
<1>0. call # "sent"
  BY DEF Encode, PutHeader, NextName, PutName, PutFixed
<1>1. /\ Keeps /\ Length' \in Nat /\ Length \in Nat /\ Length <= Length'
      /\ buf \in Seq(Bytes) /\ buf' \in Seq(Bytes) /\ k \in Nat
  BY <1>0, EncodeKeeps, EncodeTypesFacts DEF Keeps
<1>2. ASSUME NEW q \in Nat, Behind(q, k) PROVE Behind(q, k)'
  BY <1>2, BehindKept
<1>3. CASE AtZero(p, k, s)
  <2>1. p < Length /\ p + 1 \in Nat
    BY <1>1, <1>3 DEF AtZero, Within
  <2>2. Byte(p)' = Byte(p)
    BY <1>1, <2>1, BytesKept
  <2>3. Within(p, 1)'
    BY <1>1, <1>3 DEF AtZero, Within
  <2>4. Behind(p + 1, k)'
    BY <1>2, <1>3, <2>1 DEF AtZero
  <2> QED
    BY <1>3, <2>2, <2>3, <2>4 DEF AtZero, Laid
<1>4. CASE AtPointer(p, k, s)
  <2>1. p < Length /\ p + 1 \in Nat /\ p + 1 < Length /\ p + 2 \in Nat
    BY <1>1, <1>4 DEF AtPointer, Within
  <2>2. Byte(p)' = Byte(p) /\ Byte(p + 1)' = Byte(p + 1)
    BY <1>1, <2>1, BytesKept
  <2>3. Within(p, 2)'
    BY <1>1, <1>4 DEF AtPointer, Within
  <2>4. Behind(p + 2, k)'
    BY <1>2, <1>4, <2>1 DEF AtPointer
  <2>5. s \in DOMAIN offsets' /\ offsets'[s] = offsets[s]
    BY <1>4, OffsetsKept DEF AtPointer
  <2> QED
    BY <1>4, <2>2, <2>3, <2>4, <2>5 DEF AtPointer, Laid
<1>5. CASE AtLabel(p, k, s)
  <2>0. s # <<>> /\ Len(s[1]) \in Nat
    BY <1>5 DEF AtLabel, Labels
  <2>1. p < Length /\ p + 1 + Len(s[1]) <= Length
    <3> DEFINE n == Len(s[1])
    <3>1. n \in Nat /\ p + (1 + n) <= Length
      BY <1>5, <2>0 DEF AtLabel, Within
    <3> HIDE DEF n
    <3>2. p < Length /\ p + 1 + n <= Length
      BY <1>1, <3>1
    <3> QED
      BY <3>2 DEF n
  <2>2. Byte(p)' = Byte(p)
    BY <1>1, <2>1, BytesKept
  <2>3. Within(p, 1 + Len(s[1]))'
    <3> DEFINE n == Len(s[1])
    <3>1. n \in Nat /\ p + 1 + n <= Length
      BY <2>0, <2>1
    <3> HIDE DEF n
    <3>2. 0 <= p /\ 0 <= 1 + n /\ p + (1 + n) <= Length'
      BY <1>1, <3>1
    <3> QED
      BY <3>2 DEF Within, n
  <2>4. Begun(p + 1 + Len(s[1]), k, Tail(s))'
    BY <1>1, <1>5, BegunKept DEF AtLabel
  <2>5. SubSeq(buf', p + 2, p + 1 + Len(s[1])) = SubSeq(buf, p + 2, p + 1 + Len(s[1]))
    <3> DEFINE n == Len(s[1])
    <3>0. n \in Nat /\ p + 1 + n <= Length
      BY <2>0, <2>1
    <3> HIDE DEF n
    <3>1. n \in Nat /\ (p + 1) + n <= Len(buf) /\ (p + 1) + n <= Len(buf') /\ p + 1 \in Nat
      BY <1>1, <3>0 DEF Length
    <3> DEFINE x == SubSeq(buf, (p + 1) + 1, (p + 1) + n)
               y == SubSeq(buf', (p + 1) + 1, (p + 1) + n)
    <3>2. x \in Seq(Bytes) /\ Len(x) = n /\ \A i \in 1..n : x[i] = buf[(p + 1) + i]
      BY <1>1, <3>1, PartOf
    <3>3. y \in Seq(Bytes) /\ Len(y) = n /\ \A i \in 1..n : y[i] = buf'[(p + 1) + i]
      BY <1>1, <3>1, PartOf
    <3>4. \A i \in 1..n : buf'[(p + 1) + i] = buf[(p + 1) + i]
      BY <1>1, <3>1 DEF Keeps, Length
    <3> HIDE DEF x, y
    <3>5. x = y
      BY <3>2, <3>3, <3>4, SeqEqual
    <3>6. (p + 1) + 1 = p + 2 /\ (p + 1) + n = p + 1 + n
      BY <3>1
    <3> QED
      BY <3>5, <3>6 DEF x, y, n
  <2> QED
    BY <1>5, <2>2, <2>3, <2>4, <2>5 DEF AtLabel, Laid
<1> QED
  BY <1>3, <1>4, <1>5 DEF Laid

\* What PutName writes is laid out as Decode will read it.
LEMMA NameLaid ==
  ASSUME IInv, EncodeTypes, EncodeInv, PutName, Short',
         NEW p, NEW k, NEW s, p = Length, k = item, s = rest
  PROVE  Laid(p, k, s)'
<1>0. call = "name"
  BY DEF PutName
<1>1. /\ msg \in Message /\ buf \in Seq(Bytes) /\ Length \in Nat /\ rest \in Seq(Labels)
      /\ k \in 1..Len(Sent) /\ p \in Nat /\ s \in Seq(Labels)
  BY <1>0, EncodeTypesFacts
<1>2. \A bytes \in Seq(Bytes) : Put(bytes) =>
        /\ Length' = p + Len(bytes)
        /\ \A i \in 1..Len(bytes) : buf'[p + i] = bytes[i]
  BY <1>1, PutKeeps
<1>3. item' = k
  BY DEF PutName
<1>4. CASE rest = <<>> /\ Put(<<0>>) /\ call' = "fixed"
  <2> DEFINE z == <<0>>
  <2>1. z \in Seq(Bytes) /\ Len(z) = 1 /\ z[1] = 0 /\ Put(z)
    BY <1>4 DEF Bytes
  <2> HIDE DEF z
  <2>2. Length' = p + 1 /\ buf'[p + 1] = 0
    <3>1. Length' = p + Len(z) /\ \A i \in 1..Len(z) : buf'[p + i] = z[i]
      BY <1>2, <2>1
    <3> QED
      BY <2>1, <3>1
  <2>3. Within(p, 1)' /\ Byte(p)' = 0
    BY <1>1, <2>2 DEF Within, Byte
  <2>4. Behind(p + 1, k)'
    BY <1>3, <1>4, <2>2 DEF Behind
  <2> QED
    BY <1>4, <2>3, <2>4 DEF AtZero, Laid
<1>5. CASE /\ rest # <<>> /\ rest \in DOMAIN offsets
           /\ Put(PointerBytes(offsets[rest])) /\ call' = "fixed"
           /\ UNCHANGED <<offsets, rest>>
  <2> DEFINE o == offsets[s]
  <2>1. o \in Pointable
    <3>1. s \in DOMAIN offsets
      BY <1>5
    <3> QED
      BY <3>1 DEF EncodeInv, OffsetsInv
  <2>3. offsets'[s] = o /\ s \in DOMAIN offsets' /\ Put(PointerBytes(o))
    BY <1>5
  <2> HIDE DEF o
  <2> DEFINE z == PointerBytes(o)
  <2>2. /\ z \in Seq(Bytes) /\ Len(z) = 2
        /\ z[1] = PtrHigh(o)
        /\ z[2] = PtrLow(o)
    <3>1. o \in Nat /\ o <= 16383
      BY <2>1 DEF Pointable
    <3> QED
      BY <3>1, PointerBytesLaid
  <2> HIDE DEF z
  <2>4. Length' = p + 2 /\ buf'[p + 1] = PtrHigh(o) /\ buf'[p + 2] = PtrLow(o)
    <3>0. Put(z)
      BY <2>3 DEF z
    <3>1. Length' = p + Len(z) /\ \A i \in 1..Len(z) : buf'[p + i] = z[i]
      BY <1>2, <2>2, <3>0
    <3>2. Length' = p + 2 /\ buf'[p + 1] = z[1] /\ buf'[p + 2] = z[2]
      BY <2>2, <3>1
    <3> QED
      BY <2>2, <3>2
  <2>5. Within(p, 2)' /\ Byte(p)' = PtrHigh(o)
    BY <1>1, <2>4 DEF Within, Byte
  <2>6. Byte(p + 1)' = PtrLow(o)
    <3>1. (p + 1) + 1 = p + 2
      BY <1>1
    <3> QED
      BY <2>4, <3>1 DEF Byte
  <2>7. Behind(p + 2, k)'
    BY <1>3, <1>5, <2>4 DEF Behind
  <2> QED
    BY <1>5, <2>3, <2>5, <2>6, <2>7 DEF AtPointer, Laid
<1>6. CASE /\ rest # <<>>
           /\ Put(LabelBytes(rest[1])) /\ rest' = Tail(rest)
           /\ UNCHANGED call
  <2> DEFINE l == s[1]
  <2>1. l \in Labels /\ Put(LabelBytes(l))
    BY <1>1, <1>6
  <2>2. l \in Seq(Bytes) /\ Len(l) \in Nat
    BY <2>1 DEF Labels
  <2> HIDE DEF l
  <2>3. /\ LabelBytes(l) \in Seq(Bytes) /\ Len(LabelBytes(l)) = 1 + Len(l)
        /\ LabelBytes(l)[1] = Len(l)
        /\ \A i \in 1..Len(l) : LabelBytes(l)[1 + i] = l[i]
    BY <2>1, LabelBytesLaid
  <2>4. Length' = p + (1 + Len(l)) /\ buf'[p + 1] = Len(l)
    BY <1>2, <2>1, <2>2, <2>3
  <2>5. \A i \in 1..Len(l) : buf'[(p + 1) + i] = l[i]
    <3> SUFFICES ASSUME NEW i \in 1..Len(l) PROVE buf'[(p + 1) + i] = l[i]
      OBVIOUS
    <3>1. 1 + i \in 1..(1 + Len(l)) /\ p + (1 + i) = (p + 1) + i
      BY <1>1, <2>2
    <3>2. buf'[p + (1 + i)] = LabelBytes(l)[1 + i]
      BY <1>2, <2>1, <2>3, <3>1
    <3> QED
      BY <2>3, <3>1, <3>2
  <2>6. Within(p, 1 + Len(l))' /\ Byte(p)' = Len(l)
    BY <1>1, <2>2, <2>4 DEF Within, Byte
  <2>7. SubSeq(buf', p + 2, p + 1 + Len(l)) = l
    <3>0. buf' \in Seq(Bytes) /\ (p + 1) + Len(l) <= Len(buf') /\ p + 1 \in Nat
      BY <1>1, <2>1, <2>2, <2>3, <2>4, PutKeeps DEF Length
    <3> DEFINE y == SubSeq(buf', (p + 1) + 1, (p + 1) + Len(l))
    <3>1. y \in Seq(Bytes) /\ Len(y) = Len(l) /\ \A i \in 1..Len(l) : y[i] = buf'[(p + 1) + i]
      BY <2>2, <3>0, PartOf
    <3> HIDE DEF y
    <3>2. y = l
      BY <2>2, <2>5, <3>1, SeqEqual
    <3>3. (p + 1) + 1 = p + 2 /\ (p + 1) + Len(l) = p + 1 + Len(l)
      BY <1>1, <2>2
    <3> QED
      BY <3>2, <3>3 DEF y
  <2>8. Begun(p + 1 + Len(l), k, Tail(s))'
    <3>1. p + 1 + Len(l) = Length' /\ call' = "name" /\ rest' = Tail(s)
      BY <1>0, <1>1, <1>6, <2>2, <2>4
    <3> QED
      BY <1>3, <3>1 DEF Begun
  <2> QED
    BY <1>6, <2>6, <2>7, <2>8 DEF AtLabel, Laid, l
<1> QED
  BY <1>4, <1>5, <1>6 DEF PutName

LEMMA TrailStep ==
  ASSUME IInv, EncodeTypes, EncodeInv, Encode, Short'
  PROVE  TrailInv'
<1>0. call # "sent"
  BY DEF Encode, PutHeader, NextName, PutName, PutFixed
<1>1. /\ item \in 0..Len(Sent) /\ item \in Nat /\ Len(Sent) \in Nat /\ Length \in Nat
      /\ rest \in Seq(Labels) /\ (call \in {"name", "fixed"} => item \in 1..Len(Sent))
  BY <1>0, EncodeTypesFacts
<1>2. TrailInv
  BY DEF EncodeInv
<1>3. item <= item' /\ (call = "name" => item' = item)
  BY <1>1 DEF Encode, PutHeader, NextName, PutName, PutFixed
<1>4. ASSUME NEW e \in trail PROVE e \in Marks /\ e.item <= item' /\ Laid(e.at, e.item, e.rest)'
  <2>1. e \in Marks /\ e.item <= item /\ Laid(e.at, e.item, e.rest)
    BY <1>2 DEF TrailInv
  <2>2. e.at \in Nat /\ e.item \in Nat \ {0} /\ e.rest \in Seq(Labels)
    BY <2>1 DEF Marks
  <2>3. e.item \in 1..Len(Sent)
    BY <1>1, <2>1, <2>2
  <2>4. item' \in Nat /\ e.item <= item'
    <3>1. item' \in Nat
      BY <1>1 DEF Encode, PutHeader, NextName, PutName, PutFixed
    <3> QED
      BY <1>1, <1>3, <2>1, <2>2, <3>1
  <2> QED
    BY <2>1, <2>2, <2>3, <2>4, LaidKept
<1>5. CASE trail' = trail
  BY <1>4, <1>5 DEF TrailInv
<1>6. CASE PutName
  <2>0. call = "name"
    BY <1>6 DEF PutName
  <2>1. trail' = trail \cup {Mark(Length, item, rest)}
    BY <1>6 DEF PutName, Mark, Length
  <2> DEFINE e == Mark(Length, item, rest)
  <2>2. e \in Marks /\ e.item = item /\ e.at = Length /\ e.rest = rest
    BY <1>1, <2>0 DEF Marks, Mark
  <2>3. \A p, k, s : p = Length /\ k = item /\ s = rest => Laid(p, k, s)'
    BY <1>6, NameLaid
  <2>4. \A m \in trail' : m \in trail \/ m = e
    BY <2>1
  <2> HIDE DEF e
  <2>5. \A m : m = e => m \in Marks /\ m.item <= item' /\ Laid(m.at, m.item, m.rest)'
    BY <1>1, <1>3, <2>0, <2>2, <2>3
  <2>6. \A m \in trail' : m \in Marks /\ m.item <= item' /\ Laid(m.at, m.item, m.rest)'
    BY <1>4, <2>4, <2>5
  <2> QED
    BY <2>6 DEF TrailInv
<1> QED
  BY <1>5, <1>6 DEF Encode, PutHeader, NextName, PutFixed

LEMMA OffsetsStep ==
  ASSUME IInv, EncodeTypes, EncodeInv, Encode, Short'
  PROVE  OffsetsInv'
<1>0. call # "sent"
  BY DEF Encode, PutHeader, NextName, PutName, PutFixed
<1>1. OffsetsInv /\ trail \subseteq trail'
  BY EncodeTrail DEF EncodeInv
<1>2. ASSUME NEW s \in DOMAIN offsets
      PROVE  /\ offsets'[s] \in Pointable
             /\ \E e \in trail' : e.at = offsets'[s] /\ e.rest = s
  <2>1. offsets'[s] = offsets[s]
    BY OffsetsKept
  <2>2. /\ offsets[s] \in Pointable
        /\ \E e \in trail : e.at = offsets[s] /\ e.rest = s
    BY <1>1, Zenon DEF OffsetsInv
  <2> QED
    BY <1>1, <2>1, <2>2
<1>3. CASE offsets' = offsets
  BY <1>2, <1>3 DEF OffsetsInv
<1>4. CASE PutName /\ rest # <<>> /\ Store /\ Put(LabelBytes(rest[1]))
  <2>0. call = "name"
    BY <1>4 DEF PutName
  <2>1. buf \in Seq(Bytes) /\ Length \in Nat /\ rest \in Seq(Labels)
    BY <1>0, EncodeTypesFacts
  <2>2. rest[1] \in Labels
    BY <1>4, <2>1
  <2>3. LabelBytes(rest[1]) \in Seq(Bytes) /\ Len(LabelBytes(rest[1])) >= 1
    <3>1. ASSUME NEW l \in Labels PROVE LabelBytes(l) \in Seq(Bytes) /\ Len(LabelBytes(l)) >= 1
      <4>1. Len(l) \in Nat
        BY DEF Labels
      <4> QED
        BY <4>1, LabelBytesLaid
    <3> QED
      BY <2>2, <3>1
  <2>4. Length + 1 <= Length' /\ Length' <= 16384
    BY <1>4, <2>1, <2>3, PutKeeps DEF Short
  <2>5. Length \in Pointable
    <3>1. Length' \in Nat
      BY EncodeKeeps
    <3>2. \A n, m \in Nat : n + 1 <= m /\ m <= 16384 => n \in Pointable
      BY DEF Pointable
    <3> QED
      BY <2>1, <2>4, <3>1, <3>2
  <2>r. Length % 65536 = Length
    BY <2>5 DEF Pointable
  <2>6. Mark(Length, item, rest) \in trail'
    BY <1>4 DEF PutName, Mark, Length
  <2>7. /\ offsets'[rest] = Length
        /\ \A s \in DOMAIN offsets' : s \in DOMAIN offsets \/ s = rest
    <3>1. offsets'[rest] = Length % 65536 /\ DOMAIN offsets' = DOMAIN offsets \cup {rest}
      BY <1>4 DEF Store, Length
    <3> QED
      BY <2>r, <3>1
  <2>8. \E e \in trail' : e.at = offsets'[rest] /\ e.rest = rest
    BY <2>6, <2>7 DEF Mark
  <2>9. \A s \in DOMAIN offsets' :
          /\ offsets'[s] \in Pointable
          /\ \E e \in trail' : e.at = offsets'[s] /\ e.rest = s
    <3> SUFFICES ASSUME NEW s \in DOMAIN offsets'
                 PROVE  /\ offsets'[s] \in Pointable
                        /\ \E e \in trail' : e.at = offsets'[s] /\ e.rest = s
      OBVIOUS
    <3>1. CASE s \in DOMAIN offsets
      BY <1>2, <3>1
    <3>2. CASE s = rest
      BY <2>5, <2>7, <2>8, <3>2
    <3> QED
      BY <2>7, <3>1, <3>2
  <2> QED
    BY <2>9 DEF OffsetsInv
<1> QED
  BY <1>3, <1>4 DEF Encode, PutHeader, NextName, PutName, PutFixed

LEMMA HeaderStep ==
  ASSUME IInv, EncodeTypes, EncodeInv, Encode
  PROVE  HeaderInv'
<1>0. call # "sent"
  BY DEF Encode, PutHeader, NextName, PutName, PutFixed
<1>1. /\ msg \in Message /\ buf \in Seq(Bytes) /\ Length \in Nat /\ Length' \in Nat
      /\ msg' = msg /\ Keeps
  BY <1>0, EncodeTypesFacts, EncodeTrail, EncodeKeeps
<1>2. CASE PutHeader
  <2>1. buf = <<>> /\ Length = 0
    BY <1>2 DEF PutHeader, EncodeInv, Length
  <2>2. /\ HeaderBytes \in Seq(Bytes) /\ Len(HeaderBytes) = 12 /\ Put(HeaderBytes)
        /\ Pair(HeaderBytes, 5) = Low(Len(msg.quests))
        /\ Pair(HeaderBytes, 7) = Low(Len(msg.answers))
        /\ Pair(HeaderBytes, 11) = Low(Len(msg.records))
    BY <1>1, <1>2, PutHeaderBytes, HeaderBytesLaid
  <2>3. Length' = 12 /\ \A i \in 1..12 : buf'[i] = HeaderBytes[i]
    <3>1. Length' = Length + 12 /\ \A i \in 1..12 : buf'[Length + i] = HeaderBytes[i]
      BY <1>1, <2>2, PutKeeps
    <3> QED
      BY <2>1, <3>1
  <2>4. /\ U16(4)' = Pair(HeaderBytes, 5) /\ U16(6)' = Pair(HeaderBytes, 7)
        /\ U16(10)' = Pair(HeaderBytes, 11)
    <3>1. /\ buf'[5] = HeaderBytes[5] /\ buf'[6] = HeaderBytes[6] /\ buf'[7] = HeaderBytes[7]
          /\ buf'[8] = HeaderBytes[8] /\ buf'[11] = HeaderBytes[11] /\ buf'[12] = HeaderBytes[12]
      BY <2>3
    <3> QED
      BY <3>1 DEF U16, Byte, Pair
  <2> QED
    BY <1>1, <2>2, <2>3, <2>4 DEF HeaderInv
<1>3. CASE call # "header"
  <2>1. HeaderInv
    BY <1>3 DEF EncodeInv
  <2>2. 4 + 2 <= Length /\ 6 + 2 <= Length /\ 10 + 2 <= Length /\ 12 <= Length'
    BY <1>1, <2>1 DEF HeaderInv, Keeps
  <2>3. U16(4)' = U16(4) /\ U16(6)' = U16(6) /\ U16(10)' = U16(10)
    BY <1>1, <2>2, WordKept
  <2> QED
    BY <1>1, <2>1, <2>2, <2>3 DEF HeaderInv
<1> QED
  BY <1>2, <1>3 DEF Encode, NextName, PutName, PutFixed

LEMMA StartStep ==
  ASSUME IInv, EncodeTypes, EncodeInv, Encode
  PROVE  StartInv'
<1>0. call # "sent"
  BY DEF Encode, PutHeader, NextName, PutName, PutFixed
<1>1. /\ msg \in Message /\ buf \in Seq(Bytes) /\ Length \in Nat /\ Length' \in Nat
      /\ Sent' = Sent /\ Length <= Length' /\ Len(Sent) \in Nat
      /\ item \in 0..Len(Sent) /\ item \in Nat
      /\ call \in {"name", "fixed"} => item \in 1..Len(Sent)
  BY <1>0, EncodeTypesFacts, EncodeTrail, EncodeKeeps DEF Keeps
<1>2. CASE PutHeader
  <2>1. Length = 0 /\ item = 0 /\ item' = 0 /\ call' = "item"
    BY <1>2 DEF PutHeader, EncodeInv, Length
  <2>2. Length' = 12
    <3>1. HeaderBytes \in Seq(Bytes) /\ Len(HeaderBytes) = 12 /\ Put(HeaderBytes)
      BY <1>1, <1>2, PutHeaderBytes, HeaderBytesLaid
    <3>2. Length' = Length + Len(HeaderBytes)
      BY <1>1, <3>1, PutKeeps
    <3> QED
      BY <2>1, <3>1, <3>2
  <2>3. Len(Sent) > 0 => Begun(12, 1, Sent[1].name)'
    BY <1>1, <2>1, <2>2 DEF Begun
  <2>4. Length' >= 12 + (item' - Open')
    BY <2>1, <2>2 DEF Open
  <2> QED
    BY <1>1, <2>2, <2>3, <2>4 DEF StartInv
<1>3. CASE call # "header"
  <2>1. StartInv
    BY <1>3 DEF EncodeInv
  <2>2. Len(Sent) > 0 => Begun(12, 1, Sent[1].name)'
    BY <1>1, <2>1, BegunKept DEF StartInv
  <2>3. CASE NextName
    <3>1. Length' = Length /\ item' - Open' <= item - Open
      BY <1>1, <2>3 DEF NextName, Open, Length
    <3>2. item' - Open' \in Int /\ item - Open \in Int
      BY <1>1, <2>3 DEF NextName, Open
    <3> QED
      BY <1>1, <2>1, <2>2, <3>1, <3>2 DEF StartInv
  <2>4. CASE PutName
    <3>1. item' = item /\ Open = 1 /\ Open' = 1 /\ Len(Sent) > 0
      BY <1>1, <2>4 DEF PutName, Open
    <3> QED
      BY <1>1, <2>1, <2>2, <3>1 DEF StartInv
  <2>5. CASE PutFixed
    <3>1. item' = item /\ Open = 1 /\ Open' = 0 /\ Len(Sent) > 0 /\ item \in 1..Len(Sent)
      BY <1>1, <2>5 DEF PutFixed, Open
    <3>2. Length' >= Length + 1
      <4>1. Fixed(Sent[item]) \in Seq(Bytes) /\ Put(Fixed(Sent[item])) /\ Sent[item] \in Items
        BY <1>1, <2>5, <3>1, PutFixedBytes
      <4>2. Len(Fixed(Sent[item])) >= 1
        <5>1. ASSUME NEW i \in Items PROVE Len(Fixed(i)) >= 1
          <6>1. Len(Fixed(i)) = FixedLen(i) /\ i.size \in Nat
            BY FixedLaid DEF Items
          <6> QED
            BY <6>1 DEF FixedLen
        <5> QED
          BY <4>1, <5>1
      <4> QED
        BY <1>1, <4>1, <4>2, PutKeeps
    <3> QED
      BY <1>1, <2>1, <2>2, <3>1, <3>2 DEF StartInv
  <2> QED
    BY <1>3, <2>3, <2>4, <2>5 DEF Encode, PutHeader
<1> QED
  BY <1>2, <1>3 DEF Encode, NextName, PutName, PutFixed

LEMMA EncodeInvStep ==
  ASSUME IInv, EncodeTypes, EncodeInv, Encode, Short'
  PROVE  EncodeInv'
<1>0. call # "sent"
  BY DEF Encode, PutHeader, NextName, PutName, PutFixed
<1>1. call' # "header" /\ (call' = "sent" => item' = Len(Sent))
  BY DEF Encode, PutHeader, NextName, PutName, PutFixed
<1> QED
  BY <1>1, TrailStep, OffsetsStep, HeaderStep, StartStep, EncodeTrail DEF EncodeInv

-----------------------------------------------------------------------------
(* Decode reads what Encode has laid out                                   *)

\* When Encode has returned everything is laid out.
LEMMA AllLaid ==
  ASSUME EncodeTypes, EncodeInv, call = "sent", msg \in Message
  PROVE  /\ \A p, k, s : Begun(p, k, s) => Mark(p, k, s) \in trail
         /\ \A q \in Nat, k \in 1..Len(Sent) : Behind(q, k) =>
              /\ Within(q, FixedLen(Sent[k]))
              /\ Sent[k].section # 1 => U16(q + 8) = Sent[k].size
              /\ k < Len(Sent) =>
                   Mark(q + FixedLen(Sent[k]), k + 1, Sent[k + 1].name) \in trail
              /\ k = Len(Sent) => q + FixedLen(Sent[k]) = Length
<1>1. \A p, k, s : Begun(p, k, s) => Mark(p, k, s) \in trail
  BY DEF Begun
<1>2. \A q, k : ~(call = "fixed" /\ k = item /\ q = Length)
  OBVIOUS
<1> QED
  BY <1>1, <1>2 DEF Behind

LEMMA TakenIn ==
  ASSUME msg \in Message, LeftInv, left \in [1..3 -> Nat], section \in 1..3
  PROVE  /\ Taken \in 0..Len(Sent) /\ Len(Sent) \in Nat /\ Taken \in Nat
         /\ left[section] > 0 => Taken < Len(Sent)
         /\ left[section] = 0 /\ section = 3 => Taken = Len(Sent)
         /\ left[section] < Count(section) =>
              /\ Taken \in 1..Len(Sent) /\ Sent[Taken].section = section
              /\ section = 1 => Sent[Taken].size = 0
<1> DEFINE q == Len(msg.quests)  a == Len(msg.answers)  r == Len(msg.records)
<1>1. /\ q \in Nat /\ a \in Nat /\ r \in Nat /\ Len(Sent) = q + a + r
      /\ \A i \in 1..q : Sent[i].section = 1 /\ Sent[i].size = 0
      /\ \A i \in 1..a : Sent[q + i].section = 2
      /\ \A i \in 1..r : Sent[q + a + i].section = 3
  <2>1. q \in Nat /\ a \in Nat /\ r \in Nat /\ Len(Sent) = q + a + r
    BY SentItems
  <2>2. \A i \in 1..q : Sent[i].section = 1 /\ Sent[i].size = 0
    <3> SUFFICES ASSUME NEW i \in 1..q PROVE Sent[i].section = 1 /\ Sent[i].size = 0
      OBVIOUS
    <3>1. Sent[i] = [section |-> 1, name |-> msg.quests[i], size |-> 0]
      BY SentItems
    <3> QED
      BY <3>1
  <2>3. \A i \in 1..a : Sent[q + i].section = 2
    <3> SUFFICES ASSUME NEW i \in 1..a PROVE Sent[q + i].section = 2
      OBVIOUS
    <3>1. Sent[q + i] = [section |-> 2, name |-> msg.answers[i].name, size |-> msg.answers[i].size]
      BY SentItems
    <3> QED
      BY <3>1
  <2>4. \A i \in 1..r : Sent[q + a + i].section = 3
    <3> SUFFICES ASSUME NEW i \in 1..r PROVE Sent[q + a + i].section = 3
      OBVIOUS
    <3>1. Sent[q + a + i] = [section |-> 3, name |-> msg.records[i].name, size |-> msg.records[i].size]
      BY SentItems
    <3> QED
      BY <3>1
  <2> QED
    BY <2>1, <2>2, <2>3, <2>4
<1>2. Count(1) = q /\ Count(2) = a /\ Count(3) = r
  BY DEF Count
<1> HIDE DEF q, a, r
<1>3. left[1] \in Nat /\ left[2] \in Nat /\ left[3] \in Nat
  OBVIOUS
<1>4. CASE section = 1
  <2>1. Taken = q - left[1] /\ left[1] <= q
    BY <1>2, <1>4 DEF Taken, LeftInv
  <2>2. left[1] < q => Taken \in 1..q
    BY <1>1, <1>3, <2>1
  <2> QED
    BY <1>1, <1>2, <1>3, <1>4, <2>1, <2>2
<1>5. CASE section = 2
  <2>1. Taken = q + a - left[2] /\ left[2] <= a
    BY <1>2, <1>5 DEF Taken, LeftInv
  <2> DEFINE i == a - left[2]
  <2>2. Taken = q + i
    BY <1>1, <1>3, <2>1
  <2>3. left[2] < a => i \in 1..a /\ Taken \in 1..Len(Sent)
    BY <1>1, <1>3, <2>1
  <2> HIDE DEF i
  <2>4. left[2] < a => Sent[Taken].section = 2
    BY <1>1, <2>2, <2>3
  <2> QED
    BY <1>1, <1>2, <1>3, <1>5, <2>1, <2>3, <2>4
<1>6. CASE section = 3
  <2>1. Taken = q + a + r - left[3] /\ left[3] <= r
    BY <1>2, <1>6 DEF Taken, LeftInv
  <2> DEFINE i == r - left[3]
  <2>2. Taken = q + a + i
    BY <1>1, <1>3, <2>1
  <2>3. left[3] < r => i \in 1..r /\ Taken \in 1..Len(Sent)
    BY <1>1, <1>3, <2>1
  <2> HIDE DEF i
  <2>4. left[3] < r => Sent[Taken].section = 3
    BY <1>1, <2>2, <2>3
  <2> QED
    BY <1>1, <1>2, <1>3, <1>6, <2>1, <2>3, <2>4
<1> QED
  BY <1>4, <1>5, <1>6

\* What Encode has laid out stays when Decode takes a step.
LEMMA SameLayout ==
  ASSUME UNCHANGED <<buf, msg, encoder>>
  PROVE  /\ Sent' = Sent /\ Length' = Length /\ trail' = trail
         /\ \A s \in 1..3 : Count(s)' = Count(s)
         /\ \A q, k : Behind(q, k) => Behind(q, k)'
<1>1. /\ buf' = buf /\ msg' = msg /\ call' = call /\ item' = item /\ rest' = rest
      /\ trail' = trail /\ offsets' = offsets
  BY DEF encoder
<1>2. Sent' = Sent /\ Length' = Length
  BY <1>1 DEF Sent, Length
<1>3. \A s \in 1..3 : Count(s)' = Count(s)
  BY <1>1 DEF Count
<1>4. \A q, k : Behind(q, k) => Behind(q, k)'
  BY <1>1, <1>2 DEF Behind, Begun, Written, Within, U16, Byte, FixedLen, Mark
<1> QED
  BY <1>1, <1>2, <1>3, <1>4

LEMMA SameTaken ==
  ASSUME UNCHANGED <<buf, msg, encoder, left, section>>, section \in 1..3
  PROVE  Taken' = Taken /\ (LeftInv => LeftInv') /\ Count(section)' = Count(section)
<1>1. \A s \in 1..3 : Count(s)' = Count(s)
  BY SameLayout
<1>2. Count(1)' = Count(1) /\ Count(2)' = Count(2) /\ Count(3)' = Count(3)
  BY <1>1
<1>3. Taken' = Taken
  BY <1>2 DEF Taken
<1>4. Count(section)' = Count(section)
  BY <1>1
<1>5. LeftInv => LeftInv'
  BY <1>1, <1>4 DEF LeftInv
<1> QED
  BY <1>3, <1>4, <1>5

\* An error ends the decoding with what has been decoded.
LEMMA FailDecodeInv ==
  ASSUME DecodeInv, NEW how \in Errors, Fail(how), UNCHANGED <<msg, encoder>>
  PROVE  DecodeInv'
<1>1. out' = out /\ Sent' = Sent /\ stage' = how
  BY SameLayout DEF Fail, result
<1>2. stage' \notin {"header", "item", "label", "fixed", "done"}
  BY <1>1 DEF Errors
<1>3. Agrees'
  BY <1>1 DEF DecodeInv, Agrees
<1> QED
  BY <1>2, <1>3 DEF DecodeInv

\* Decode and what it finds when Encode has returned.
Decoding ==
  /\ IInv /\ IInv' /\ EncodeTypes /\ EncodeInv /\ DecodeInv
  /\ msg \in Message /\ call = "sent" /\ Short
  /\ UNCHANGED <<buf, msg, encoder>>

LEMMA DecodingFacts ==
  ASSUME Decoding
  PROVE  /\ left \in [1..3 -> Nat] /\ section \in 1..3 /\ pos \in Nat /\ mark \in Nat
         /\ Length \in Nat /\ buf \in Seq(Bytes) /\ name \in Seq(Labels) /\ out \in Seq(Items)
         /\ stage' # "overrun" /\ Sent \in Seq(Items) /\ Len(Sent) \in Nat
         /\ UNCHANGED <<msg, encoder>> /\ Sent' = Sent /\ Length' = Length /\ trail' = trail
         /\ Agrees
<1>1. TypeOK /\ NoOverrun'
  BY DEF Decoding, IInv
<1>2. /\ left \in [1..3 -> Nat] /\ section \in 1..3 /\ pos \in Nat /\ mark \in Nat
      /\ buf \in Seq(Bytes) /\ name \in Seq(Labels) /\ out \in Seq(Items) /\ stage' # "overrun"
  BY <1>1 DEF TypeOK, NoOverrun
<1>3. Length \in Nat
  BY <1>2 DEF Length
<1>4. Sent \in Seq(Items) /\ Len(Sent) \in Nat
  BY SentItems DEF Decoding
<1>5. UNCHANGED <<msg, encoder>> /\ Sent' = Sent /\ Length' = Length /\ trail' = trail /\ Agrees
  BY SameLayout DEF Decoding, DecodeInv
<1> QED
  BY <1>2, <1>3, <1>4, <1>5

LEMMA HeaderDecodeInv ==
  ASSUME Decoding, Header
  PROVE  DecodeInv'
<1>0. /\ left \in [1..3 -> Nat] /\ section \in 1..3 /\ pos \in Nat /\ mark \in Nat
      /\ Length \in Nat /\ stage' # "overrun" /\ Len(Sent) \in Nat
      /\ UNCHANGED <<msg, encoder>> /\ Sent' = Sent /\ Length' = Length /\ trail' = trail
      /\ Agrees
  BY DecodingFacts
<1>1. CASE Fail("no header")
  BY <1>0, <1>1, FailDecodeInv DEF Decoding, Errors
<1>2. CASE /\ IF Within(pos, 12)
              THEN /\ stage' = "item" /\ pos' = pos + 12
                   /\ opcode' = (Byte(2) \div 8) % 16
                   /\ left' = <<U16(4), U16(6), U16(10)>>
              ELSE stage' = "overrun" /\ UNCHANGED <<pos, opcode, left>>
           /\ UNCHANGED <<buf, mark, section, name, out>>
  <2>1. /\ stage = "header" /\ pos = 0 /\ out = <<>> /\ section = 1
    BY DEF Header, Decoding, DecodeInv, IInv, Reading
  <2>2. /\ stage' = "item" /\ pos' = 12 /\ left' = <<U16(4), U16(6), U16(10)>>
        /\ section' = 1 /\ out' = <<>>
    BY <1>0, <1>2, <2>1
  <2>3. HeaderInv /\ StartInv /\ item = Len(Sent) /\ Open = 0
    BY DEF Decoding, EncodeInv, Open
  <2>4. Len(Sent) <= 16384
    BY <1>0, <2>3 DEF StartInv, Decoding, Short
  <2>5. /\ Len(msg.quests) \in Nat /\ Len(msg.answers) \in Nat /\ Len(msg.records) \in Nat
        /\ Len(Sent) = Len(msg.quests) + Len(msg.answers) + Len(msg.records)
    BY SentItems DEF Decoding
  <2>6. \A n \in Nat : n <= Len(Sent) => Low(n) = n
    BY <1>0, <2>4 DEF Low
  <2>7. U16(4) = Len(msg.quests) /\ U16(6) = Len(msg.answers) /\ U16(10) = Len(msg.records)
    <3>1. /\ Len(msg.quests) <= Len(Sent) /\ Len(msg.answers) <= Len(Sent)
          /\ Len(msg.records) <= Len(Sent)
      <4>1. \A q, a, r \in Nat : q <= q + a + r /\ a <= q + a + r /\ r <= q + a + r
        OBVIOUS
      <4> QED
        BY <2>5, <4>1
    <3>2. /\ Low(Len(msg.quests)) = Len(msg.quests) /\ Low(Len(msg.answers)) = Len(msg.answers)
          /\ Low(Len(msg.records)) = Len(msg.records)
      BY <2>5, <2>6, <3>1
    <3> QED
      BY <2>3, <3>2 DEF HeaderInv
  <2>8. msg' = msg
    BY DEF Decoding
  <2>9. left'[1] = Len(msg.quests) /\ left'[2] = Len(msg.answers) /\ left'[3] = Len(msg.records)
    BY <2>2, <2>7
  <2>10. Count(1)' = left'[1] /\ Count(2)' = left'[2] /\ Count(3)' = left'[3]
    BY <2>8, <2>9 DEF Count
  <2>11. LeftInv'
    BY <2>2, <2>5, <2>9, <2>10 DEF LeftInv
  <2>12. Taken' = 0
    BY <2>2, <2>5, <2>9, <2>10 DEF Taken
  <2>13. AtItem'
    <3>1. Len(Sent) = 0 => Length = 12
      BY <2>3 DEF StartInv
    <3>2. Len(Sent) > 0 => Mark(12, 1, Sent[1].name) \in trail
      <4>1. \A p, k, s : Begun(p, k, s) => Mark(p, k, s) \in trail
        BY AllLaid DEF Decoding
      <4> QED
        BY <2>3, <4>1 DEF StartInv
    <3> QED
      BY <1>0, <2>2, <2>12, <3>1, <3>2 DEF AtItem, Mark
  <2>14. Agrees'
    BY <1>0, <2>2 DEF Agrees
  <2> QED
    BY <2>2, <2>11, <2>13, <2>14 DEF DecodeInv
<1> QED
  BY <1>1, <1>2 DEF Header

LEMMA NextItemDecodeInv ==
  ASSUME Decoding, NextItem
  PROVE  DecodeInv'
<1>0. /\ left \in [1..3 -> Nat] /\ section \in 1..3 /\ pos \in Nat /\ mark \in Nat
      /\ Len(Sent) \in Nat /\ msg \in Message
      /\ UNCHANGED <<msg, encoder>> /\ Sent' = Sent /\ Length' = Length /\ trail' = trail
      /\ Agrees
  BY DecodingFacts DEF Decoding
<1>1. /\ stage = "item" /\ mark = 0 /\ LeftInv /\ AtItem /\ UNCHANGED <<buf, pos, mark, out>>
  BY DEF NextItem, Decoding, IInv, BackInPlace, DecodeInv
<1>2. \A s \in 1..3 : Count(s)' = Count(s)
  BY SameLayout DEF Decoding
<1>3. Agrees'
  BY <1>0, <1>1 DEF Agrees
<1>c. Count(1)' = Count(1) /\ Count(2)' = Count(2) /\ Count(3)' = Count(3)
  BY <1>2
<1>n. Count(1) \in Nat /\ Count(2) \in Nat /\ Count(3) \in Nat
  BY <1>0, SentItems DEF Count
<1>4. CASE /\ left[section] > 0
           /\ left' = [left EXCEPT ![section] = @ - 1]
           /\ stage' = "label" /\ name' = <<>>
           /\ UNCHANGED section
  <2>1. left'[section] = left[section] - 1 /\ \A s \in 1..3 : s # section => left'[s] = left[s]
    BY <1>0, <1>4
  <2>2. Taken \in 0..Len(Sent) /\ Taken < Len(Sent)
    BY <1>0, <1>1, <1>4, TakenIn
  <2>3. Taken' = Taken + 1
    <3>1. left[1] \in Nat /\ left[2] \in Nat /\ left[3] \in Nat
      BY <1>0
    <3>2. CASE section = 1
      BY <1>c, <1>n, <1>4, <2>1, <3>1, <3>2 DEF Taken
    <3>3. CASE section = 2
      BY <1>c, <1>n, <1>4, <2>1, <3>1, <3>3 DEF Taken
    <3>4. CASE section = 3
      BY <1>c, <1>n, <1>4, <2>1, <3>1, <3>4 DEF Taken
    <3> QED
      BY <1>0, <3>2, <3>3, <3>4
  <2>4. LeftInv' /\ left'[section'] < Count(section)'
    <3>1. left[section] \in Nat /\ Count(section) \in Nat /\ left[section] <= Count(section)
      BY <1>0, <1>1, <1>n DEF LeftInv
    <3>2. Count(section)' = Count(section) /\ section' = section
      BY <1>0, <1>2, <1>4
    <3>3. left'[section'] < Count(section)'
      BY <1>4, <2>1, <3>1, <3>2
    <3>4. \A s \in 1..3 : s > section => left'[s] = Count(s)'
      BY <1>0, <1>1, <1>2, <2>1 DEF LeftInv
    <3>5. left'[section'] <= Count(section)'
      BY <1>4, <2>1, <3>1, <3>2
    <3> QED
      BY <3>2, <3>3, <3>4, <3>5 DEF LeftInv
  <2>5. AtName'
    <3> DEFINE e == Mark(pos, Taken + 1, Sent[Taken + 1].name)
    <3>1. e \in trail'
      BY <1>0, <1>1, <2>2 DEF AtItem
    <3>2. e.at = pos' /\ e.rest = Sent'[Taken'].name /\ e.item = Taken'
      BY <1>0, <1>1, <2>3 DEF Mark
    <3>3. e.rest \in Seq(Labels)
      <4>1. Taken + 1 \in 1..Len(Sent) /\ Sent \in Seq(Items)
        BY <1>0, <2>2, DecodingFacts
      <4>2. Sent[Taken + 1] \in Items
        BY <4>1, ElementOfSeq
      <4> QED
        BY <4>2 DEF Items, Mark
    <3> HIDE DEF e
    <3>4. <<>> \o e.rest = e.rest
      BY <3>3, ConcatEmptySeq
    <3>5. name' \o e.rest = Sent'[Taken'].name
      BY <1>4, <3>2, <3>4
    <3>6. Len(out') = Taken' - 1
      BY <1>1, <2>2, <2>3 DEF AtItem
    <3>7. mark' = 0
      BY <1>1
    <3> QED
      BY <2>4, <3>1, <3>2, <3>5, <3>6, <3>7 DEF AtName
  <2> QED
    BY <1>3, <1>4, <2>4, <2>5 DEF DecodeInv
<1>5. CASE /\ left[section] = 0 /\ section < 3
           /\ section' = section + 1
           /\ UNCHANGED <<stage, left, name>>
  <2>1. left[section + 1] = Count(section + 1) /\ section + 1 \in 1..3
    BY <1>0, <1>1, <1>5 DEF LeftInv
  <2>2. Taken' = Taken
    <3>1. CASE section = 1
      <4>1. section' = 2 /\ left'[2] = Count(2) /\ left[1] = 0
        BY <1>5, <2>1, <3>1
      <4> QED
        BY <1>c, <1>n, <3>1, <4>1 DEF Taken
    <3>2. CASE section = 2
      <4>1. section' = 3 /\ left'[3] = Count(3) /\ left[2] = 0
        BY <1>5, <2>1, <3>2
      <4> QED
        BY <1>c, <1>n, <3>2, <4>1 DEF Taken
    <3> QED
      BY <1>0, <1>5, <3>1, <3>2
  <2>3. LeftInv'
    <3>1. left'[section'] = Count(section)' /\ Count(section)' \in Nat
      BY <1>2, <1>5, <1>n, <2>1
    <3>2. \A s \in 1..3 : s > section' => left'[s] = Count(s)'
      BY <1>0, <1>1, <1>2, <1>5 DEF LeftInv
    <3>3. left'[section'] <= Count(section)'
      BY <1>2, <1>5, <1>n, <2>1
    <3> QED
      BY <3>2, <3>3 DEF LeftInv
  <2>4. AtItem'
    BY <1>0, <1>1, <2>2 DEF AtItem, Mark
  <2> QED
    BY <1>1, <1>3, <1>5, <2>3, <2>4 DEF DecodeInv
<1>6. CASE /\ left[section] = 0 /\ section = 3
           /\ stage' = "done"
           /\ UNCHANGED <<left, section, name>>
  <2>1. Taken = Len(Sent)
    BY <1>0, <1>1, <1>6, TakenIn
  <2>2. Len(out') = Len(Sent') /\ pos' = Length'
    BY <1>0, <1>1, <2>1 DEF AtItem
  <2>3. LeftInv'
    <3>1. LeftInv => LeftInv'
      BY <1>0, <1>6, SameTaken DEF Decoding
    <3> QED
      BY <1>1, <3>1
  <2> QED
    BY <1>3, <1>6, <2>2, <2>3 DEF DecodeInv
<1> QED
  BY <1>4, <1>5, <1>6 DEF NextItem

\* A label that is taken from what is left to what has been read.
LEMMA LabelMoves ==
  ASSUME NEW n \in Seq(Labels), NEW s \in Seq(Labels), s # <<>>
  PROVE  Append(n, s[1]) \o Tail(s) = n \o s
<1> DEFINE l == s[1]  t == Tail(s)  a == Append(n, l)  x == a \o t  y == n \o s
<1>1. l \in Labels /\ t \in Seq(Labels) /\ Len(t) = Len(s) - 1 /\ Len(s) \in Nat \ {0}
      /\ Len(n) \in Nat /\ \A i \in 1..Len(t) : t[i] = s[i + 1]
  OBVIOUS
<1> HIDE DEF t
<1>2. /\ a \in Seq(Labels) /\ Len(a) = Len(n) + 1 /\ a[Len(n) + 1] = l
      /\ \A i \in 1..Len(n) : a[i] = n[i]
  BY <1>1, AppendProperties
<1> HIDE DEF a
<1>3. /\ x \in Seq(Labels) /\ Len(x) = Len(a) + Len(t)
      /\ \A i \in 1..(Len(a) + Len(t)) : x[i] = IF i <= Len(a) THEN a[i] ELSE t[i - Len(a)]
  BY <1>1, <1>2, ConcatProperties, Zenon
<1>4. /\ y \in Seq(Labels) /\ Len(y) = Len(n) + Len(s)
      /\ \A i \in 1..(Len(n) + Len(s)) : y[i] = IF i <= Len(n) THEN n[i] ELSE s[i - Len(n)]
  BY ConcatProperties, Zenon
<1> HIDE DEF x, y
<1>5. Len(x) = Len(y)
  BY <1>1, <1>2, <1>3, <1>4
<1>6. \A i \in 1..Len(x) : x[i] = y[i]
  <2> SUFFICES ASSUME NEW i \in 1..Len(x) PROVE x[i] = y[i]
    OBVIOUS
  <2>0. i \in Nat /\ i >= 1 /\ i <= Len(n) + Len(s) /\ i \in 1..(Len(n) + Len(s))
        /\ i \in 1..(Len(a) + Len(t))
    BY <1>1, <1>2, <1>3
  <2>1. CASE i <= Len(n)
    <3>1. x[i] = a[i] /\ a[i] = n[i] /\ y[i] = n[i]
      BY <1>1, <1>2, <1>3, <1>4, <2>0, <2>1
    <3> QED
      BY <3>1
  <2>2. CASE i = Len(n) + 1
    <3>0. i <= Len(a)
      BY <1>1, <1>2, <2>2
    <3>1. x[i] = a[i]
      BY <1>3, <2>0, <3>0, Zenon
    <3>4. a[i] = l
      BY <1>2, <2>2
    <3>2. ~(i <= Len(n)) /\ i - Len(n) = 1
      BY <1>1, <2>2
    <3>3. y[i] = s[1]
      BY <1>4, <2>0, <3>2
    <3> QED
      BY <3>1, <3>3, <3>4 DEF l
  <2>3. CASE i > Len(n) + 1
    <3> DEFINE j == i - (Len(n) + 1)
    <3>1. j \in 1..Len(t) /\ i - Len(a) = j /\ i - Len(n) = j + 1 /\ ~(i <= Len(a)) /\ ~(i <= Len(n))
      BY <1>1, <1>2, <2>0, <2>3
    <3> HIDE DEF j
    <3>2. x[i] = t[j] /\ y[i] = s[j + 1]
      BY <1>3, <1>4, <2>0, <3>1
    <3> QED
      BY <1>1, <3>1, <3>2
  <2> QED
    BY <1>1, <2>0, <2>1, <2>2, <2>3
<1>7. x = y
  BY <1>3, <1>4, <1>5, <1>6, SeqEqual
<1> QED
  BY <1>7 DEF x, y, a, t

\* Where a label is read: in a rest of the name that is being decoded.
LEMMA LabelPlace ==
  ASSUME Decoding, stage = "label"
  PROVE  /\ Taken \in 1..Len(Sent) /\ LeftInv /\ Len(out) = Taken - 1
         /\ left[section] < Count(section)
         /\ \E e \in trail :
              /\ e.at = pos /\ name \o e.rest = Sent[Taken].name
              /\ mark = 0 => e.item = Taken
              /\ mark # 0 => Behind(mark, Taken)
              /\ e \in Marks /\ Laid(e.at, e.item, e.rest)
<1>1. LeftInv /\ AtName /\ msg \in Message
  BY DEF Decoding, DecodeInv
<1>2. left \in [1..3 -> Nat] /\ section \in 1..3
  BY DecodingFacts
<1>3. Taken \in 1..Len(Sent)
  BY <1>1, <1>2, TakenIn DEF AtName
<1>4. \A e \in trail : e \in Marks /\ Laid(e.at, e.item, e.rest)
  BY DEF Decoding, EncodeInv, TrailInv
<1> QED
  BY <1>1, <1>3, <1>4 DEF AtName

\* The byte at a mark tells what is there.
LEMMA LaidByte ==
  ASSUME EncodeInv, NEW p, NEW k, NEW s \in Seq(Labels), Laid(p, k, s)
  PROVE  /\ Byte(p) = 0 => AtZero(p, k, s)
         /\ Byte(p) >= 192 => AtPointer(p, k, s)
         /\ Byte(p) # 0 /\ Byte(p) < 192 => AtLabel(p, k, s)
<1>1. AtPointer(p, k, s) => Byte(p) \in Nat /\ Byte(p) >= 192
  <2> SUFFICES ASSUME AtPointer(p, k, s) PROVE Byte(p) \in Nat /\ Byte(p) >= 192
    OBVIOUS
  <2>1. offsets[s] \in Nat /\ Byte(p) = PtrHigh(offsets[s])
    BY DEF AtPointer, EncodeInv, OffsetsInv, Pointable
  <2>2. \A o \in Nat : PtrHigh(o) \in Nat /\ PtrHigh(o) >= 192
    BY DEF PtrHigh
  <2> QED
    BY <2>1, <2>2
<1>2. AtLabel(p, k, s) => Byte(p) \in 1..191
  BY DEF AtLabel, Labels
<1>3. AtZero(p, k, s) => Byte(p) = 0
  BY DEF AtZero
<1>4. AtZero(p, k, s) \/ AtPointer(p, k, s) \/ AtLabel(p, k, s)
  BY DEF Laid
<1> DEFINE b == Byte(p)
<1> HIDE DEF b
<1>5. CASE AtZero(p, k, s)
  <2>1. b = 0
    BY <1>3, <1>5 DEF b
  <2>2. ~(b >= 192)
    BY <2>1
  <2> QED
    BY <1>5, <2>1, <2>2 DEF b
<1>6. CASE AtPointer(p, k, s)
  <2>1. b \in Nat /\ b >= 192
    BY <1>1, <1>6 DEF b
  <2>2. b # 0 /\ ~(b < 192)
    BY <2>1
  <2> QED
    BY <1>6, <2>1, <2>2 DEF b
<1>7. CASE AtLabel(p, k, s)
  <2>1. b \in 1..191
    BY <1>2, <1>7 DEF b
  <2>2. b # 0 /\ ~(b >= 192)
    BY <2>1
  <2> QED
    BY <1>7, <2>1, <2>2 DEF b
<1> QED
  BY <1>4, <1>5, <1>6, <1>7

LEMMA TerminatorDecodeInv ==
  ASSUME Decoding, stage = "label", Terminator
  PROVE  DecodeInv'
<1>0. /\ left \in [1..3 -> Nat] /\ section \in 1..3 /\ pos \in Nat /\ mark \in Nat
      /\ name \in Seq(Labels) /\ Agrees /\ Sent' = Sent /\ UNCHANGED <<msg, encoder>>
  BY DecodingFacts
<1>1. PICK e \in trail :
        /\ e.at = pos /\ name \o e.rest = Sent[Taken].name
        /\ mark = 0 => e.item = Taken
        /\ mark # 0 => Behind(mark, Taken)
        /\ e \in Marks /\ Laid(e.at, e.item, e.rest)
  BY LabelPlace
<1>2. /\ stage' = "fixed" /\ pos' = (IF mark # 0 THEN mark ELSE pos + 1) /\ Byte(pos) = 0
      /\ UNCHANGED <<buf, left, section, name, out>>
  BY DEF Terminator, result
<1>3. e.rest \in Seq(Labels)
  BY <1>1 DEF Marks
<1>4. AtZero(pos, e.item, e.rest)
  BY <1>1, <1>2, <1>3, LaidByte DEF Decoding
<1>5. name = Sent[Taken].name
  <2>1. e.rest = <<>>
    BY <1>4 DEF AtZero
  <2>2. name \o <<>> = name
    BY <1>0, ConcatEmptySeq
  <2> QED
    BY <1>1, <2>1, <2>2
<1>6. Behind(pos', Taken)
  BY <1>1, <1>2, <1>4 DEF AtZero
<1>7. Taken' = Taken /\ LeftInv' /\ Count(section)' = Count(section)
  BY <1>0, <1>2, SameTaken, LabelPlace
<1>8. Behind(pos, Taken)'
  <2>1. \A q, k : Behind(q, k) => Behind(q, k)'
    BY SameLayout DEF Decoding
  <2> QED
    BY <1>6, <1>7, <2>1
<1>9. AtFixed'
  BY <1>0, <1>2, <1>5, <1>7, <1>8, LabelPlace DEF AtFixed
<1>10. Agrees'
  BY <1>0, <1>2 DEF Agrees
<1> QED
  BY <1>2, <1>7, <1>9, <1>10 DEF DecodeInv

LEMMA PointerDecodeInv ==
  ASSUME Decoding, stage = "label", Pointer
  PROVE  DecodeInv'
<1>0. /\ left \in [1..3 -> Nat] /\ section \in 1..3 /\ pos \in Nat /\ mark \in Nat
      /\ name \in Seq(Labels) /\ Agrees /\ Sent' = Sent /\ UNCHANGED <<msg, encoder>>
      /\ stage' # "overrun" /\ trail' = trail
  BY DecodingFacts
<1>1. PICK e \in trail :
        /\ e.at = pos /\ name \o e.rest = Sent[Taken].name
        /\ mark = 0 => e.item = Taken
        /\ mark # 0 => Behind(mark, Taken)
        /\ e \in Marks /\ Laid(e.at, e.item, e.rest)
  BY LabelPlace
<1>2. CASE \E how \in Errors : Fail(how)
  BY <1>0, <1>2, FailDecodeInv DEF Decoding
<1>3. CASE /\ mark = 0
           /\ mark' = pos + 2
           /\ pos' = (Byte(pos) % 64) * 256 + Byte(pos + 1)
           /\ UNCHANGED stage
           /\ UNCHANGED <<buf, left, section, result>>
  <2> DEFINE o == offsets[e.rest]
  <2>1. AtPointer(pos, e.item, e.rest)
    <3>1. e.rest \in Seq(Labels)
      BY <1>1 DEF Marks
    <3> QED
      BY <1>1, <3>1, LaidByte DEF Decoding, Pointer
  <2>2. PICK m \in trail : m.at = o /\ m.rest = e.rest
    BY <2>1 DEF AtPointer, Decoding, EncodeInv, OffsetsInv
  <2>3. o \in Nat /\ o <= 16383
    BY <2>1 DEF AtPointer, Decoding, EncodeInv, OffsetsInv, Pointable
  <2>4. pos' = o
    <3>1. Byte(pos) = PtrHigh(o) /\ Byte(pos + 1) = PtrLow(o)
      BY <2>1 DEF AtPointer
    <3> HIDE DEF o
    <3>2. (PtrHigh(o) % 64) * 256 + PtrLow(o) = o
      BY <2>3 DEF PtrHigh, PtrLow
    <3> QED
      BY <1>3, <3>1, <3>2
  <2>5. Behind(mark', Taken) /\ mark' # 0
    BY <1>0, <1>1, <1>3, <2>1 DEF AtPointer
  <2>6. Taken' = Taken /\ LeftInv' /\ Count(section)' = Count(section)
    BY <1>0, <1>3, SameTaken, LabelPlace
  <2>7. Behind(mark, Taken)'
    <3>1. \A q, k : Behind(q, k) => Behind(q, k)'
      BY SameLayout DEF Decoding
    <3> QED
      BY <2>5, <2>6, <3>1
  <2>8. m.at = pos' /\ name' \o m.rest = Sent'[Taken'].name /\ name' = name /\ out' = out
    BY <1>0, <1>1, <1>3, <2>2, <2>4, <2>6 DEF result
  <2>9. AtName'
    BY <1>0, <1>3, <2>2, <2>5, <2>6, <2>7, <2>8, LabelPlace DEF AtName
  <2>10. Agrees'
    BY <1>0, <2>8 DEF Agrees
  <2> QED
    BY <1>3, <2>6, <2>9, <2>10 DEF DecodeInv
<1>4. \/ \E how \in Errors : Fail(how)
      \/ /\ mark = 0
         /\ IF Within(pos, 2)
            THEN /\ mark' = pos + 2
                 /\ pos' = (Byte(pos) % 64) * 256 + Byte(pos + 1)
                 /\ UNCHANGED stage
            ELSE stage' = "overrun" /\ UNCHANGED <<pos, mark>>
         /\ UNCHANGED <<buf, left, section, result>>
  BY DEF Pointer, Errors
<1> QED
  BY <1>0, <1>2, <1>3, <1>4

LEMMA TextDecodeInv ==
  ASSUME Decoding, stage = "label", Text
  PROVE  DecodeInv'
<1>0. /\ left \in [1..3 -> Nat] /\ section \in 1..3 /\ pos \in Nat /\ mark \in Nat
      /\ name \in Seq(Labels) /\ Agrees /\ Sent' = Sent /\ UNCHANGED <<msg, encoder>>
      /\ stage' # "overrun" /\ trail' = trail /\ buf' = buf
  BY DecodingFacts DEF Decoding
<1>1. PICK e \in trail :
        /\ e.at = pos /\ name \o e.rest = Sent[Taken].name
        /\ mark = 0 => e.item = Taken
        /\ mark # 0 => Behind(mark, Taken)
        /\ e \in Marks /\ Laid(e.at, e.item, e.rest)
  BY LabelPlace
<1>2. CASE \E how \in Errors : Fail(how)
  BY <1>0, <1>2, FailDecodeInv DEF Decoding
<1>3. CASE /\ name' = Append(name, SubSeq(buf, pos + 2, pos + 1 + Byte(pos)))
           /\ pos' = pos + 1 + Byte(pos)
           /\ UNCHANGED stage
           /\ UNCHANGED <<buf, mark, left, section, opcode, out>>
  <2> DEFINE s == e.rest  l == s[1]
  <2>0. s \in Seq(Labels)
    BY <1>1 DEF Marks
  <2>1. AtLabel(pos, e.item, s)
    BY <1>1, <2>0, LaidByte DEF Decoding, Text
  <2>2. /\ s # <<>> /\ Byte(pos) = Len(l) /\ SubSeq(buf, pos + 2, pos + 1 + Len(l)) = l
        /\ Begun(pos + 1 + Len(l), e.item, Tail(s))
    BY <2>1 DEF AtLabel
  <2> DEFINE m == Mark(pos + 1 + Len(l), e.item, Tail(s))
  <2>3. m \in trail
    <3>1. \A p, k, t : Begun(p, k, t) => Mark(p, k, t) \in trail
      BY AllLaid DEF Decoding
    <3> QED
      BY <2>2, <3>1
  <2>4. m.at = pos' /\ m.rest = Tail(s) /\ m.item = e.item
    BY <1>3, <2>2 DEF Mark
  <2> HIDE DEF m
  <2>5. Taken' = Taken /\ LeftInv' /\ Count(section)' = Count(section)
    BY <1>0, <1>3, SameTaken, LabelPlace
  <2>6. name' \o m.rest = Sent'[Taken'].name
    <3>1. name' = Append(name, l)
      BY <1>3, <2>2
    <3>2. Append(name, l) \o Tail(s) = name \o s
      BY <1>0, <2>0, <2>2, LabelMoves, Zenon
    <3> QED
      BY <1>0, <1>1, <2>4, <2>5, <3>1, <3>2
  <2>7. mark # 0 => Behind(mark, Taken)'
    <3>1. \A q, k : Behind(q, k) => Behind(q, k)'
      BY SameLayout DEF Decoding
    <3> QED
      BY <1>1, <1>3, <2>5, <3>1
  <2>8. AtName'
    BY <1>0, <1>1, <1>3, <2>3, <2>4, <2>5, <2>6, <2>7, LabelPlace DEF AtName
  <2>9. Agrees'
    BY <1>0, <1>3 DEF Agrees
  <2> QED
    BY <1>3, <2>5, <2>8, <2>9 DEF DecodeInv
<1>4. \/ \E how \in Errors : Fail(how)
      \/ /\ IF Within(pos + 1, Byte(pos))
            THEN /\ name' = Append(name, SubSeq(buf, pos + 2, pos + 1 + Byte(pos)))
                 /\ pos' = pos + 1 + Byte(pos)
                 /\ UNCHANGED stage
            ELSE stage' = "overrun" /\ UNCHANGED <<name, pos>>
         /\ UNCHANGED <<buf, mark, left, section, opcode, out>>
  BY DEF Text, Errors
<1> QED
  BY <1>0, <1>2, <1>3, <1>4

\* What was read behind a name makes it the next item of the message.
LEMMA ItemDecodeInv ==
  ASSUME Decoding, stage = "fixed", NEW size \in Nat,
         section = 1 => size = 0, section # 1 => size = U16(pos + 8),
         pos' = pos + (IF section = 1 THEN 4 ELSE 10 + size), stage' = "item",
         out' = Append(out, [section |-> section, name |-> name, size |-> size]),
         UNCHANGED <<buf, mark, left, section>>
  PROVE  DecodeInv'
<1>0. /\ left \in [1..3 -> Nat] /\ section \in 1..3 /\ pos \in Nat
      /\ Agrees /\ Sent' = Sent /\ UNCHANGED <<msg, encoder>> /\ Length' = Length
      /\ trail' = trail /\ out \in Seq(Items) /\ Sent \in Seq(Items) /\ Len(Sent) \in Nat
      /\ name \in Seq(Labels)
  BY DecodingFacts
<1>1. AtFixed /\ LeftInv /\ msg \in Message
  BY DEF Decoding, DecodeInv
<1> DEFINE t == Taken  i == [section |-> section, name |-> name, size |-> size]
<1>2. t \in 1..Len(Sent) /\ Sent[t].section = section /\ (section = 1 => Sent[t].size = 0)
  BY <1>0, <1>1, TakenIn DEF AtFixed
<1>3. t' = t /\ LeftInv'
  <2>1. UNCHANGED <<buf, msg, encoder, left, section>>
    BY <1>0
  <2> QED
    BY <1>0, <1>1, <2>1, SameTaken
<1>4. Sent[t] \in Items
  BY <1>0, <1>2, ElementOfSeq
<1>5. name = Sent[t].name /\ Behind(pos, t) /\ Len(out) = t - 1
  BY <1>1 DEF AtFixed
<1> HIDE DEF t
<1>6. /\ Sent[t].section # 1 => U16(pos + 8) = Sent[t].size
      /\ t < Len(Sent) =>
           Mark(pos + FixedLen(Sent[t]), t + 1, Sent[t + 1].name) \in trail
      /\ t = Len(Sent) => pos + FixedLen(Sent[t]) = Length
  BY <1>0, <1>1, <1>2, <1>5, AllLaid DEF Decoding
<1>7. Sent[t].size = size
  BY <1>2, <1>6
<1>8. Sent[t] = i
  BY <1>2, <1>4, <1>5, <1>7 DEF Items
<1>9. pos' = pos + FixedLen(Sent[t])
  BY <1>2, <1>7 DEF FixedLen
<1>10. /\ Len(out') = t /\ out'[t] = i
       /\ \A j \in 1..(t - 1) : out'[j] = out[j]
  <2>1. i \in Items
    BY <1>0 DEF Items
  <2> HIDE DEF i
  <2>2. /\ Len(Append(out, i)) = Len(out) + 1 /\ Append(out, i)[Len(out) + 1] = i
        /\ \A j \in 1..Len(out) : Append(out, i)[j] = out[j]
    BY <1>0, <2>1, AppendProperties
  <2>3. out' = Append(out, i)
    BY DEF i
  <2>4. t \in Nat /\ Len(out) \in Nat
    BY <1>0, <1>2
  <2>5. Len(out) + 1 = t /\ Len(out) = t - 1
    BY <1>5, <2>4
  <2> QED
    BY <2>2, <2>3, <2>5
<1> HIDE DEF i
<1>11. Agrees'
  <2>1. \A j \in 1..(t - 1) : out[j] = Sent[j]
    BY <1>0, <1>5 DEF Agrees
  <2>2. ASSUME NEW j \in 1..t PROVE out'[j] = Sent[j]
    <3>1. CASE j = t
      BY <1>8, <1>10, <3>1
    <3>2. CASE j # t
      <4>1. j \in 1..(t - 1)
        BY <1>2, <3>2
      <4> QED
        BY <1>10, <2>1, <4>1
    <3> QED
      BY <3>1, <3>2
  <2> QED
    BY <1>0, <1>2, <1>10, <2>2 DEF Agrees
<1>12. AtItem'
  <2>1. t < Len(Sent) => Mark(pos', t + 1, Sent[t + 1].name) \in trail
    BY <1>6, <1>9
  <2>2. t = Len(Sent) => pos' = Length
    BY <1>6, <1>9
  <2>3. Taken' = t
    BY <1>3 DEF t
  <2> QED
    BY <1>0, <1>10, <2>1, <2>2, <2>3 DEF AtItem, Mark
<1> QED
  BY <1>3, <1>11, <1>12 DEF DecodeInv

LEMMA QuestDecodeInv ==
  ASSUME Decoding, Quest
  PROVE  DecodeInv'
<1>0. UNCHANGED <<msg, encoder>> /\ stage' # "overrun"
  BY DecodingFacts
<1>1. CASE \E how \in Errors : Fail(how)
  BY <1>0, <1>1, FailDecodeInv DEF Decoding
<1>2. CASE /\ pos' = pos + 4 /\ stage' = "item"
           /\ out' = Append(out, [section |-> section, name |-> name, size |-> 0])
           /\ UNCHANGED <<buf, mark, left, section, name, opcode>>
  <2>1. stage = "fixed" /\ section = 1
    BY DEF Quest
  <2> QED
    BY <1>2, <2>1, ItemDecodeInv
<1>3. \/ \E how \in Errors : Fail(how)
      \/ /\ IF Within(pos, 4)
            THEN /\ stage' = "item" /\ pos' = pos + 4
                 /\ out' = Append(out, [section |-> section, name |-> name, size |-> 0])
            ELSE stage' = "overrun" /\ UNCHANGED <<pos, out>>
         /\ UNCHANGED <<buf, mark, left, section, name, opcode>>
  BY DEF Quest, Errors
<1> QED
  BY <1>0, <1>1, <1>2, <1>3

LEMMA RecordDecodeInv ==
  ASSUME Decoding, Record
  PROVE  DecodeInv'
<1>0. /\ UNCHANGED <<msg, encoder>> /\ stage' # "overrun" /\ section \in 1..3
      /\ left \in [1..3 -> Nat] /\ Len(Sent) \in Nat /\ pos \in Nat
  BY DecodingFacts
<1>1. CASE \E how \in Errors : Fail(how)
  BY <1>0, <1>1, FailDecodeInv DEF Decoding
<1>2. CASE /\ pos' = pos + 10 + U16(pos + 8) /\ stage' = "item"
           /\ out' = Append(out, [section |-> section, name |-> name, size |-> U16(pos + 8)])
           /\ UNCHANGED <<buf, mark, left, section, name, opcode>>
  <2>0. stage = "fixed" /\ section > 1
    BY Zenon DEF Record
  <2>1. stage = "fixed" /\ section # 1
    BY <1>0, <2>0
  <2>2. AtFixed /\ LeftInv /\ msg \in Message
    BY <2>1 DEF Decoding, DecodeInv
  <2>3. Taken \in 1..Len(Sent) /\ Sent[Taken].section = section
    BY <1>0, <2>2, TakenIn DEF AtFixed
  <2>4. U16(pos + 8) = Sent[Taken].size
    BY <1>0, <2>1, <2>2, <2>3, AllLaid DEF Decoding, AtFixed
  <2>5. Sent[Taken] \in Items
    BY <2>3, DecodingFacts, ElementOfSeq
  <2>6. U16(pos + 8) \in Nat
    BY <2>4, <2>5 DEF Items
  <2> DEFINE u == U16(pos + 8)
  <2> HIDE DEF u
  <2>7. pos + 10 + u = pos + (10 + u)
    BY <1>0, <2>6 DEF u
  <2>8. pos' = pos + (IF section = 1 THEN 4 ELSE 10 + U16(pos + 8))
    BY <1>2, <2>1, <2>7 DEF u
  <2> QED
    BY <1>2, <2>1, <2>6, <2>8, ItemDecodeInv
<1>3. \/ \E how \in Errors : Fail(how)
      \/ /\ stage' = "item" /\ pos' = pos + 10 + U16(pos + 8)
         /\ out' = Append(out, [section |-> section, name |-> name, size |-> U16(pos + 8)])
         /\ UNCHANGED <<buf, mark, left, section, name, opcode>>
      \/ stage' = "overrun"
  BY DEF Record, Errors, Fail, result
<1> QED
  BY <1>0, <1>1, <1>2, <1>3

\* Every step of Decode on what Encode returned.
LEMMA DecodeInvStep ==
  ASSUME Decoding, Next
  PROVE  DecodeInv'
<1>1. CASE Header
  BY <1>1, HeaderDecodeInv
<1>2. CASE NextItem
  BY <1>2, NextItemDecodeInv
<1>3. CASE Label
  <2>1. stage = "label"
    BY <1>3 DEF Label
  <2>2. CASE Fail("not enough data")
    <3>1. UNCHANGED <<msg, encoder>> /\ "not enough data" \in Errors
      BY DEF Decoding, Errors
    <3> QED
      BY <2>2, <3>1, FailDecodeInv DEF Decoding
  <2> QED
    BY <1>3, <2>1, <2>2, TerminatorDecodeInv, PointerDecodeInv, TextDecodeInv DEF Label
<1>4. CASE Quest
  BY <1>4, QuestDecodeInv
<1>5. CASE Record
  BY <1>5, RecordDecodeInv
<1> QED
  BY <1>1, <1>2, <1>3, <1>4, <1>5 DEF Next

LEMMA SameEncodeInv ==
  ASSUME EncodeInv, UNCHANGED <<buf, msg, encoder>>
  PROVE  EncodeInv'
<1>1. /\ buf' = buf /\ msg' = msg /\ call' = call /\ item' = item /\ rest' = rest
      /\ trail' = trail /\ offsets' = offsets
  BY DEF encoder
<1>2. Sent' = Sent /\ Length' = Length
  BY <1>1 DEF Sent, Length
<1>3. \A p, k, s : Begun(p, k, s)' <=> Begun(p, k, s)
  BY <1>1, <1>2 DEF Begun, Mark
<1>4. \A q, k : Behind(q, k)' <=> Behind(q, k)
  BY <1>1, <1>2, <1>3 DEF Behind, Begun, Written, Within, U16, Byte, FixedLen, Mark
<1>5. \A p, k, s : Laid(p, k, s)' <=> Laid(p, k, s)
  BY <1>1, <1>2, <1>3, <1>4
  DEF Laid, AtZero, AtPointer, AtLabel, Begun, Behind, Written, Within, Byte, U16, FixedLen, Mark,
      PtrHigh, PtrLow
<1>6. TrailInv'
  BY <1>1, <1>5 DEF EncodeInv, TrailInv, Laid
<1>7. OffsetsInv'
  BY <1>1 DEF EncodeInv, OffsetsInv
<1>8. HeaderInv => HeaderInv'
  BY <1>1, <1>2 DEF HeaderInv, U16, Byte
<1>9. StartInv => StartInv'
  BY <1>1, <1>2 DEF StartInv, Open, Begun, Mark
<1> QED
  BY <1>1, <1>2, <1>6, <1>7, <1>8, <1>9 DEF EncodeInv

LEMMA SameDecodeInv ==
  ASSUME DecodeInv, UNCHANGED <<vars, msg, encoder>>, section \in 1..3
  PROVE  DecodeInv'
<1>1. UNCHANGED <<buf, msg, encoder, left, section>> /\ UNCHANGED <<stage, pos, mark, name, out>>
  BY DEF vars, result
<1>2. UNCHANGED <<buf, msg, encoder>>
  BY <1>1
<1>3. /\ Sent' = Sent /\ Length' = Length /\ trail' = trail
      /\ \A q, k : Behind(q, k) => Behind(q, k)'
  BY <1>2, SameLayout
<1>4. Taken' = Taken /\ (LeftInv => LeftInv') /\ Count(section)' = Count(section)
  BY <1>1, SameTaken
<1>5. Agrees'
  BY <1>1, <1>3 DEF DecodeInv, Agrees
<1>6. AtItem => AtItem'
  BY <1>1, <1>3, <1>4 DEF AtItem, Mark
<1>7. AtName => AtName'
  <2>1. mark # 0 /\ Behind(mark, Taken) => Behind(mark, Taken)'
    BY <1>1, <1>3, <1>4
  <2> QED
    BY <1>1, <1>3, <1>4, <2>1 DEF AtName
<1>8. AtFixed => AtFixed'
  <2>1. Behind(pos, Taken) => Behind(pos, Taken)'
    BY <1>1, <1>3, <1>4
  <2> QED
    BY <1>1, <1>3, <1>4, <2>1 DEF AtFixed
<1> QED
  BY <1>1, <1>3, <1>4, <1>5, <1>6, <1>7, <1>8 DEF DecodeInv

\* Before the decoder starts it agrees with any message.
LEMMA FreshDecodeInv ==
  ASSUME msg' \in Message, stage' = "header", out' = <<>>, section' = 1
  PROVE  DecodeInv'
<1>1. Len(Sent') \in Nat
  <2>1. (msg \in Message => Len(Sent) \in Nat)'
    BY SentLength, PTL
  <2> QED
    BY <2>1
<1>2. Agrees'
  BY <1>1 DEF Agrees
<1> QED
  BY <1>2 DEF DecodeInv

LEMMA FreshEncodeInv ==
  call = "header" /\ buf = <<>> /\ item = 0 /\ trail = {} /\ offsets = <<>> => EncodeInv
BY DEF EncodeInv, TrailInv, OffsetsInv

\* Every step keeps the agreement of the two coders.
LEMMA CodecStep ==
  ASSUME TInv, TInv', CodecInv, Short, Short', [ProxyNext]_<<vars, msg, encoder, proxy>>
  PROVE  CodecInv'
<1>0. IInv /\ IInv' /\ EncodeTypes /\ EncodeTypes' /\ section \in 1..3
  BY DEF TInv, IInv, TypeOK
<1>1. CASE Coding
  <2>0. MsgNext /\ msg' = msg
    BY <1>1 DEF Coding, MsgNext, Encode, PutHeader, NextName, PutName, PutFixed
  <2> SUFFICES ASSUME msg # Raw PROVE EncodeInv' /\ DecodeInv'
    BY <2>0 DEF CodecInv
  <2>1. EncodeInv /\ DecodeInv /\ msg \in Message
    BY <1>0 DEF CodecInv, EncodeTypes
  <2>2. CASE Encode
    <3>1. EncodeInv'
      BY <1>0, <2>1, <2>2, EncodeInvStep
    <3>2. call # "sent" /\ UNCHANGED decoder
      BY <2>2 DEF Encode, PutHeader, NextName, PutName, PutFixed
    <3>3. stage = "header" /\ out = <<>> /\ section = 1
      BY <1>0, <2>1, <3>2 DEF EncodeTypes, DecodeInv
    <3>4. stage' = "header" /\ out' = <<>> /\ section' = 1
      BY <3>2, <3>3 DEF decoder, result
    <3> QED
      BY <2>0, <2>1, <3>1, <3>4, FreshDecodeInv
  <2>3. CASE call = "sent" /\ Next /\ UNCHANGED <<msg, encoder>>
    <3>1. buf' = buf
      BY <2>3, Zenon DEF Next, Header, NextItem, Label, Terminator, Pointer, Text, Quest, Record, Fail
    <3>2. EncodeInv'
      BY <2>1, <2>3, <3>1, SameEncodeInv
    <3>3. Decoding
      BY <1>0, <2>1, <2>3, <3>1 DEF Decoding
    <3> QED
      BY <2>3, <3>2, <3>3, DecodeInvStep
  <2> QED
    BY <2>0, <2>2, <2>3 DEF MsgNext
<1>2. CASE UNCHANGED <<vars, msg, encoder>>
  <2>1. UNCHANGED <<buf, msg, encoder>>
    BY <1>2 DEF vars
  <2>2. msg # Raw => EncodeInv' /\ DecodeInv'
    BY <1>0, <1>2, <2>1, SameEncodeInv, SameDecodeInv DEF CodecInv
  <2> QED
    BY <2>1, <2>2 DEF CodecInv
<1>3. CASE Respond
  <2>1. msg' \in Message
    BY <1>3 DEF Respond, TInv, HandleTypes
  <2>2. /\ stage' = "header" /\ out' = <<>> /\ section' = 1
        /\ call' = "header" /\ buf' = <<>> /\ item' = 0 /\ trail' = {} /\ offsets' = <<>>
    BY <1>3 DEF Respond
  <2>3. EncodeInv'
    <3>1. (call = "header" /\ buf = <<>> /\ item = 0 /\ trail = {} /\ offsets = <<>> => EncodeInv)'
      BY FreshEncodeInv, PTL
    <3> QED
      BY <2>2, <3>1
  <2>4. DecodeInv'
    BY <2>1, <2>2, FreshDecodeInv
  <2> QED
    BY <2>3, <2>4 DEF CodecInv
<1> QED
  BY <1>1, <1>2, <1>3 DEF ProxyNext, Handle, CacheSet, Crash, HandleStarts, HandleQuest, Lost

LEMMA InitCodecInv == ProxyInit => CodecInv
<1> SUFFICES ASSUME ProxyInit, msg # Raw PROVE EncodeInv /\ DecodeInv
  BY DEF CodecInv
<1>1. msg \in Messages /\ EncodeInit /\ Reset
  BY DEF ProxyInit
<1>2. EncodeInv
  BY <1>1, FreshEncodeInv DEF EncodeInit
<1>3. Len(Sent) \in Nat /\ stage = "header" /\ out = <<>> /\ section = 1
  BY <1>1, MessagesAssumption, SentLength DEF Reset
<1>4. Agrees
  BY <1>3 DEF Agrees
<1> QED
  BY <1>2, <1>3, <1>4 DEF DecodeInv

LEMMA AlwaysCodecInv == ProxySpec /\ []Short => []CodecInv
<1>1. ProxyInit => CodecInv
  BY InitCodecInv
<1>2. TInv /\ TInv' /\ Short /\ Short' /\ CodecInv /\ [ProxyNext]_<<vars, msg, encoder, proxy>> => CodecInv'
  BY CodecStep
<1> QED
  BY <1>1, <1>2, AlwaysTInv, PTL DEF ProxySpec

\* What agrees so far, in the words of the property.
LEMMA AgreesNothingElse ==
  ASSUME TInv, CodecInv, msg # Raw
  PROVE  NothingElse
<1>1. EncodeInv /\ DecodeInv /\ Agrees /\ msg \in Message
  BY DEF CodecInv, DecodeInv, TInv, EncodeTypes
<1>2. out \in Seq(Items) /\ Len(out) \in Nat /\ Sent \in Seq(Items) /\ Len(Sent) \in Nat
  BY <1>1, SentItems DEF TInv, IInv, TypeOK
<1>3. IsPrefix(out, Sent)
  <2> DEFINE u == SubSeq(Sent, 1, Len(out))
  <2>1. u \in Seq(Items) /\ Len(u) = Len(out) /\ \A i \in 1..Len(out) : u[i] = Sent[i]
    <3>1. Len(out) <= Len(Sent)
      BY <1>1 DEF Agrees
    <3> QED
      BY <1>2, <3>1
  <2> HIDE DEF u
  <2>2. out = u
    <3>1. \A i \in 1..Len(out) : out[i] = u[i]
      BY <1>1, <2>1 DEF Agrees
    <3> QED
      BY <1>2, <2>1, <3>1, SeqEqual
  <2>3. SubSeq(out, 1, Len(out)) = out
    BY <1>2
  <2> QED
    BY <1>1, <2>2, <2>3 DEF IsPrefix, Agrees, u
<1>4. ASSUME stage = "done" PROVE out = Sent /\ pos = Length
  <2>1. Len(out) = Len(Sent) /\ pos = Length /\ \A i \in 1..Len(out) : out[i] = Sent[i]
    BY <1>1, <1>4 DEF DecodeInv, Agrees
  <2> QED
    BY <1>2, <2>1, SeqEqual
<1> QED
  BY <1>3, <1>4 DEF NothingElse

\* Decode makes of what Encode wrote the message that went in: each name whole,
\* with its labels behind pointers, at its place, with the length of its data;
\* nothing is left over at the end, and an error comes with a beginning of it.
\* The offsets of the message fit a pointer (encode.go:10-132, decode.go:22-318).
THEOREM NamesComeBack == ProxySpec /\ []Short => []Faithful
<1>1. TInv /\ CodecInv => Faithful
  BY AgreesNothingElse DEF Faithful
<1> QED
  BY <1>1, AlwaysTInv, AlwaysCodecInv, PTL

-----------------------------------------------------------------------------
(* The response answers what was asked                                     *)

\* k new members behind a set of numbers up to a.
LEMMA CountMore ==
  ASSUME NEW a \in Nat, NEW k \in Nat, NEW S \in SUBSET (1..a)
  PROVE  /\ Cardinality(S) \in Nat
         /\ Cardinality(S \cup ((a + 1)..(a + k))) = Cardinality(S) + k
<1> DEFINE T == (a + 1)..(a + k)
<1>1. IsFiniteSet(1..a)
  BY FS_Interval
<1>2. IsFiniteSet(S) /\ Cardinality(S) \in Nat
  BY <1>1, FS_Subset, FS_CardinalityType
<1>3. IsFiniteSet(T) /\ Cardinality(T) = k
  <2>1. a + 1 \in Int /\ a + k \in Int
    OBVIOUS
  <2>2. IsFiniteSet(T) /\ Cardinality(T) = IF a + 1 > a + k THEN 0 ELSE a + k - (a + 1) + 1
    BY <2>1, FS_Interval
  <2> QED
    BY <2>2
<1>4. S \cap T = {}
  OBVIOUS
<1> HIDE DEF T
<1>5. Cardinality(S \cup T) = Cardinality(S) + Cardinality(T) - Cardinality(S \cap T)
  BY <1>2, <1>3, FS_Union
<1>6. Cardinality(S \cap T) = 0
  BY <1>4, FS_EmptySet
<1>7. Cardinality(S \cup T) = Cardinality(S) + k
  BY <1>2, <1>3, <1>5, <1>6
<1> QED
  BY <1>2, <1>7 DEF T

\* The same members, each q higher.
LEMMA CountShifted ==
  ASSUME NEW q \in Nat, NEW S \in SUBSET Nat, IsFiniteSet(S), NEW T,
         \A t : t \in T <=> \E j \in S : t = q + j
  PROVE  Cardinality(T) = Cardinality(S)
<1> DEFINE f == [j \in S |-> q + j]
<1>1. f \in [S -> T]
  OBVIOUS
<1>2. \A i, j \in S : f[i] = f[j] => i = j
  <2> SUFFICES ASSUME NEW i \in S, NEW j \in S, f[i] = f[j] PROVE i = j
    OBVIOUS
  <2>1. i \in Nat /\ j \in Nat /\ q + i = q + j
    OBVIOUS
  <2> QED
    BY <2>1
<1>3. \A t \in T : \E j \in S : f[j] = t
  OBVIOUS
<1> HIDE DEF f
<1>4. f \in Bijection(S, T)
  BY <1>1, <1>2, <1>3, Fun_IsBij
<1>5. ExistsBijection(S, T)
  BY <1>4 DEF ExistsBijection
<1> QED
  BY <1>5, FS_Bijection

LEMMA RecordsJoined ==
  ASSUME NEW s \in Seq(Records), NEW t \in Seq(Records)
  PROVE  /\ Len(s \o t) = Len(s) + Len(t)
         /\ \A i \in 1..Len(s) : (s \o t)[i] = s[i]
         /\ \A i \in 1..Len(t) : (s \o t)[Len(s) + i] = t[i]
<1>1. /\ s \o t \in Seq(Records) /\ Len(s \o t) = Len(s) + Len(t)
      /\ \A i \in 1..(Len(s) + Len(t)) : (s \o t)[i] = IF i <= Len(s) THEN s[i] ELSE t[i - Len(s)]
  BY ConcatProperties, Zenon
<1>2. \A i \in 1..Len(s) : (s \o t)[i] = s[i]
  BY <1>1
<1>3. \A i \in 1..Len(t) : (s \o t)[Len(s) + i] = t[i]
  <2> SUFFICES ASSUME NEW i \in 1..Len(t) PROVE (s \o t)[Len(s) + i] = t[i]
    OBVIOUS
  <2>1. ~(Len(s) + i <= Len(s)) /\ Len(s) + i - Len(s) = i /\ Len(s) + i \in 1..(Len(s) + Len(t))
    OBVIOUS
  <2> QED
    BY <1>1, <2>1
<1> QED
  BY <1>1, <1>2, <1>3

\* addAnswers puts the addresses of a name behind the other answers.
LEMMA AddedAnswers ==
  ASSUME resp \in Message, NEW n \in Seq(Labels), NEW list \in Seq(Nat),
         Add(n, list), HasList(n, list)
  PROVE  /\ Len(resp.answers) \in Nat /\ Len(list) \in Nat
         /\ Len(resp'.answers) = Len(resp.answers) + Len(list)
         /\ \A j \in 1..Len(resp.answers) : resp'.answers[j] = resp.answers[j]
         /\ \A j \in 1..Len(list) : resp'.answers[Len(resp.answers) + j].name = n
<1> DEFINE a == Len(resp.answers)
<1> DEFINE x == resp.answers  y == Answers(n, list)
<1>1. /\ y \in Seq(Records) /\ Len(y) = Len(list) /\ \A j \in 1..Len(list) : y[j].name = n
  <2>1. y \in [1..Len(list) -> Records]
    BY ElementOfSeq DEF Answers, Records
  <2>2. \A j \in 1..Len(list) : y[j].name = n
    BY DEF Answers
  <2> HIDE DEF y
  <2>3. Len(list) \in Nat
    OBVIOUS
  <2>4. y \in Seq(Records) /\ Len(y) = Len(list)
    BY <2>1, <2>3, FunctionIsSequence
  <2> QED
    BY <2>2, <2>4
<1>2. x \in Seq(Records) /\ Len(list) \in Nat /\ a \in Nat /\ a = Len(x)
  BY DEF Message
<1>3. resp'.answers = x \o y
  <2>1. resp' = [resp EXCEPT !.quests = Append(@, n), !.answers = @ \o Answers(n, list)]
    BY DEF Add
  <2> QED
    BY <2>1 DEF Message
<1> HIDE DEF x, y
<1>4. /\ Len(x \o y) = Len(x) + Len(y)
      /\ \A i \in 1..Len(x) : (x \o y)[i] = x[i]
      /\ \A i \in 1..Len(y) : (x \o y)[Len(x) + i] = y[i]
  BY <1>1, <1>2, RecordsJoined, Zenon
<1>5. Len(resp'.answers) = a + Len(list) /\ \A j \in 1..a : resp'.answers[j] = x[j]
  BY <1>1, <1>2, <1>3, <1>4
<1>6. \A j \in 1..Len(list) : resp'.answers[a + j].name = n
  BY <1>1, <1>2, <1>3, <1>4
<1> QED
  BY <1>2, <1>5, <1>6 DEF x, a

LEMMA AnswersToMore ==
  ASSUME resp \in Message, NEW n \in Seq(Labels), NEW list \in Seq(Nat),
         Add(n, list), HasList(n, list), NEW m
  PROVE  IF m = n
         THEN AnswersTo(m)' = AnswersTo(m) \cup ((Len(resp.answers) + 1)..(Len(resp.answers) + Len(list)))
         ELSE AnswersTo(m)' = AnswersTo(m)
<1> DEFINE a == Len(resp.answers)  k == Len(list)
<1>0. a = Len(resp.answers) /\ k = Len(list)
  OBVIOUS
<1> HIDE DEF a, k
<1>1. /\ a \in Nat /\ k \in Nat /\ Len(resp'.answers) = a + k
      /\ \A j \in 1..a : resp'.answers[j] = resp.answers[j]
      /\ \A j \in 1..k : resp'.answers[a + j].name = n
  <2>1. /\ Len(resp.answers) \in Nat /\ Len(list) \in Nat
        /\ Len(resp'.answers) = Len(resp.answers) + Len(list)
        /\ \A j \in 1..Len(resp.answers) : resp'.answers[j] = resp.answers[j]
        /\ \A j \in 1..Len(list) : resp'.answers[Len(resp.answers) + j].name = n
    BY AddedAnswers
  <2> QED
    BY <1>0, <2>1
<1>2. \A j \in (a + 1)..(a + k) : resp'.answers[j].name = n
  <2> SUFFICES ASSUME NEW j \in (a + 1)..(a + k) PROVE resp'.answers[j].name = n
    OBVIOUS
  <2>1. j - a \in 1..k /\ a + (j - a) = j
    BY <1>1
  <2>2. resp'.answers[a + (j - a)].name = n
    BY <1>1, <2>1
  <2> QED
    BY <2>1, <2>2
<1>3. \A j : j \in 1..(a + k) <=> j \in 1..a \/ j \in (a + 1)..(a + k)
  BY <1>1
<1>4. AnswersTo(m)' = {j \in 1..(a + k) : resp'.answers[j].name = m}
  BY <1>1 DEF AnswersTo
<1>5. AnswersTo(m) = {j \in 1..a : resp.answers[j].name = m}
  BY DEF AnswersTo, a
<1>6. CASE m = n
  <2>1. AnswersTo(m)' = AnswersTo(m) \cup ((a + 1)..(a + k))
    BY <1>1, <1>2, <1>3, <1>4, <1>5, <1>6
  <2> QED
    BY <1>6, <2>1 DEF a, k
<1>7. CASE m # n
  <2>1. AnswersTo(m)' = AnswersTo(m)
    BY <1>1, <1>2, <1>3, <1>4, <1>5, <1>7
  <2> QED
    BY <1>7, <2>1
<1> QED
  BY <1>6, <1>7

\* The next question, answered with what was found for its name.
LEMMA AddRespInv ==
  ASSUME TInv, RespInv, leg = "handle", Asks(asked + 1), NEW list \in Seq(Nat),
         Add(out[asked + 1].name, list),
         out[asked + 1].name \in DOMAIN Table => list = Table[out[asked + 1].name],
         list # <<>> => Known(out[asked + 1].name),
         asked' = asked + 1, UNCHANGED <<out, leg, request, cache>>
  PROVE  RespInv'
<1>n. PICK n : n = out[asked + 1].name
  OBVIOUS
<1>1. /\ asked \in Nat /\ resp \in Message /\ out \in Seq(Items) /\ Len(out) \in Nat
      /\ asked + 1 \in 1..Len(out) /\ out[asked + 1].section = 1
  BY DEF TInv, HandleTypes, IInv, TypeOK, Asks
<1>2. n \in Seq(Labels) /\ n # <<>>
  <2>1. out[asked + 1] \in Items
    BY <1>1, ElementOfSeq
  <2> QED
    BY <1>1, <1>n, <2>1 DEF Items, TInv, QuestsFirst
<1>3. /\ asked \in 0..Len(out) /\ \A i \in 1..asked : Asks(i)
      /\ \A m \in DOMAIN Table : Cardinality(AnswersTo(m)) = Len(Table[m]) * Cardinality(SeenOf(m))
      /\ \A j \in 1..Len(resp.answers) :
           Known(resp.answers[j].name) /\ SeenOf(resp.answers[j].name) # {}
  BY DEF RespInv
<1>4. Add(n, list) /\ (n \in DOMAIN Table => list = Table[n]) /\ (list # <<>> => Known(n))
  BY <1>n
<1>5. asked' \in 0..Len(out') /\ \A i \in 1..asked' : Asks(i)'
  <2>1. asked + 1 \in 0..Len(out) /\ \A i \in 1..(asked + 1) : i \in 1..asked \/ i = asked + 1
    BY <1>1
  <2>2. \A i : Asks(i)' <=> Asks(i)
    BY DEF Asks
  <2> QED
    BY <1>3, <2>1, <2>2
<1>6. \A m : SeenOf(m)' = IF m = n THEN SeenOf(m) \cup {asked + 1} ELSE SeenOf(m)
  <2> SUFFICES ASSUME NEW m
               PROVE  SeenOf(m)' = IF m = n THEN SeenOf(m) \cup {asked + 1} ELSE SeenOf(m)
    OBVIOUS
  <2>1. SeenOf(m)' = {i \in 1..(asked + 1) : out[i].name = m}
    BY DEF SeenOf
  <2>2. \A i : i \in 1..(asked + 1) <=> i \in 1..asked \/ i = asked + 1
    BY <1>1
  <2>3. CASE m = n
    BY <1>n, <2>1, <2>2, <2>3 DEF SeenOf
  <2>4. CASE m # n
    BY <1>n, <2>1, <2>2, <2>4 DEF SeenOf
  <2> QED
    BY <2>3, <2>4
<1>7. \A m : Known(m)' <=> Known(m)
  BY DEF Known
<1>8. CASE ~HasList(n, list)
  <2>1. resp' = resp /\ n \notin DOMAIN Table
    <3>1. list = <<>>
      BY <1>2, <1>8 DEF HasList
    <3> QED
      BY <1>4, <1>8, <3>1, TableAssumption DEF Add
  <2>2. \A m : AnswersTo(m)' = AnswersTo(m)
    BY <2>1 DEF AnswersTo
  <2>3. \A m \in DOMAIN Table : Cardinality(AnswersTo(m)') = Len(Table[m]) * Cardinality(SeenOf(m)')
    BY <1>3, <1>6, <2>1, <2>2
  <2>4. ASSUME NEW j \in 1..Len(resp'.answers), NEW x, x = resp'.answers[j].name
        PROVE  Known(x)' /\ SeenOf(x)' # {}
    <3>1. Known(x) /\ SeenOf(x) # {}
      BY <1>3, <2>1, <2>4
    <3> QED
      BY <1>6, <1>7, <3>1
  <2> QED
    BY <1>5, <2>3, <2>4 DEF RespInv
<1>9. CASE HasList(n, list)
  <2>1. \A m : IF m = n
               THEN AnswersTo(m)' = AnswersTo(m)
                      \cup ((Len(resp.answers) + 1)..(Len(resp.answers) + Len(list)))
               ELSE AnswersTo(m)' = AnswersTo(m)
    BY <1>1, <1>2, <1>4, <1>9, AnswersToMore
  <2>2. \A m \in DOMAIN Table : Cardinality(AnswersTo(m)') = Len(Table[m]) * Cardinality(SeenOf(m)')
    <3> SUFFICES ASSUME NEW m \in DOMAIN Table
                 PROVE  Cardinality(AnswersTo(m)') = Len(Table[m]) * Cardinality(SeenOf(m)')
      OBVIOUS
    <3>1. CASE m # n
      BY <1>3, <1>6, <2>1, <3>1
    <3>2. CASE m = n
      <4> DEFINE k == Len(list)  a == Len(resp.answers)
                 c == Cardinality(AnswersTo(m))  d == Cardinality(SeenOf(m))
      <4>1. k \in Nat /\ a \in Nat /\ k = Len(Table[m])
        BY <1>1, <1>4, <3>2 DEF Message
      <4>2. AnswersTo(m) \in SUBSET (1..a) /\ SeenOf(m) \in SUBSET (1..asked)
        BY DEF AnswersTo, SeenOf
      <4>3. AnswersTo(m)' = AnswersTo(m) \cup ((a + 1)..(a + k))
        BY <2>1, <3>2
      <4>4. SeenOf(m)' = SeenOf(m) \cup ((asked + 1)..(asked + 1))
        <5>1. (asked + 1)..(asked + 1) = {asked + 1}
          BY <1>1
        <5> QED
          BY <1>6, <3>2, <5>1
      <4>5. c = k * d
        BY <1>3, <4>1
      <4> HIDE DEF k, a
      <4>6. c \in Nat /\ Cardinality(AnswersTo(m)') = c + k
        <5>1. /\ Cardinality(AnswersTo(m)) \in Nat
              /\ Cardinality(AnswersTo(m) \cup ((a + 1)..(a + k))) = Cardinality(AnswersTo(m)) + k
          BY <4>1, <4>2, CountMore
        <5> QED
          BY <4>3, <5>1
      <4>7. d \in Nat /\ Cardinality(SeenOf(m)') = d + 1
        <5>1. /\ Cardinality(SeenOf(m)) \in Nat
              /\ Cardinality(SeenOf(m) \cup ((asked + 1)..(asked + 1))) = Cardinality(SeenOf(m)) + 1
          BY <1>1, <4>2, CountMore
        <5> QED
          BY <4>4, <5>1
      <4> HIDE DEF c, d
      <4>8. k * d + k = k * (d + 1)
        BY <4>1, <4>7
      <4> QED
        BY <4>1, <4>5, <4>6, <4>7, <4>8
    <3> QED
      BY <3>1, <3>2
  <2>3. ASSUME NEW j \in 1..Len(resp'.answers), NEW x, x = resp'.answers[j].name
        PROVE  Known(x)' /\ SeenOf(x)' # {}
    <3> DEFINE a == Len(resp.answers)
    <3>1. /\ a \in Nat /\ Len(list) \in Nat /\ Len(resp'.answers) = a + Len(list)
          /\ \A i \in 1..a : resp'.answers[i] = resp.answers[i]
          /\ \A i \in 1..Len(list) : resp'.answers[a + i].name = n
      BY <1>1, <1>2, <1>4, <1>9, AddedAnswers
    <3>2. CASE j \in 1..a
      <4>1. Known(x) /\ SeenOf(x) # {}
        BY <1>3, <2>3, <3>1, <3>2
      <4> QED
        BY <1>6, <1>7, <4>1
    <3>3. CASE j \notin 1..a
      <4> HIDE DEF a
      <4>1. j - a \in 1..Len(list) /\ a + (j - a) = j
        BY <3>1, <3>3
      <4>2. resp'.answers[a + (j - a)].name = n
        BY <3>1, <4>1
      <4>3. x = n
        BY <2>3, <4>1, <4>2
      <4>4. Known(n)
        BY <1>4, <1>9 DEF HasList
      <4>5. SeenOf(x)' # {}
        BY <1>6, <4>3
      <4> QED
        BY <1>7, <4>3, <4>4, <4>5
    <3> QED
      BY <3>2, <3>3
  <2> QED
    BY <1>5, <2>2, <2>3 DEF RespInv
<1> QED
  BY <1>8, <1>9

LEMMA HandleQuestRespInv ==
  ASSUME TInv, RespInv, HandleQuest
  PROVE  RespInv'
<1>1. /\ leg = "handle" /\ Asks(asked + 1) /\ asked' = asked + 1
      /\ UNCHANGED <<out, leg, request, cache>>
  BY DEF HandleQuest, vars, result
<1> DEFINE n == out[asked + 1].name
<1>2. CASE n \in DOMAIN Table /\ Add(n, Table[n]) /\ UNCHANGED read
  <2>1. Table[n] \in Seq(Nat) /\ Known(n)
    BY <1>2, TableAssumption DEF Known
  <2> QED
    BY <1>1, <1>2, <2>1, AddRespInv
<1>3. CASE /\ n \notin DOMAIN Table
           /\ \E now \in Times : Add(n, CacheGet(Entry(n), now).list)
  <2>1. PICK now \in Times : Add(n, CacheGet(Entry(n), now).list)
    BY <1>3
  <2> DEFINE list == CacheGet(Entry(n), now).list
  <2>2. list \in Seq(Nat) /\ (list # <<>> => Known(n))
    BY CacheGetList DEF Known, TInv, HandleTypes
  <2>3. Add(n, list) /\ n \notin DOMAIN Table
    BY <1>3, <2>1
  <2> HIDE DEF list
  <2> QED
    BY <1>1, <2>2, <2>3, AddRespInv
<1> QED
  BY <1>2, <1>3 DEF HandleQuest

LEMMA HandleStartsRespInv ==
  ASSUME HandleStarts, TInv
  PROVE  RespInv'
<1>1. leg' = "handle" /\ asked' = 0 /\ resp'.answers = <<>> /\ out' = out
  BY DEF HandleStarts, NoAnswer, vars, result
<1>2. Len(out) \in Nat
  BY DEF TInv, IInv, TypeOK
<1>3. \A n : AnswersTo(n)' = {} /\ SeenOf(n)' = {}
  BY <1>1 DEF AnswersTo, SeenOf
<1>4. \A n \in DOMAIN Table : Cardinality(AnswersTo(n)') = Len(Table[n]) * Cardinality(SeenOf(n)')
  <2> SUFFICES ASSUME NEW n \in DOMAIN Table
               PROVE  Cardinality(AnswersTo(n)') = Len(Table[n]) * Cardinality(SeenOf(n)')
    OBVIOUS
  <2>1. Cardinality(AnswersTo(n)') = 0 /\ Cardinality(SeenOf(n)') = 0
    BY <1>3, FS_EmptySet
  <2>2. Len(Table[n]) \in Nat
    BY TableAssumption
  <2> QED
    BY <2>1, <2>2
<1>5. asked' \in 0..Len(out') /\ \A i \in 1..asked' : Asks(i)'
  BY <1>1, <1>2
<1>6. 1..Len(resp'.answers) = {}
  BY <1>1
<1> QED
  BY <1>1, <1>4, <1>5, <1>6 DEF RespInv

\* handle has gone through the questions when it returns: those of the request.
LEMMA AllSeen ==
  ASSUME TInv, RespInv, CodecInv, Respond, request # Raw
  PROVE  \A n : SeenOf(n) = AsksFor(n)
<1>1. leg = "handle" /\ msg = request /\ stage = "done" /\ msg # Raw /\ ~Asks(asked + 1)
  BY DEF Respond, TInv, LegInv
<1>2. msg \in Message
  BY <1>1 DEF TInv, EncodeTypes
<1>3. out = Sent
  BY <1>1, AgreesNothingElse DEF NothingElse
<1> DEFINE q == Len(msg.quests)
<1>4. /\ q \in Nat /\ Len(out) \in Nat /\ q <= Len(out)
      /\ \A i \in 1..q : out[i].section = 1 /\ out[i].name = msg.quests[i]
      /\ \A i \in 1..Len(out) : i > q => out[i].section # 1
  <2> DEFINE a == Len(msg.answers)  r == Len(msg.records)
  <2>1. q \in Nat /\ a \in Nat /\ r \in Nat /\ Len(Sent) = q + a + r
    BY <1>2, SentItems
  <2>2. \A i \in 1..q : Sent[i].section = 1 /\ Sent[i].name = msg.quests[i]
    <3> SUFFICES ASSUME NEW i \in 1..q
                 PROVE  Sent[i].section = 1 /\ Sent[i].name = msg.quests[i]
      OBVIOUS
    <3>1. Sent[i] = [section |-> 1, name |-> msg.quests[i], size |-> 0]
      BY <1>2, SentItems
    <3> QED
      BY <3>1
  <2>3. ASSUME NEW i \in 1..a PROVE Sent[q + i].section = 2
    <3>1. Sent[q + i] = [section |-> 2, name |-> msg.answers[i].name, size |-> msg.answers[i].size]
      BY <1>2, SentItems
    <3> QED
      BY <3>1
  <2>4. ASSUME NEW i \in 1..r PROVE Sent[q + a + i].section = 3
    <3>1. Sent[q + a + i] = [section |-> 3, name |-> msg.records[i].name, size |-> msg.records[i].size]
      BY <1>2, SentItems
    <3> QED
      BY <3>1
  <2> HIDE DEF q, a, r
  <2>5. ASSUME NEW i \in 1..Len(Sent), i > q PROVE Sent[i].section # 1
    <3>1. CASE i <= q + a
      <4>1. i - q \in 1..a /\ q + (i - q) = i
        BY <2>1, <2>5, <3>1
      <4>2. Sent[q + (i - q)].section = 2
        BY <2>3, <4>1
      <4> QED
        BY <4>1, <4>2
    <3>2. CASE ~(i <= q + a)
      <4>1. i - (q + a) \in 1..r /\ q + a + (i - (q + a)) = i
        BY <2>1, <2>5, <3>2
      <4>2. Sent[q + a + (i - (q + a))].section = 3
        BY <2>4, <4>1
      <4> QED
        BY <4>1, <4>2
    <3> QED
      BY <3>1, <3>2
  <2>6. q <= Len(Sent)
    BY <2>1
  <2> QED
    BY <1>3, <2>1, <2>2, <2>5, <2>6
<1> HIDE DEF q
<1>5. asked = q
  <2>1. asked \in 0..Len(out) /\ \A i \in 1..asked : Asks(i)
    BY <1>1 DEF RespInv
  <2>2. \A i \in 1..asked : i <= q
    <3> SUFFICES ASSUME NEW i \in 1..asked, i > q PROVE FALSE
      BY <1>4, <2>1
    <3>1. i \in 1..Len(out) /\ out[i].section = 1
      BY <2>1 DEF Asks
    <3> QED
      BY <1>4, <3>1
  <2>3. asked <= q
    <3>1. asked = 0 \/ asked \in 1..asked
      BY <1>4, <2>1
    <3> QED
      BY <1>4, <2>2, <3>1
  <2>4. asked + 1 \in 1..q => Asks(asked + 1)
    <3> SUFFICES ASSUME asked + 1 \in 1..q PROVE Asks(asked + 1)
      OBVIOUS
    <3>1. asked + 1 \in 1..Len(out)
      BY <1>4
    <3> QED
      BY <1>4, <3>1 DEF Asks
  <2>5. ~(asked + 1 \in 1..q)
    BY <1>1, <2>4
  <2> QED
    BY <1>4, <2>1, <2>3, <2>5
<1>6. ASSUME NEW n PROVE SeenOf(n) = AsksFor(n)
  <2>1. AsksFor(n) = {i \in 1..q : msg.quests[i] = n}
    BY <1>1 DEF AsksFor, q
  <2>2. SeenOf(n) = {i \in 1..q : out[i].name = n}
    BY <1>5 DEF SeenOf
  <2> QED
    BY <1>4, <2>1, <2>2
<1> QED
  BY <1>6

LEMMA RespondRespInv ==
  ASSUME TInv, RespInv, CodecInv, Respond
  PROVE  RespInv'
<1>1. leg = "handle" /\ leg' = "response" /\ UNCHANGED <<request, cache, resp>>
  BY DEF Respond
<1> SUFFICES ASSUME request # Raw PROVE RespInv'
  BY <1>1 DEF RespInv
<1>2. \A n : SeenOf(n) = AsksFor(n)
  BY AllSeen
<1>3. \A n : AnswersTo(n)' = AnswersTo(n) /\ AsksFor(n)' = AsksFor(n) /\ (Known(n)' <=> Known(n))
  BY <1>1 DEF AnswersTo, AsksFor, Known
<1>4. \A n \in DOMAIN Table : Cardinality(AnswersTo(n)') = Len(Table[n]) * Cardinality(AsksFor(n)')
  BY <1>1, <1>2, <1>3 DEF RespInv
<1>5. ASSUME NEW j \in 1..Len(resp'.answers), NEW x, x = resp'.answers[j].name
      PROVE  Known(x)' /\ AsksFor(x)' # {}
  <2>1. Known(x) /\ SeenOf(x) # {}
    BY <1>1, <1>5 DEF RespInv
  <2> QED
    BY <1>2, <1>3, <2>1
<1> QED
  BY <1>1, <1>4, <1>5 DEF RespInv

\* A step that leaves the response alone, and what it answers.
LEMMA SameRespInv ==
  ASSUME RespInv, UNCHANGED <<request, asked, resp>>,
         leg' = "handle" => leg = "handle" /\ out' = out,
         leg' = "response" => leg = "response",
         DOMAIN cache \subseteq DOMAIN cache'
  PROVE  RespInv'
<1>1. \A n : AnswersTo(n)' = AnswersTo(n) /\ AsksFor(n)' = AsksFor(n) /\ (Known(n) => Known(n)')
  BY DEF AnswersTo, AsksFor, Known
<1>2. ASSUME leg' = "handle"
      PROVE  /\ asked' \in 0..Len(out') /\ \A i \in 1..asked' : Asks(i)'
             /\ \A n \in DOMAIN Table :
                  Cardinality(AnswersTo(n)') = Len(Table[n]) * Cardinality(SeenOf(n)')
             /\ \A j \in 1..Len(resp'.answers) : \A x : x = resp'.answers[j].name =>
                  Known(x)' /\ SeenOf(x)' # {}
  <2>1. leg = "handle" /\ out' = out
    BY <1>2
  <2>2. \A n : SeenOf(n)' = SeenOf(n) /\ (Asks(n)' <=> Asks(n))
    BY <2>1 DEF SeenOf, Asks
  <2> QED
    BY <1>1, <2>1, <2>2 DEF RespInv
<1>3. ASSUME leg' = "response", request' # Raw
      PROVE  /\ \A n \in DOMAIN Table :
                  Cardinality(AnswersTo(n)') = Len(Table[n]) * Cardinality(AsksFor(n)')
             /\ \A j \in 1..Len(resp'.answers) : \A x : x = resp'.answers[j].name =>
                  Known(x)' /\ AsksFor(x)' # {}
  BY <1>1, <1>3 DEF RespInv
<1> QED
  BY <1>2, <1>3 DEF RespInv

LEMMA RespStep ==
  ASSUME TInv, CodecInv, RespInv, [ProxyNext]_<<vars, msg, encoder, proxy>>
  PROVE  RespInv'
<1>1. CASE Coding
  <2>1. leg \in {"request", "response"} /\ UNCHANGED <<leg, request, cache, asked, resp>>
    BY <1>1 DEF Coding, proxy
  <2> QED
    BY <2>1, SameRespInv
<1>2. CASE CacheSet
  <2>1. UNCHANGED <<leg, request, asked, resp, out>> /\ DOMAIN cache = {}
    BY <1>2 DEF CacheSet, vars, result
  <2> QED
    BY <2>1, SameRespInv
<1>3. CASE Crash \/ Lost
  <2>1. UNCHANGED <<request, asked, resp, cache>> /\ leg' \in {"crashed", "lost"}
    BY <1>3 DEF Crash, Lost
  <2> QED
    BY <2>1, SameRespInv
<1>4. CASE HandleStarts
  BY <1>4, HandleStartsRespInv
<1>5. CASE HandleQuest
  BY <1>5, HandleQuestRespInv
<1>6. CASE Respond
  BY <1>6, RespondRespInv
<1>7. CASE UNCHANGED <<vars, msg, encoder, proxy>>
  <2>1. UNCHANGED <<leg, request, cache, asked, resp, out>>
    BY <1>7 DEF vars, result, proxy
  <2> QED
    BY <2>1, SameRespInv
<1> QED
  BY <1>1, <1>2, <1>3, <1>4, <1>5, <1>6, <1>7 DEF ProxyNext, Handle

LEMMA InitRespInv == ProxyInit => RespInv
BY DEF ProxyInit, RespInv

\* The answers among what the requester has decoded are those of the response.
LEMMA DecodedAnswers ==
  ASSUME msg = resp, msg \in Message, out = Sent
  PROVE  /\ \A n : Cardinality(AnswersFor(n)) = Cardinality(AnswersTo(n))
         /\ \A j \in 1..Len(out) : out[j].section = 2 =>
              \E i \in 1..Len(resp.answers) : out[j].name = resp.answers[i].name
<1> DEFINE q == Len(msg.quests)  a == Len(msg.answers)  r == Len(msg.records)
<1>1. q \in Nat /\ a \in Nat /\ r \in Nat /\ Len(out) = q + a + r
  BY SentItems
<1>2. ASSUME NEW i \in 1..q PROVE out[i].section = 1
  <2>1. Sent[i] = [section |-> 1, name |-> msg.quests[i], size |-> 0]
    BY SentItems
  <2> QED
    BY <2>1
<1>3. ASSUME NEW i \in 1..a PROVE out[q + i].section = 2 /\ out[q + i].name = resp.answers[i].name
  <2>1. Sent[q + i] = [section |-> 2, name |-> msg.answers[i].name, size |-> msg.answers[i].size]
    BY SentItems
  <2> QED
    BY <2>1
<1>4. ASSUME NEW i \in 1..r PROVE out[q + a + i].section = 3
  <2>1. Sent[q + a + i] = [section |-> 3, name |-> msg.records[i].name, size |-> msg.records[i].size]
    BY SentItems
  <2> QED
    BY <2>1
<1>5. a = Len(resp.answers)
  OBVIOUS
<1> HIDE DEF q, a, r
<1>6. ASSUME NEW j \in 1..Len(out), out[j].section = 2
      PROVE  \E i \in 1..a : j = q + i
  <2>1. j > q
    BY <1>1, <1>2, <1>6
  <2>2. j <= q + a
    <3> SUFFICES ASSUME j > q + a PROVE FALSE
      BY <1>1
    <3>1. j - (q + a) \in 1..r /\ q + a + (j - (q + a)) = j
      BY <1>1
    <3>2. out[q + a + (j - (q + a))].section = 3
      BY <1>4, <3>1
    <3> QED
      BY <1>6, <3>1, <3>2
  <2>3. j - q \in 1..a /\ j = q + (j - q)
    BY <1>1, <2>1, <2>2
  <2> QED
    BY <2>3
<1>7. ASSUME NEW n PROVE Cardinality(AnswersFor(n)) = Cardinality(AnswersTo(n))
  <2>1. AnswersTo(n) = {i \in 1..a : resp.answers[i].name = n}
    BY <1>5 DEF AnswersTo
  <2>2. \A t : t \in AnswersFor(n) <=> \E i \in AnswersTo(n) : t = q + i
    <3>1. ASSUME NEW t \in AnswersFor(n) PROVE \E i \in AnswersTo(n) : t = q + i
      <4>1. t \in 1..Len(out) /\ out[t].section = 2 /\ out[t].name = n
        BY <3>1 DEF AnswersFor
      <4>2. PICK i \in 1..a : t = q + i
        BY <1>6, <4>1
      <4>3. i \in AnswersTo(n)
        BY <1>3, <2>1, <4>1, <4>2
      <4> QED
        BY <4>2, <4>3
    <3>2. ASSUME NEW i \in AnswersTo(n) PROVE q + i \in AnswersFor(n)
      <4>1. i \in 1..a /\ resp.answers[i].name = n
        BY <2>1, <3>2
      <4>2. q + i \in 1..Len(out)
        BY <1>1, <4>1
      <4>3. out[q + i].section = 2 /\ out[q + i].name = n
        BY <1>3, <4>1
      <4> QED
        BY <4>2, <4>3 DEF AnswersFor
    <3> QED
      BY <3>1, <3>2
  <2>3. AnswersTo(n) \in SUBSET Nat /\ IsFiniteSet(AnswersTo(n))
    <3>1. AnswersTo(n) \in SUBSET (1..a) /\ AnswersTo(n) \in SUBSET Nat
      BY <2>1
    <3>2. IsFiniteSet(1..a)
      BY <1>1, FS_Interval
    <3> QED
      BY <3>1, <3>2, FS_Subset
  <2> DEFINE S == AnswersTo(n)  T == AnswersFor(n)
  <2>4. q \in Nat /\ S \in SUBSET Nat /\ IsFiniteSet(S)
        /\ \A t : t \in T <=> \E i \in S : t = q + i
    BY <1>1, <2>2, <2>3
  <2> HIDE DEF S, T
  <2>5. Cardinality(T) = Cardinality(S)
    BY <2>4, CountShifted
  <2> QED
    BY <2>5 DEF S, T
<1>8. ASSUME NEW j \in 1..Len(out), out[j].section = 2
      PROVE  \E i \in 1..Len(resp.answers) : out[j].name = resp.answers[i].name
  <2>1. PICK i \in 1..a : j = q + i
    BY <1>6, <1>8
  <2> QED
    BY <1>3, <1>5, <2>1
<1> QED
  BY <1>7, <1>8

\* What whoever asked decodes answers what was asked: all the addresses of a name
\* of the table as often as the name was asked for, and no answer for another
\* name or for one that nobody knows.  The offsets of the messages fit a pointer
\* (proxy.go:58-116, cache.go:44-60, encode.go, decode.go).
THEOREM AnswersAreRight == ProxySpec /\ []Short => []RightAnswer
<1>1. ProxyInit => RespInv
  BY InitRespInv
<1>2. TInv /\ CodecInv /\ RespInv /\ [ProxyNext]_<<vars, msg, encoder, proxy>> => RespInv'
  BY RespStep
<1>3. TInv /\ CodecInv /\ RespInv => RightAnswer
  <2> SUFFICES ASSUME TInv, CodecInv, RespInv, leg = "response", stage = "done", request # Raw
               PROVE  /\ \A n \in DOMAIN Table :
                           Cardinality(AnswersFor(n)) = Len(Table[n]) * Cardinality(AsksFor(n))
                      /\ \A j \in 1..Len(out) : out[j].section = 2 =>
                           Known(out[j].name) /\ AsksFor(out[j].name) # {}
    BY DEF RightAnswer
  <2>1. msg = resp /\ resp \in Message /\ msg # Raw
    BY RawAssumption DEF TInv, LegInv, HandleTypes
  <2>2. out = Sent
    BY <2>1, AgreesNothingElse DEF NothingElse
  <2>3. /\ \A n : Cardinality(AnswersFor(n)) = Cardinality(AnswersTo(n))
        /\ \A j \in 1..Len(out) : out[j].section = 2 =>
             \E i \in 1..Len(resp.answers) : out[j].name = resp.answers[i].name
    BY <2>1, <2>2, DecodedAnswers
  <2> QED
    BY <2>3 DEF RespInv
<1> QED
  BY <1>1, <1>2, <1>3, AlwaysTInv, AlwaysCodecInv, PTL DEF ProxySpec
=============================================================================
