--------------------------- MODULE Packet_proofs ----------------------------
(* Proofs about Packet, for payloads and buffers of any length.            *)
EXTENDS Packet, TLAPS

\* Where the decoder stands at each stage: how far it is from the start while
\* it counts from there, and how much is left once dlen has been computed.
Standing ==
  /\ stage = "open" => pos = 0 /\ lim = wire.len
  /\ stage = "prefix" => pos = 2 /\ lim >= MinPacketLength
  /\ stage = "reserved" => pos \in 14..21 /\ lim >= MinPacketLength
  /\ stage = "cid" => pos \in 15..22 /\ lim >= MinPacketLength
  /\ stage = "data" => pos \in 31..38 /\ lim >= MinPacketLength
  /\ stage = "sum" => lim - pos = 4 + len2 + 8 + 2
  /\ stage = "suffix" => lim - pos = 8 + 2
  /\ stage \in {"check", "close"} => lim - pos = 2
  /\ stage = "payload" => pos = lim
  /\ stage = "hello" => pos = 0 /\ lim = data.size
  /\ stage = "port" => pos = 4 /\ lim >= MinHelloLength
  /\ stage \in {"reserved", "cid", "data", "sum"} => len2 \in Lens

Mine == Ours /\ wire.salted

\* The encoder makes payloads of these lengths only.
Packed ==
  /\ WireType(wire.type) = Hello => wire.size = 12
  /\ WireType(wire.type) = CloseConn => wire.size = 8

\* A buffer of the encoder's, decoded with its salt: each offset the decoder
\* counts is the encoder's.
Agreement ==
  Mine =>
    /\ Packed
    /\ stage \in {"open", "prefix", "reserved", "cid", "data", "sum", "suffix",
                  "check", "close", "payload"} => lim = wire.len
    /\ stage \in {"reserved", "cid", "data", "sum"} => len2 = wire.l2
    /\ stage = "reserved" => pos = CidAt(wire.l1) - 1
    /\ stage = "cid" => pos = CidAt(wire.l1)
    /\ stage = "data" => pos = DataAt(wire.l1)
    /\ stage = "sum" => pos = SumAt(wire.l1, wire.size)
    /\ stage = "suffix" => pos = SuffixAt(wire.l1, wire.size, wire.l2)
    /\ stage \notin {"open", "prefix", "reserved"} => type = WireType(wire.type)
    /\ stage \notin {"open", "prefix", "reserved", "cid"} => cid = CidAt(wire.l1)
    /\ stage \notin {"open", "prefix", "reserved", "cid", "data"} =>
         data = [at |-> DataAt(wire.l1), size |-> wire.size]
    /\ stage \in {"suffix", "check"} => sum = SumAt(wire.l1, wire.size)
    /\ stage = "check" => suffix = SuffixAt(wire.l1, wire.size, wire.l2)
    /\ stage = "hello" => type = Hello
    /\ stage \in Ended => stage = "done"

IInv == TypeOK /\ NoOverrun /\ Standing /\ Agreement

\* A packet of the encoder's is never too short, whatever the junk lengths.
LEMMA LongEnough ==
  ASSUME NEW l1 \in Lens, NEW l2 \in Lens, NEW n \in Nat
  PROVE  /\ Total(l1, n, l2) \in Nat
         /\ Total(l1, n, l2) >= MinPacketLength
         /\ Total(l1, n, l2) - DataAt(l1) - 4 - l2 - 8 - 2 = n
BY DEF Total, SuffixAt, SumAt, DataAt, CidAt, Lens, MinPacketLength

LEMMA InitIInv == Init => IInv
<1> SUFFICES ASSUME Init PROVE IInv
  OBVIOUS
<1>1. /\ WireOK
      /\ Ours => Packed
  <2>1. CASE \E n \in AlienSizes : wire = Alien(n)
    BY <2>1, SizesAssumption DEF WireOK, Alien, Lens, Styles, Ping, Ours
  <2>2. CASE \E t \in Types : \E n \in Payloads(WireType(t)) :
               \E l1 \in Lens, l2 \in Lens, s \in Styles, salted \in BOOLEAN :
                 wire = Encode(t, n, l1, l2, s, salted)
    <3>0. PICK t \in Types : \E n \in Payloads(WireType(t)) :
            \E l1 \in Lens, l2 \in Lens, s \in Styles, salted \in BOOLEAN :
              wire = Encode(t, n, l1, l2, s, salted)
      BY <2>2
    <3>1. PICK n \in Payloads(WireType(t)), l1 \in Lens, l2 \in Lens,
               s \in Styles, salted \in BOOLEAN : wire = Encode(t, n, l1, l2, s, salted)
      BY <3>0
    <3>2. t \in 0..15 /\ n \in Nat
      BY TypesAssumption, SizesAssumption
         DEF Payloads, WireType, Ping, Hello, CloseConn, Junk
    <3>3. Total(l1, n, l2) \in Nat
      BY <3>2, LongEnough
    <3>4. WireOK
      BY <3>1, <3>2, <3>3 DEF WireOK, Encode, Ours
    <3>5. Packed
      BY <3>1, <3>2 DEF Packed, Encode, Payloads, WireType, Hello, CloseConn, Junk
    <3> QED
      BY <3>4, <3>5
  <2> QED
    BY <2>1, <2>2 DEF Init
<1>2. stage = "open" /\ pos = 0 /\ lim = wire.len /\ lim \in Nat
  BY <1>1 DEF Init, WireOK
<1>3. TypeOK
  BY <1>1, <1>2 DEF Init, TypeOK, Stages, Nothing, Ping
<1>4. NoOverrun /\ Standing /\ Agreement
  BY <1>1, <1>2 DEF NoOverrun, Standing, Agreement, Mine, Ended
<1> QED
  BY <1>3, <1>4 DEF IInv

\* A failed check leaves everything but the stage, and does not befall a packet
\* of the encoder's.
LEMMA FailIInv ==
  ASSUME IInv, NEW how \in Ended, Fail(how), how # "overrun", ~Mine
  PROVE  IInv'
<1> USE DEF Fail, IInv, locals
<1>1. TypeOK'
  BY DEF TypeOK, WireOK, Ours, Stages
<1>2. NoOverrun' /\ Standing'
  BY DEF NoOverrun, Standing, Ended
<1>3. Agreement'
  BY DEF Agreement, Mine, Ours
<1> QED
  BY <1>1, <1>2, <1>3

LEMMA StepIInv == IInv /\ [Next]_vars => IInv'
<1> SUFFICES ASSUME IInv, [Next]_vars PROVE IInv'
  OBVIOUS
<1> USE DEF Lens, MinPacketLength, MinHelloLength
<1>0. TypeOK /\ NoOverrun /\ Standing /\ Agreement
  BY DEF IInv
<1>w. wire.l1 \in 1..8 /\ wire.l2 \in 1..8 /\ wire.size \in Nat /\ wire.len \in Nat
  BY <1>0 DEF TypeOK, WireOK
<1>m. Mine => /\ wire.len >= MinPacketLength
              /\ wire.len - DataAt(wire.l1) - 4 - wire.l2 - 8 - 2 = wire.size
  <2>1. Mine => wire.len = Total(wire.l1, wire.size, wire.l2)
    BY <1>0 DEF Mine, TypeOK, WireOK
  <2>2. wire.l1 \in Lens /\ wire.l2 \in Lens /\ wire.size \in Nat
    BY <1>w
  <2>3. /\ Total(wire.l1, wire.size, wire.l2) >= MinPacketLength
        /\ Total(wire.l1, wire.size, wire.l2) - DataAt(wire.l1) - 4 - wire.l2 - 8 - 2 = wire.size
    BY <2>2, LongEnough
  <2> QED
    BY <2>1, <2>3
<1>1. CASE UNCHANGED vars
  BY <1>1, <1>0 DEF vars, locals, IInv, TypeOK, WireOK, Ours, NoOverrun, Standing, Agreement,
                    Mine, Packed
<1>2. CASE Open
  <2>1. CASE lim < MinPacketLength /\ Fail("size")
    <3>1. ~Mine
      BY <2>1, <1>2, <1>0, <1>m, <1>w DEF Open, Standing
    <3> QED
      BY <2>1, <3>1, FailIInv DEF Ended
  <2>2. ASSUME lim >= MinPacketLength, NEW s \in Opens, NEW q \in Quotes,
               s = "other" \/ ~q, Fail("style")
        PROVE  IInv'
    <3>1. ~Mine
      BY <2>2, <1>0 DEF Mine, Opens, Quotes, TypeOK, WireOK, Styles
    <3> QED
      BY <2>2, <3>1, FailIInv DEF Ended
  <2>3. CASE lim >= MinPacketLength /\ Read(2, "prefix") /\ UNCHANGED <<wire, lim, locals>>
    <3> USE <2>3, <1>2, <1>0 DEF Open, locals, Read, Inside
    <3>1. stage = "open" /\ pos = 0 /\ stage' = "prefix" /\ pos' = 2
      BY DEF TypeOK, Standing
    <3>2. TypeOK'
      BY <3>1 DEF TypeOK, WireOK, Ours, Stages
    <3>3. NoOverrun' /\ Standing' /\ Agreement'
      BY <3>1 DEF NoOverrun, Standing, Agreement, Mine, Ours, Packed, Ended
    <3> QED
      BY <3>2, <3>3 DEF IInv
  <2> QED
    BY <1>2, <2>1, <2>2, <2>3 DEF Open
<1>3. CASE Prefix
  <2> USE <1>3, <1>0, <1>w DEF Prefix, Inside
  <2>1. PICK l1 \in Lengths1, l2 \in Lengths2 :
          /\ len2' = l2
          /\ IF Inside(8) THEN stage' = "reserved" /\ pos' = pos + 8 + l1 + 3
             ELSE stage' = "overrun" /\ pos' = pos
    OBVIOUS
  <2>2. l1 \in 1..8 /\ l2 \in 1..8 /\ (Mine => l1 = wire.l1 /\ l2 = wire.l2)
    BY DEF Lengths1, Lengths2, Mine
  <2>3. stage = "prefix" /\ stage' = "reserved" /\ pos' = 2 + 8 + l1 + 3 /\ len2' = l2
    BY <2>1, <2>2 DEF TypeOK, Standing
  <2>4. TypeOK'
    BY <2>2, <2>3 DEF TypeOK, WireOK, Ours, Stages
  <2>5. NoOverrun' /\ Standing'
    BY <2>2, <2>3 DEF NoOverrun, Standing, TypeOK
  <2>6. Agreement'
    BY <2>2, <2>3 DEF Agreement, Mine, Ours, Packed, Ended, CidAt
  <2> QED
    BY <2>4, <2>5, <2>6 DEF IInv
<1>4. CASE TypeByte
  <2> USE <1>4, <1>0, <1>w DEF TypeByte, Read, Inside
  <2>1. PICK t \in TypeBits : type' = WireType(t)
    OBVIOUS
  <2>2. stage = "reserved" /\ stage' = "cid" /\ pos' = pos + 1 /\ type' \in 0..15
    BY <2>1, TypesAssumption DEF TypeOK, Standing, TypeBits, WireType, WireOK, Junk
  <2>3. Mine => type' = WireType(wire.type)
    BY <2>1 DEF Mine, TypeBits
  <2>4. TypeOK'
    BY <2>2 DEF TypeOK, WireOK, Ours, Stages
  <2>5. NoOverrun' /\ Standing'
    BY <2>2 DEF NoOverrun, Standing, TypeOK
  <2>6. Agreement'
    BY <2>2, <2>3 DEF Agreement, Mine, Ours, Packed, Ended, CidAt, TypeOK, WireType
  <2> QED
    BY <2>4, <2>5, <2>6 DEF IInv
<1>5. CASE Cid
  <2> USE <1>5, <1>0, <1>w DEF Cid, Read, Inside
  <2>1. stage = "cid" /\ stage' = "data" /\ pos' = pos + 16 /\ cid' = pos
    BY DEF TypeOK, Standing
  <2>2. TypeOK'
    BY <2>1 DEF TypeOK, WireOK, Ours, Stages
  <2>3. NoOverrun' /\ Standing'
    BY <2>1 DEF NoOverrun, Standing, TypeOK
  <2>4. Agreement'
    BY <2>1 DEF Agreement, Mine, Ours, Packed, Ended, CidAt, DataAt, TypeOK, WireType
  <2> QED
    BY <2>2, <2>3, <2>4 DEF IInv
<1>6. CASE Payload
  <2>1. stage = "data" /\ pos \in 31..38 /\ lim \in Nat /\ len2 \in 1..8
    BY <1>6, <1>0 DEF Payload, Standing, TypeOK
  <2>2. Mine => Dlen = wire.size
    BY <2>1, <1>0, <1>m, <1>6 DEF Agreement, Dlen, Payload
  <2>3. CASE Dlen < 0 /\ Fail("size")
    <3>1. ~Mine
      BY <2>2, <2>3, <1>w
    <3> QED
      BY <2>3, <3>1, FailIInv DEF Ended
  <2>4. CASE /\ Dlen >= 0
             /\ data' = [at |-> pos, size |-> Dlen]
             /\ Read(Dlen, "sum")
             /\ UNCHANGED <<wire, lim, len2, type, cid, sum, suffix>>
    <3> USE <2>4, <1>0, <1>w
    <3>1. /\ stage' = "sum" /\ pos' = pos + Dlen
          /\ lim - pos' = 4 + len2 + 8 + 2
          /\ Dlen \in Nat /\ pos' \in Nat
      BY <2>1 DEF Read, Inside, Dlen
    <3>2. TypeOK'
      BY <2>1, <3>1 DEF TypeOK, WireOK, Ours, Stages
    <3>3. NoOverrun' /\ Standing'
      BY <2>1, <3>1 DEF NoOverrun, Standing
    <3>4. Mine => pos' = SumAt(wire.l1, wire.size)
      BY <2>1, <2>2, <3>1 DEF Agreement, SumAt
    <3>5. Agreement'
      BY <2>1, <2>2, <3>1, <3>4 DEF Agreement, Mine, Ours, Packed, Ended, TypeOK, WireType
    <3> QED
      BY <3>2, <3>3, <3>5 DEF IInv
  <2> QED
    BY <1>6, <2>3, <2>4 DEF Payload
<1>7. CASE Sum
  <2> USE <1>7, <1>0, <1>w DEF Sum, Inside
  <2>1. /\ stage = "sum" /\ stage' = "suffix" /\ pos' = pos + 4 + len2 /\ sum' = pos
        /\ len2 \in 1..8 /\ pos \in Nat /\ lim - pos' = 8 + 2
    BY DEF TypeOK, Standing
  <2>2. TypeOK'
    BY <2>1 DEF TypeOK, WireOK, Ours, Stages
  <2>3. NoOverrun' /\ Standing'
    BY <2>1 DEF NoOverrun, Standing
  <2>4. Agreement'
    BY <2>1 DEF Agreement, Mine, Ours, Packed, Ended, SuffixAt, SumAt, DataAt, CidAt, TypeOK, WireType
  <2> QED
    BY <2>2, <2>3, <2>4 DEF IInv
<1>8. CASE Suffix
  <2> USE <1>8, <1>0, <1>w DEF Suffix, Read, Inside
  <2>1. /\ stage = "suffix" /\ stage' = "check" /\ pos' = pos + 8 /\ suffix' = pos
        /\ pos \in Nat /\ lim - pos' = 2
    BY DEF TypeOK, Standing
  <2>2. TypeOK'
    BY <2>1 DEF TypeOK, WireOK, Ours, Stages
  <2>3. NoOverrun' /\ Standing'
    BY <2>1 DEF NoOverrun, Standing
  <2>4. Agreement'
    BY <2>1 DEF Agreement, Mine, Ours, Packed, Ended, TypeOK, WireType
  <2> QED
    BY <2>2, <2>3, <2>4 DEF IInv
<1>9. CASE Check
  <2>1. ASSUME NEW match \in SumMatches, ~match, Fail("sum error") PROVE IInv'
    <3>1. ~Mine
      <4> SUFFICES ASSUME Mine PROVE FALSE
        OBVIOUS
      <4>1. /\ Ours /\ wire.salted
            /\ sum = SumAt(wire.l1, wire.size)
            /\ cid = CidAt(wire.l1)
            /\ data.at = DataAt(wire.l1)
            /\ data.size = wire.size
            /\ suffix = SuffixAt(wire.l1, wire.size, wire.l2)
        <5>1. stage = "check"
          BY <1>9 DEF Check
        <5>2. data = [at |-> DataAt(wire.l1), size |-> wire.size]
          BY <5>1, <1>0 DEF Agreement
        <5>3. Ours /\ wire.salted /\ cid = CidAt(wire.l1)
          BY <5>1, <1>0 DEF Agreement, Mine
        <5>4. sum = SumAt(wire.l1, wire.size)
          BY <5>1, <1>0 DEF Agreement
        <5>5. suffix = SuffixAt(wire.l1, wire.size, wire.l2)
          BY <5>1, <1>0 DEF Agreement
        <5> QED
          BY <5>2, <5>3, <5>4, <5>5
      <4> QED
        BY <4>1, <2>1 DEF SumMatches
    <3> QED
      BY <2>1, <3>1, FailIInv DEF Ended
  <2>2. CASE stage' = "close" /\ UNCHANGED <<wire, pos, lim, locals>>
    <3> USE <2>2, <1>9, <1>0 DEF Check, locals
    <3>1. TypeOK'
      BY DEF TypeOK, WireOK, Ours, Stages
    <3>2. NoOverrun' /\ Standing'
      BY DEF NoOverrun, Standing
    <3>3. Agreement'
      BY DEF Agreement, Mine, Ours, Packed, Ended, WireType
    <3> QED
      BY <3>1, <3>2, <3>3 DEF IInv
  <2> QED
    BY <1>9, <2>1, <2>2 DEF Check
<1>10. CASE CloseStyle
  <2>1. ASSUME NEW same \in Quotes, ~same, Fail("style") PROVE IInv'
    <3>1. ~Mine
      BY <2>1 DEF Quotes, Mine
    <3> QED
      BY <2>1, <3>1, FailIInv DEF Ended
  <2>2. CASE Read(2, "payload") /\ UNCHANGED <<wire, lim, locals>>
    <3> USE <2>2, <1>10, <1>0 DEF CloseStyle, locals, Read, Inside
    <3>1. stage = "close" /\ stage' = "payload" /\ pos' = pos + 2 /\ pos' = lim
      BY DEF TypeOK, Standing
    <3>2. TypeOK'
      BY <3>1 DEF TypeOK, WireOK, Ours, Stages
    <3>3. NoOverrun' /\ Standing'
      BY <3>1 DEF NoOverrun, Standing
    <3>4. Agreement'
      BY <3>1 DEF Agreement, Mine, Ours, Packed, Ended, WireType
    <3> QED
      BY <3>2, <3>3, <3>4 DEF IInv
  <2> QED
    BY <1>10, <2>1, <2>2 DEF CloseStyle
<1>11. CASE Deliver
  <2> USE <1>11, <1>0 DEF Deliver, locals
  <2>1. TypeOK'
    BY DEF TypeOK, WireOK, Ours, Stages, Ended
  <2>2. NoOverrun' /\ Standing'
    BY DEF NoOverrun, Standing, TypeOK
  <2>3. Agreement'
    BY DEF Agreement, Mine, Ours, Packed, Ended, WireType, CloseConn, Hello
  <2> QED
    BY <2>1, <2>2, <2>3 DEF IInv
<1>12. CASE HelloHead
  <2>1. Mine => lim = 12
    BY <1>12, <1>0 DEF HelloHead, Standing, Agreement, Packed
  <2>2. CASE lim < MinHelloLength /\ Fail("size")
    <3>1. ~Mine
      BY <2>1, <2>2
    <3> QED
      BY <2>2, <3>1, FailIInv DEF Ended
  <2>3. ASSUME NEW how \in {"network", "address", "stub"}, Fail(how), ~Ours PROVE IInv'
    BY <2>3, FailIInv DEF Ended, Mine
  <2>4. CASE lim >= MinHelloLength /\ Read(4, "port") /\ UNCHANGED <<wire, lim, locals>>
    <3> USE <2>4, <1>12, <1>0 DEF HelloHead, locals, Read, Inside
    <3>1. stage = "hello" /\ stage' = "port" /\ pos' = 4
      BY DEF TypeOK, Standing
    <3>2. TypeOK'
      BY <3>1 DEF TypeOK, WireOK, Ours, Stages
    <3>3. NoOverrun' /\ Standing'
      BY <3>1 DEF NoOverrun, Standing
    <3>4. Agreement'
      BY <3>1 DEF Agreement, Mine, Ours, Packed, Ended, WireType
    <3> QED
      BY <3>2, <3>3, <3>4 DEF IInv
  <2> QED
    BY <1>12, <2>2, <2>3, <2>4 DEF HelloHead
<1>13. CASE HelloAddress
  <2> USE <1>13, <1>0 DEF HelloAddress, locals, Read, Inside
  <2>1. stage = "port" /\ stage' = "done" /\ pos' = 12
    BY DEF TypeOK, Standing
  <2>2. TypeOK'
    BY <2>1 DEF TypeOK, WireOK, Ours, Stages, Ended
  <2>3. NoOverrun' /\ Standing'
    BY <2>1 DEF NoOverrun, Standing
  <2>4. Agreement'
    BY <2>1 DEF Agreement, Mine, Ours, Packed, Ended, WireType
  <2> QED
    BY <2>2, <2>3, <2>4 DEF IInv
<1> QED
  BY <1>1, <1>2, <1>3, <1>4, <1>5, <1>6, <1>7, <1>8, <1>9, <1>10, <1>11, <1>12, <1>13 DEF Next

\* The invariant is inductive: the offsets of encoder and decoder agree stage
\* by stage (encode.go:21-75, decode.go:39-129).
THEOREM Inductive == Spec => []IInv
BY InitIInv, StepIInv, PTL DEF Spec

\* No position or length goes below zero, for a buffer of any length.
THEOREM TypeCorrect == Spec => []TypeOK
<1>1. IInv => TypeOK
  BY DEF IInv
<1> QED
  BY <1>1, Inductive, PTL

\* No buffer of any length, read with any salt, makes the decoder leave it
\* (decode.go:42-107, hello.go:107-133).
THEOREM StaysInside == Spec => []NoOverrun
<1>1. IInv => NoOverrun
  BY DEF IInv
<1> QED
  BY <1>1, Inductive, PTL

\* An accepted packet is the whole buffer (decode.go:78-129).
THEOREM NothingTrails == Spec => []WholeBuffer
<1>1. IInv => WholeBuffer
  BY DEF IInv, Standing, WholeBuffer
<1> QED
  BY <1>1, Inductive, PTL

\* A payload of any length, with any two junk lengths, comes back as it was
\* encoded (encode.go:21-75, decode.go:39-129).
THEOREM EncodeDecode == Spec => []RoundTrip
<1>1. IInv => RoundTrip
  BY DEF IInv, Agreement, RoundTrip, Mine, Ended
<1> QED
  BY <1>1, Inductive, PTL
=============================================================================
