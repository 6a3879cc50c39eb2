------------------------------- MODULE Packet -------------------------------
(***************************************************************************)
(* The packet format of package proxy: Encode (encode.go), Decode          *)
(* (decode.go) and the payloads of Hello and Close packets (hello.go,      *)
(* close.go).                                                              *)
(*                                                                         *)
(* Nothing in a packet says where its parts are.  Both sides hash the      *)
(* first eight bytes with a shared salt, take two lengths from the hash,   *)
(* and count.  The model keeps the counting: a buffer is its length, a     *)
(* part is where it starts and how long it is, a read moves the position,  *)
(* and reading past the end of the buffer is a stage of its own.           *)
(*                                                                         *)
(* The buffer comes from the encoder, with the decoder's salt or another,  *)
(* or it is any buffer at all.  Of a buffer that is not the encoder's the  *)
(* contents are chosen when they are read; no byte is read twice.          *)
(***************************************************************************)
EXTENDS Integers

CONSTANTS
  DataSizes,   \* bound: payload lengths of PutData and of pings
  JunkSizes,   \* bound: payload lengths of PutJunk, of 1 to 64
  AlienSizes,  \* bound: lengths of the buffers that are not the encoder's
  Types        \* packet types that are sent or met, each below 16

Ping == 0
Hello == 1
CloseConn == 2
Data == 3
Junk == 4      \* and every type above

ASSUME SizesAssumption ==
  /\ DataSizes \subseteq Nat /\ AlienSizes \subseteq Nat
  /\ JunkSizes \subseteq 1..64
ASSUME TypesAssumption == Types \subseteq 0..15

VARIABLES
  wire,    \* the buffer: who wrote it, its length, what the encoder put in it
  stage,   \* the next read of the decoder, or how it ended
  pos,     \* d.pos
  lim,     \* len(d.buf): the whole buffer, then the payload
  len2,    \* local of decoder.packet
  type,    \* local typ of decoder.packet
  cid,     \* offset of the bytes the decoder took for the connection id
  data,    \* offset and length of what it took for the payload
  sum,     \* offset of what it took for the control sum
  suffix   \* offset of what it took for the fixed junk at the end

locals == <<len2, type, cid, data, sum, suffix>>
vars == <<wire, stage, pos, lim, locals>>

Ended == {"done", "size", "style", "sum error", "network", "address", "overrun", "stub"}
Stages == Ended \cup {"open", "prefix", "reserved", "cid", "data", "sum",
                      "suffix", "check", "close", "payload", "hello", "port"}
-----------------------------------------------------------------------------
(* The encoder                                                             *)

Lens == 1..8
Part == [at : Int, size : Int]
Nothing == [at |-> 0, size |-> 0]

\* Payload lengths of PutHelloTCP, PutClose, PutData and PutJunk.
Payloads(t) ==
  CASE t = Hello -> {12}
    [] t = CloseConn -> {8}
    [] t = Junk -> JunkSizes
    [] OTHER -> DataSizes

\* The type PutJunk gives a packet is any from Junk to 15; the others are kept.
WireType(t) == IF t < Junk THEN t ELSE Junk

\* Offsets of the parts of a packet with n bytes of payload, in the order
\* encoder.packet appends them.
CidAt(l1) == 2 + (8 + l1 + 3) + 1
DataAt(l1) == CidAt(l1) + 16
SumAt(l1, n) == DataAt(l1) + n
\* Mutant: the fixed junk goes before the varying junk, as at the start.
SuffixFixedFirst(l1, n, l2) == SumAt(l1, n) + 4
SuffixAt(l1, n, l2) == SumAt(l1, n) + 4 + l2
Total(l1, n, l2) == SuffixAt(l1, n, l2) + 8 + 2

Encode(t, n, l1, l2, style, salted) ==
  [by |-> "encoder", len |-> Total(l1, n, l2), type |-> t, size |-> n,
   l1 |-> l1, l2 |-> l2, style |-> style, salted |-> salted]

Alien(n) ==
  [by |-> "other", len |-> n, type |-> Ping, size |-> 0,
   l1 |-> 1, l2 |-> 1, style |-> "brace", salted |-> FALSE]

Styles == {"brace", "bracket"}

Init ==
  /\ \/ \E t \in Types : \E n \in Payloads(WireType(t)) :
          \E l1 \in Lens, l2 \in Lens, s \in Styles, salted \in BOOLEAN :
            wire = Encode(t, n, l1, l2, s, salted)
     \/ \E n \in AlienSizes : wire = Alien(n)
  /\ stage = "open" /\ pos = 0 /\ lim = wire.len
  /\ len2 = 0 /\ type = Ping /\ cid = 0 /\ data = Nothing /\ sum = 0 /\ suffix = 0

\* What the bytes at the position can hold.  Without the encoder's salt the
\* decoder counts off other lengths and looks for the type elsewhere.
Ours == wire.by = "encoder"
Opens == IF Ours THEN {wire.style} ELSE Styles \cup {"other"}
Quotes == IF Ours THEN {TRUE} ELSE BOOLEAN
TypeBits == IF Ours /\ wire.salted THEN {wire.type} ELSE Types
Lengths1 == IF Ours /\ wire.salted THEN {wire.l1} ELSE Lens
Lengths2 == IF Ours /\ wire.salted THEN {wire.l2} ELSE Lens

\* The hash covers the salt, a byte of the prefix, the connection id, the
\* first four bytes of the payload and a byte of the suffix.  It is taken to
\* differ when the bytes it is taken over differ.
SumMatches ==
  IF Ours
  THEN {/\ wire.salted
        /\ sum = SumAt(wire.l1, wire.size)
        /\ cid = CidAt(wire.l1)
        /\ data.at = DataAt(wire.l1)
        /\ data.size = wire.size
        /\ suffix = SuffixAt(wire.l1, wire.size, wire.l2)}
  ELSE BOOLEAN
-----------------------------------------------------------------------------
(* The decoder                                                             *)

\* Mutant: checks only the part before the payload; dlen is checked anyway.
MinUpToPayload == 2 + (8 + 1) + (3 + 1)

MinPacketLength == 2 + (8 + 1) + (3 + 1) + 16 + 0 + 4 + (8 + 1) + 2
MinHelloLength == 1 + 1 + 2 + 8

Fail(how) ==
  /\ stage' = how
  /\ UNCHANGED <<wire, pos, lim, locals>>

\* The next k bytes are in the buffer; a slice expression or an index that
\* leaves it is a run-time error or reads bytes of someone else.
Inside(k) == 0 <= k /\ pos + k <= lim

\* Read k bytes and go on at stage s.
Read(k, s) ==
  IF Inside(k) THEN stage' = s /\ pos' = pos + k
  ELSE stage' = "overrun" /\ pos' = pos

Open ==
  /\ stage = "open"
  /\ \/ /\ lim < MinPacketLength
        /\ Fail("size")
     \/ /\ lim >= MinPacketLength
        /\ \E s \in Opens, q \in Quotes :
             IF s = "other" \/ ~q THEN Fail("style")
             ELSE Read(2, "prefix") /\ UNCHANGED <<wire, lim, locals>>

\* Hash the prefix; the lengths come from the hash.  The skip checks nothing.
Prefix ==
  /\ stage = "prefix"
  /\ \E l1 \in Lengths1, l2 \in Lengths2 :
       /\ len2' = l2
       /\ IF Inside(8) THEN stage' = "reserved" /\ pos' = pos + 8 + l1 + 3
          ELSE stage' = "overrun" /\ pos' = pos
  /\ UNCHANGED <<wire, lim, type, cid, data, sum, suffix>>

TypeByte ==
  /\ stage = "reserved"
  /\ \E t \in TypeBits : type' = WireType(t)
  /\ Read(1, "cid")
  /\ UNCHANGED <<wire, lim, len2, cid, data, sum, suffix>>

Cid ==
  /\ stage = "cid"
  /\ cid' = pos
  /\ Read(16, "data")
  /\ UNCHANGED <<wire, lim, len2, type, data, sum, suffix>>

\* Mutant: takes the varying junk at the end for one byte more than it is.
DlenShort == (lim - pos) - 4 - (len2 + 1) - 8 - 2

\* What remains after the end of the packet is counted off is the payload.
Dlen == (lim - pos) - 4 - len2 - 8 - 2

\* Mutant: subtracts without asking whether enough is left.
PayloadUnchecked ==
  /\ stage = "data"
  /\ data' = [at |-> pos, size |-> Dlen]
  /\ Read(Dlen, "sum")
  /\ UNCHANGED <<wire, lim, len2, type, cid, sum, suffix>>

Payload ==
  /\ stage = "data"
  /\ \/ Dlen < 0 /\ Fail("size")
     \/ /\ Dlen >= 0
        /\ data' = [at |-> pos, size |-> Dlen]
        /\ Read(Dlen, "sum")
        /\ UNCHANGED <<wire, lim, len2, type, cid, sum, suffix>>

\* The control sum, and the skip over the junk behind it.
Sum ==
  /\ stage = "sum"
  /\ sum' = pos
  /\ IF Inside(4) THEN stage' = "suffix" /\ pos' = pos + 4 + len2
     ELSE stage' = "overrun" /\ pos' = pos
  /\ UNCHANGED <<wire, lim, len2, type, cid, data, suffix>>

Suffix ==
  /\ stage = "suffix"
  /\ suffix' = pos
  /\ Read(8, "check")
  /\ UNCHANGED <<wire, lim, len2, type, cid, data, sum>>

Check ==
  /\ stage = "check"
  /\ \E match \in SumMatches :
       IF match THEN stage' = "close" /\ UNCHANGED <<wire, pos, lim, locals>>
       ELSE Fail("sum error")

\* The closing quote and bracket.  The style has to be the opening one; of a
\* buffer that is not the encoder's only the outcome is kept.
CloseStyle ==
  /\ stage = "close"
  /\ \E same \in Quotes :
       IF same THEN Read(2, "payload") /\ UNCHANGED <<wire, lim, locals>>
       ELSE Fail("style")

\* The receiver decodes the payload of a Hello or a Close packet.
Deliver ==
  /\ stage = "payload"
  /\ pos' = 0 /\ lim' = data.size
  /\ stage' = IF type = Hello THEN "hello"
              ELSE IF type = CloseConn /\ data.size # 8 THEN "size"
              ELSE "done"
  /\ UNCHANGED <<wire, locals>>

\* DecodeHello up to the port: network and address type, two bits each.  The
\* encoder of PutHelloTCP writes network TCP and address type IPv4.
HelloHead ==
  /\ stage = "hello"
  /\ \/ lim < MinHelloLength /\ Fail("size")
     \/ /\ lim >= MinHelloLength
        /\ \E network \in (IF Ours THEN {0} ELSE 0..3), addr \in (IF Ours THEN {0} ELSE 0..3) :
             CASE network > 1 -> Fail("network")
               [] network <= 1 /\ addr > 1 -> Fail("address")
               [] network <= 1 /\ addr = 1 -> Fail("stub")
               [] OTHER -> Read(4, "port") /\ UNCHANGED <<wire, lim, locals>>

HelloAddress ==
  /\ stage = "port"
  /\ Read(8, "done")
  /\ UNCHANGED <<wire, lim, locals>>

Next ==
  \/ Open \/ Prefix \/ TypeByte \/ Cid \/ Payload \/ Sum \/ Suffix \/ Check
  \/ CloseStyle \/ Deliver \/ HelloHead \/ HelloAddress

Spec == Init /\ [][Next]_vars
-----------------------------------------------------------------------------
(* Properties                                                              *)

WireOK ==
  /\ wire \in [by : {"encoder", "other"}, len : Nat, type : 0..15, size : Nat, l1 : Lens,
               l2 : Lens, style : Styles, salted : BOOLEAN]
  /\ Ours => wire.len = Total(wire.l1, wire.size, wire.l2)

\* Every variable has its type; no position or length goes below zero.
TypeOK ==
  /\ WireOK
  /\ stage \in Stages
  /\ pos \in Nat /\ lim \in Nat
  /\ len2 \in 0..8 /\ type \in 0..15
  /\ cid \in Nat /\ sum \in Nat /\ suffix \in Nat
  /\ data \in [at : Nat, size : Nat]

\* No buffer makes the decoder of packets or of hellos read outside of it: the
\* one length check at the top of decoder.packet and the check of dlen cover
\* every read for any two lengths the hash gives, "Caller is responsible for
\* checking buffer length boundaries" (decode.go:131-133).
NoOverrun == stage # "overrun"

\* A packet whose control sum and style are accepted is all of the buffer: no
\* byte follows the closing style, whatever the lengths (decode.go:78-82).
WholeBuffer == stage = "payload" => pos = lim

\* What the encoder wrote is decoded with the same salt to the same packet: the
\* same type, connection id and payload, and the payloads of Hello and Close
\* are accepted (encode.go:21-75 against decode.go:39-129).
RoundTrip ==
  (Ours /\ wire.salted /\ stage \in Ended) =>
    /\ stage = "done"
    /\ type = WireType(wire.type)
    /\ cid = CidAt(wire.l1)
    /\ data = [at |-> DataAt(wire.l1), size |-> wire.size]
=============================================================================
