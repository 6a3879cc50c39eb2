----------------------------- MODULE DnsMessage -----------------------------
(***************************************************************************)
(* Encode of internal/dns/encode.go, put in front of Decode (DnsDecode): a *)
(* message is encoded into an empty buffer, as Proxy.Handle does, and what *)
(* comes out is decoded.  Every step of the encoder is one call of header, *)
(* of name, or of what quest and record put behind a name.                 *)
(*                                                                         *)
(* A name is a sequence of labels, as strings.Cut splits it, and a label a *)
(* sequence of bytes; the empty sequence is the root.  Types, classes, TTLs,*)
(* ids and the bytes of data are copied one way and the other and are zero *)
(* here.                                                                   *)
(***************************************************************************)
EXTENDS DnsDecode, SequencesExt

CONSTANT Messages   \* [opcode, failed, quests, answers, records]

Records == [name : Seq(Labels), size : Nat]
Message == [opcode : 0..15, failed : BOOLEAN, quests : Seq(Seq(Labels)),
            answers : Seq(Records), records : Seq(Records)]

\* The names are such as Decode returns: encoder.label checks no length, and
\* writes an empty label as a terminator and one of 192 bytes as a pointer.
ASSUME MessagesAssumption == Messages \subseteq Message

VARIABLES
  msg,      \* the message that is encoded
  call,     \* the encoder's next call: "header", "item", "name", "fixed", or "sent"
  offsets,  \* g.m: where each suffix was stored
  item,     \* questions, answers and records whose names have been begun
  rest,     \* labels of the name that are still to be written
  trail     \* history: where the encoder began which rest of an item's name

encoder == <<call, offsets, item, rest, trail>>
decoder == <<stage, pos, mark, left, section, result>>

\* The items of a message, in the order in which Encode writes them and Decode is
\* to return them.
Sent ==
  [i \in 1..Len(msg.quests) |-> [section |-> 1, name |-> msg.quests[i], size |-> 0]]
  \o [i \in 1..Len(msg.answers) |->
        [section |-> 2, name |-> msg.answers[i].name, size |-> msg.answers[i].size]]
  \o [i \in 1..Len(msg.records) |->
        [section |-> 3, name |-> msg.records[i].name, size |-> msg.records[i].size]]

Zeros(n) == [i \in 1..n |-> 0]
Word(v) == <<(v \div 256) % 256, v % 256>>

Put(bytes) == buf' = buf \o bytes

\* The third byte: the response bit, the opcode in the lowest bits, and the bit
\* of recursion desired, which is always set.
HeaderByte(resp, op) == (IF resp THEN 128 ELSE 0) + (op - (op % 2)) + 1

PutHeader ==
  /\ call = "header" /\ call' = "item"
  /\ Put(Zeros(2)
         \o <<HeaderByte(msg.answers # <<>> \/ msg.failed, msg.opcode), IF msg.failed THEN 2 ELSE 0>>
         \o Word(Len(msg.quests)) \o Word(Len(msg.answers)) \o Zeros(2) \o Word(Len(msg.records)))
  /\ UNCHANGED <<offsets, item, rest, trail, msg, decoder>>

\* The loops of Encode over the sections.
NextName ==
  /\ call = "item"
  /\ \/ /\ item < Len(Sent)
        /\ item' = item + 1 /\ rest' = Sent[item + 1].name /\ call' = "name"
     \/ item = Len(Sent) /\ call' = "sent" /\ UNCHANGED <<item, rest>>
  /\ UNCHANGED <<buf, offsets, trail, msg, decoder>>

\* encoder.label: the length is cut to a byte.
LabelBytes(label) == <<Len(label) % 256>> \o label

\* Mutant of PointerBytes: the low byte first.
PointerBytesSwapped(offset) == <<offset % 256, 192 + ((offset \div 256) % 64)>>

\* encoder.ptr: offset | 0xC000 of a 16 bit offset.
PointerBytes(offset) == <<192 + ((offset \div 256) % 64), offset % 256>>

\* Mutant of Store: the suffix is stored after its label has been written.
StoreLate ==
  offsets' = [s \in DOMAIN offsets \cup {rest} |->
                IF s = rest THEN (Len(buf) + 1 + Len(rest[1])) % 65536 ELSE offsets[s]]

\* encoder.store: the suffix, with the offset it starts at, cut to 16 bits.
Store ==
  offsets' = [s \in DOMAIN offsets \cup {rest} |->
                IF s = rest THEN Len(buf) % 65536 ELSE offsets[s]]

\* encoder.name, up to where it calls itself for what is behind the first label:
\* the terminator, a pointer to a suffix that has been stored, or a label.
PutName ==
  /\ call = "name"
  /\ trail' = trail \cup {[at |-> Len(buf), item |-> item, rest |-> rest]}
  /\ \/ /\ rest = <<>>
        /\ Put(<<0>>) /\ call' = "fixed"
        /\ UNCHANGED <<offsets, rest>>
     \/ /\ rest # <<>> /\ rest \in DOMAIN offsets
        /\ Put(PointerBytes(offsets[rest])) /\ call' = "fixed"
        /\ UNCHANGED <<offsets, rest>>
     \/ /\ rest # <<>> /\ rest \notin DOMAIN offsets
        /\ Store
        /\ Put(LabelBytes(rest[1])) /\ rest' = Tail(rest)
        /\ UNCHANGED call
  /\ UNCHANGED <<item, msg, decoder>>

\* What quest and record put behind a name; a record ends in its data.
Fixed(i) == IF i.section = 1 THEN Zeros(4) ELSE Zeros(8) \o Word(i.size) \o Zeros(i.size)

PutFixed ==
  /\ call = "fixed" /\ call' = "item"
  /\ Put(Fixed(Sent[item]))
  /\ UNCHANGED <<offsets, item, rest, trail, msg, decoder>>

\* Encode is called, with an empty buffer.
EncodeInit ==
  /\ buf = <<>> /\ call = "header"
  /\ offsets = <<>> /\ item = 0 /\ rest = <<>> /\ trail = {}

Encode == PutHeader \/ NextName \/ PutName \/ PutFixed

MsgInit ==
  /\ msg \in Messages
  /\ EncodeInit
  /\ Reset

\* Encode, and then Decode of what it returned.
MsgNext == Encode \/ (call = "sent" /\ Next /\ UNCHANGED <<msg, encoder>>)

MsgSpec ==
  MsgInit /\ [][MsgNext]_<<vars, msg, encoder>> /\ WF_<<vars, msg, encoder>>(MsgNext)
-----------------------------------------------------------------------------
(* Properties                                                              *)

\* Decode never takes an encoded message for another: it returns the names that
\* were sent, whole and in order, or an error, and never more than was sent
\* before an error.  The compression of names, which writes each suffix once and
\* points back to it, loses and mixes up nothing (encode.go:92-132).
NothingElse ==
  /\ IsPrefix(out, Sent)
  /\ stage = "done" => out = Sent /\ pos = Length

AllNames == [i \in 1..Len(Sent) |-> Sent[i].name]

NameSuffixes(labels) == Suffixes(labels) \ {<<>>}

\* The longest suffix of the i-th name that an earlier name has as well.
Shared(i) ==
  LET earlier == UNION {NameSuffixes(AllNames[j]) : j \in 1..(i - 1)}
  IN {s \in NameSuffixes(AllNames[i]) \cap earlier :
        \A t \in NameSuffixes(AllNames[i]) \cap earlier : Len(t) <= Len(s)}

\* No name shares its suffix with a name that shares one itself: each pointer
\* leads to labels that end in a terminator.
Unchained ==
  \A i \in 1..Len(AllNames) : \A s \in Shared(i) :
    LET first == CHOOSE j \in 1..(i - 1) :
                   /\ s \in NameSuffixes(AllNames[j])
                   /\ \A k \in 1..(j - 1) : s \notin NameSuffixes(AllNames[k])
    IN Shared(first) = {}

\* Offsets of all names fit the fourteen bits of a pointer.
Short == Length <= 16384

\* No question is for the root: Encode writes its name, a lone terminator, and
\* Decode refuses an empty name in a question.
NoRootQuestion == \A i \in 1..Len(msg.quests) : msg.quests[i] # <<>>

\* Every message comes back from the decoder: the round trip of encode_test.go.
RoundTrip == stage \notin Errors
=============================================================================
