------------------------------ MODULE DnsDecode -----------------------------
(***************************************************************************)
(* Decode of internal/dns/decode.go: a DNS message is read out of a buffer *)
(* that anyone may have sent.                                              *)
(*                                                                         *)
(* The hard part is the name.  It is a list of labels, each behind its     *)
(* length, up to a zero; a length of 192 and above is the first half of a  *)
(* pointer to an offset where the name goes on, and after it the decoder   *)
(* has to come back.  Every step is one call of a method of decoder: the   *)
(* header, a label, or the fixed part behind a name.                       *)
(***************************************************************************)
EXTENDS Integers, Sequences

CONSTANT Buffers     \* the buffers that are decoded

Bytes == 0..255

\* The labels that decoder.label returns.
Labels == {l \in Seq(Bytes) : Len(l) \in 1..191}

ASSUME BuffersAssumption == Buffers \subseteq Seq(Bytes)

VARIABLES
  buf,      \* d.buf; offset p is buf[p + 1]
  stage,    \* the next call, or how the decoding ended
  pos,      \* d.pos
  mark,     \* d.mark: where to go on behind a pointer, 0 when none is followed
  left,     \* names still to read in the three sections
  section,  \* the section being read: 1 questions, 2 answers, 3 records
  name,     \* labels of the name being read
  opcode,   \* h.opcode
  out       \* what has been decoded: section, name, length of the record's data

result == <<name, opcode, out>>
vars == <<buf, stage, pos, mark, left, section, result>>

Errors == {"no header", "empty name", "not enough data", "recursive pointer", "overrun"}
Ended == Errors \cup {"done"}
Stages == Ended \cup {"header", "item", "label", "fixed"}

Length == Len(buf)          \* len(d.buf)
Remaining == Length - pos   \* d.len(), negative after a jump beyond the end

Byte(p) == buf[p + 1]
U16(p) == Byte(p) * 256 + Byte(p + 1)

\* The bytes at offsets p to p + k - 1 are in the buffer.
Within(p, k) == 0 <= p /\ 0 <= k /\ p + k <= Length

Fail(how) ==
  /\ stage' = how
  /\ UNCHANGED <<buf, pos, mark, left, section, result>>

Reset ==
  /\ stage = "header" /\ pos = 0 /\ mark = 0
  /\ left = [s \in 1..3 |-> 0] /\ section = 1
  /\ name = <<>> /\ opcode = 0 /\ out = <<>>

Init == buf \in Buffers /\ Reset
-----------------------------------------------------------------------------
\* decoder.header: twelve bytes.  The count of name server records, at offset
\* 8, is read and not used.
Header ==
  /\ stage = "header"
  /\ \/ Remaining < 12 /\ Fail("no header")
     \/ /\ Remaining >= 12
        /\ IF Within(pos, 12)
           THEN /\ stage' = "item" /\ pos' = pos + 12
                /\ opcode' = (Byte(2) \div 8) % 16
                /\ left' = <<U16(4), U16(6), U16(10)>>
           ELSE stage' = "overrun" /\ UNCHANGED <<pos, opcode, left>>
        /\ UNCHANGED <<buf, mark, section, name, out>>

\* Mutant of NextItem: each loop runs once more than its count.
NextItemOnceMore ==
  /\ stage = "item"
  /\ left[section] >= 0
  /\ left' = [left EXCEPT ![section] = @ - 1]
  /\ stage' = "label" /\ name' = <<>>
  /\ UNCHANGED <<buf, pos, mark, section, opcode, out>>

\* The loops of quests, answers and records.
NextItem ==
  /\ stage = "item"
  /\ \/ /\ left[section] > 0
        /\ left' = [left EXCEPT ![section] = @ - 1]
        /\ stage' = "label" /\ name' = <<>>
        /\ UNCHANGED section
     \/ /\ left[section] = 0 /\ section < 3
        /\ section' = section + 1
        /\ UNCHANGED <<stage, left, name>>
     \/ /\ left[section] = 0 /\ section = 3
        /\ stage' = "done"
        /\ UNCHANGED <<left, section, name>>
  /\ UNCHANGED <<buf, pos, mark, opcode, out>>

\* Mutant of Terminator: the mark is used and kept.
TerminatorKeepsMark ==
  /\ Byte(pos) = 0
  /\ pos' = IF mark # 0 THEN mark ELSE pos + 1
  /\ mark' = mark
  /\ stage' = "fixed"
  /\ UNCHANGED <<buf, left, section, result>>

\* The three kinds of byte decoder.label can meet: zero ends the name.
Terminator ==
  /\ Byte(pos) = 0
  /\ pos' = IF mark # 0 THEN mark ELSE pos + 1
  /\ mark' = 0
  /\ stage' = "fixed"
  /\ UNCHANGED <<buf, left, section, result>>

\* Mutant of Pointer: pointers are followed as often as they come.
PointerAgain ==
  /\ Byte(pos) >= 192
  /\ \/ Remaining - 1 < 1 /\ Fail("not enough data")
     \/ /\ Remaining - 1 >= 1
        /\ mark' = IF mark = 0 THEN pos + 2 ELSE mark
        /\ pos' = (Byte(pos) % 64) * 256 + Byte(pos + 1)
        /\ UNCHANGED <<buf, stage, left, section, result>>

\* A pointer is followed once in a name: mark tells that one has been.  The
\* check of the remaining bytes comes after the first half has been read.
Pointer ==
  /\ Byte(pos) >= 192
  /\ \/ mark # 0 /\ Fail("recursive pointer")
     \/ mark = 0 /\ Remaining - 1 < 1 /\ Fail("not enough data")
     \/ /\ mark = 0 /\ Remaining - 1 >= 1
        /\ IF Within(pos, 2)
           THEN /\ mark' = pos + 2
                /\ pos' = (Byte(pos) % 64) * 256 + Byte(pos + 1)
                /\ UNCHANGED stage
           ELSE stage' = "overrun" /\ UNCHANGED <<pos, mark>>
        /\ UNCHANGED <<buf, left, section, result>>

Text ==
  /\ Byte(pos) # 0 /\ Byte(pos) < 192
  /\ \/ Byte(pos) > Remaining - 1 /\ Fail("not enough data")
     \/ /\ Byte(pos) <= Remaining - 1
        /\ IF Within(pos + 1, Byte(pos))
           THEN /\ name' = Append(name, SubSeq(buf, pos + 2, pos + 1 + Byte(pos)))
                /\ pos' = pos + 1 + Byte(pos)
                /\ UNCHANGED stage
           ELSE stage' = "overrun" /\ UNCHANGED <<name, pos>>
        /\ UNCHANGED <<buf, mark, left, section, opcode, out>>

Label ==
  /\ stage = "label"
  /\ \/ Remaining < 1 /\ Fail("not enough data")
     \/ Remaining >= 1 /\ (Terminator \/ Pointer \/ Text)

\* Type and class behind the name of a question.
Quest ==
  /\ stage = "fixed" /\ section = 1
  /\ \/ name = <<>> /\ Fail("empty name")
     \/ name # <<>> /\ Remaining < 4 /\ Fail("not enough data")
     \/ /\ name # <<>> /\ Remaining >= 4
        /\ IF Within(pos, 4)
           THEN /\ stage' = "item" /\ pos' = pos + 4
                /\ out' = Append(out, [section |-> section, name |-> name, size |-> 0])
           ELSE stage' = "overrun" /\ UNCHANGED <<pos, out>>
        /\ UNCHANGED <<buf, mark, left, section, name, opcode>>

\* Mutant of Record: the length of the data is believed.
RecordUnchecked ==
  /\ stage = "fixed" /\ section > 1
  /\ \/ Remaining < 10 /\ Fail("not enough data")
     \/ /\ Remaining >= 10
        /\ LET size == U16(pos + 8) IN
             IF Within(pos, 10 + size)
             THEN /\ stage' = "item" /\ pos' = pos + 10 + size
                  /\ out' = Append(out, [section |-> section, name |-> name, size |-> size])
             ELSE stage' = "overrun" /\ UNCHANGED <<pos, out>>
        /\ UNCHANGED <<buf, mark, left, section, name, opcode>>

\* Type, class, TTL, length and data behind the name of an answer or a record.
Record ==
  /\ stage = "fixed" /\ section > 1
  /\ \/ Remaining < 10 /\ Fail("not enough data")
     \/ /\ Remaining >= 10
        /\ IF Within(pos, 10)
           THEN LET size == U16(pos + 8) IN
                  IF Remaining - 10 < size
                  THEN stage' = "not enough data" /\ UNCHANGED <<pos, out>>
                  ELSE /\ stage' = "item" /\ pos' = pos + 10 + size
                       /\ out' = Append(out, [section |-> section, name |-> name, size |-> size])
           ELSE stage' = "overrun" /\ UNCHANGED <<pos, out>>
        /\ UNCHANGED <<buf, mark, left, section, name, opcode>>

Next == Header \/ NextItem \/ Label \/ Quest \/ Record

\* Decode is a function that runs to its end.
Spec == Init /\ [][Next]_vars /\ WF_vars(Next)
-----------------------------------------------------------------------------
(* Properties                                                              *)

Items == [section : 1..3, name : Seq(Labels), size : Nat]

\* Every variable has its type; the position may be beyond the end only while
\* the name is read, after a jump.
TypeOK ==
  /\ buf \in Seq(Bytes)
  /\ stage \in Stages
  /\ pos \in Nat /\ mark \in Nat
  /\ left \in [1..3 -> Nat] /\ section \in 1..3
  /\ name \in Seq(Labels) /\ opcode \in 0..15
  /\ out \in Seq(Items)

\* Whatever the buffer holds, each read stays inside of it: a pointer beyond
\* the end, a length that is too long and a buffer cut anywhere are errors
\* (decode.go:255-318).
NoOverrun == stage # "overrun"

\* Following pointers makes progress: in a name the decoder jumps once at most,
\* and goes forward otherwise, before and after the jump; so a pointer that
\* leads back to itself cannot hold it (decode.go:265-279).
Forward ==
  [][(stage = "label" /\ stage' = "label") =>
       \/ mark = 0 /\ mark' # 0
       \/ mark' = mark /\ pos' > pos]_vars

\* Between two items the decoder is behind everything it has read in place: no
\* mark is left over from a name, and what follows a name that ended in a
\* pointer is looked for behind the pointer (decode.go:69-74).
BackInPlace == stage \in {"item", "fixed", "done"} => mark = 0 /\ 12 <= pos /\ pos <= Length

\* Decode returns, on any buffer.
Returns == <>(stage \in Ended)
=============================================================================
