---------------------------- MODULE MCDnsDecode -----------------------------
(* Buffers for DnsDecode: headers with a few counts, then a short sequence  *)
(* of bytes that are labels, terminators and pointers, then the fixed part  *)
(* of a record or less of it.                                               *)
EXTENDS DnsDecode

\* One question or answer, two questions, a question and an answer, an answer
\* and a record.
Counts == {<<1, 0, 0>>, <<0, 1, 0>>, <<2, 0, 0>>, <<1, 1, 0>>, <<0, 1, 1>>}
HeaderBytes(c) == <<7, 7, 0, 0, 0, c[1], 0, c[2], 0, 0, 0, c[3]>>

\* A zero, labels of one, two and twelve bytes, and pointers: to the header, to
\* the first name, beyond the end.
Alphabet == {0, 1, 2, 12, 40, 192}
Names == UNION {[1..n -> Alphabet] : n \in 0..4}

\* Type, class, TTL and a data length of 1, with the data or cut.
Tails == {SubSeq(<<0, 1, 0, 1, 0, 0, 0, 0, 0, 1, 9>>, 1, n) : n \in {0, 3, 4, 10, 11}}

MCBuffers ==
  {HeaderBytes(c) \o n \o t : c \in Counts, n \in Names, t \in Tails}
    \cup {SubSeq(HeaderBytes(<<1, 0, 0>>), 1, n) : n \in 0..11}
=============================================================================
