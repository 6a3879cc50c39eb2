---------------------------- MODULE MCDnsMessage ----------------------------
(* Messages for DnsMessage: names over two labels, so that names repeat,    *)
(* share suffixes and contain each other.                                   *)
EXTENDS DnsMessage

A == <<97>>
B == <<98, 98>>
TwoLabels == {A, B}
Names == UNION {[1..n -> TwoLabels] : n \in 1..3}

\* Messages with a number of questions, answers and records over some names.
Sections(names, q, a, r) ==
  {[opcode |-> 0, failed |-> FALSE, quests |-> qs, answers |-> as, records |-> rs] :
     qs \in [1..q -> names],
     as \in [1..a -> [name : names, size : {1}]],
     rs \in [1..r -> [name : names \cup {<<>>}, size : {0}]]}

\* A question with every value of the header.
Headers ==
  {[opcode |-> op, failed |-> f, quests |-> <<<<A>>>>, answers |-> <<>>, records |-> <<>>] :
     op \in 0..2, f \in BOOLEAN}

\* Three names in the shapes the proxy and the tests use.
MCMessages ==
  Headers \cup
  Sections(Names, 0, 0, 0) \cup Sections(Names, 3, 0, 0)
    \cup Sections(Names, 1, 2, 0) \cup Sections(Names, 1, 1, 1)

\* DnsMessage encodes its buffers.
MCBuffersUnused == {}
=============================================================================
