----------------------------- MODULE MCDnsProxy -----------------------------
(* Datagrams for DnsProxy: the buffers of MCDnsDecode, and messages over    *)
(* names that repeat, share suffixes and contain each other; the root, too.  *)
EXTENDS DnsProxy

D == INSTANCE MCDnsDecode WITH Buffers <- {}
M == INSTANCE MCDnsMessage WITH Buffers <- {}, Messages <- {}

MCBuffers == D!MCBuffers

A == <<97>>
B == <<98, 98>>
ProxyNames == {<<A>>, <<B>>, <<B, A>>, <<A, A>>, <<A, B, A>>, <<B, B, A>>}

\* Questions up to the limit of eight, and beyond it.
Many(n) == [opcode |-> 0, failed |-> FALSE, quests |-> [i \in 1..n |-> <<A>>],
            answers |-> <<>>, records |-> <<>>]

MCMessages ==
  {Many(0), Many(8), Many(9)} \cup M!Headers
    \cup UNION {M!Sections(ProxyNames, q, 0, 0) : q \in 1..3}
    \cup UNION {M!Sections({<<>>, <<A>>, <<B, A>>}, q, 0, 0) : q \in 1..2}
    \cup M!Sections(ProxyNames, 1, 2, 0) \cup M!Sections(ProxyNames, 1, 1, 1)

\* Two addresses and one.
MCTable == (<<A>> :> <<4, 4>>) @@ (<<B, A>> :> <<16>>)

MCFills == {[name |-> <<B>>, list |-> <<4>>, ttl |-> 1], [name |-> <<B>>, list |-> <<4>>, ttl |-> 6]}
MCTimes == {0, 1, 4}
=============================================================================
