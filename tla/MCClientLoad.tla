---------------------------- MODULE MCClientLoad ----------------------------
(* A client's files for TLC: two required fields and the two that name      *)
(* files, two hosts, two addresses to route.                                *)
EXTENDS ClientLoad

CONSTANTS h1, h2, a1, a2, ip1, ip2, q, x

MCStringFields == {"auth_token", "names_file", "routes_file"}
MCPortFields == {"local_tcp_port"}
MCRequired == {"auth_token", "local_tcp_port"}

\* "x", "", a closing quote too few, a lone quote, no quotes.
MCRawStrings == {<<q, x, q>>, <<q, q>>, <<q, x, x>>, <<q>>, <<x, x>>}
TwoChars == {q, x}
MCRawPorts == {0, 1, 65535, 65536}

TwoNames == {h1, h2}
TwoAddrs == {a1, a2}
TwoIPs == {ip1, ip2}
MCMaxLines == [config |-> 4, names |-> 6, routes |-> 3]
=============================================================================
