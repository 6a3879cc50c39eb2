---------------------------- MODULE MCServerApp ----------------------------
(* A server with two connections for TLC.                                  *)
EXTENDS ServerApp

CONSTANTS c1, c2, k1, right, wrong

TwoConns == {c1, c2}
OneKey == {k1}
TwoTokens == {right, wrong}

\* One line is missing, or the reply is whole.
MCCuts == {4, 5}

\* A page, a request without the upgrade headers, and one without a key.
MCRequests ==
  {[stream |-> FALSE, upgrade |-> FALSE, key |-> Absent, token |-> Absent],
   [stream |-> TRUE, upgrade |-> FALSE, key |-> k1, token |-> right],
   [stream |-> TRUE, upgrade |-> TRUE, key |-> Absent, token |-> right]}
=============================================================================
