---------------------------- MODULE MCClientApp ----------------------------
(* Two client processes for TLC.                                           *)
EXTENDS ClientApp

CONSTANTS p1, p2

TwoProcs == {p1, p2}
Everything == {"kill", "iptables"}
=============================================================================
