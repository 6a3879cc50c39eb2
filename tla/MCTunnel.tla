------------------------------ MODULE MCTunnel ------------------------------
(* Small tunnels for TLC: model values come from the .cfg files.           *)
EXTENDS Tunnel

CONSTANTS c1, c2, t1

OneConn == {c1}
TwoConns == {c1, c2}
OneTarget == {t1}
SecondConn == {c2}
=============================================================================
