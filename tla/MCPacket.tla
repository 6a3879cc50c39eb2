------------------------------ MODULE MCPacket ------------------------------
(* Bounds of Packet for TLC.                                               *)
EXTENDS Packet

\* From shorter than any packet, through minPacketLength and the longest empty
\* packet (60 bytes), to room for a hello with the shortest and longest junk.
MCAlienSizes == (30..38) \cup (44..48) \cup (58..62) \cup (70..74)
=============================================================================
