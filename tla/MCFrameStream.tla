--------------------------- MODULE MCFrameStream ---------------------------
(* Short frames of every size class for TLC.                               *)
EXTENDS FrameStream

Frame(n, m) == [size |-> n, mask |-> m]

\* In the bits (0), in two extra bytes (2) and in eight (5, with a mask in two
\* Writes), and one without a mask, short enough to be buffered whole.
MCFrames == {Frame(0, TRUE), Frame(2, TRUE), Frame(5, TRUE), Frame(1, FALSE)}

\* As clients send them: every frame is masked.
MCMasked == {Frame(n, TRUE) : n \in {0, 1, 2, 5}}
=============================================================================
