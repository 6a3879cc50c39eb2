---------------------------- MODULE FrameChannel ----------------------------
(***************************************************************************)
(* What the frame codec promises to the two ends of a connection, with no  *)
(* byte, header or buffer in sight: frames that are completely written     *)
(* arrive, each of them once and in order, and nothing else does, until    *)
(* the reader has failed for the first time.  After that anything may      *)
(* arrive.  A reader that never failed ends only when it has every frame   *)
(* that was completely written, and not when a part of the payload of      *)
(* another was.  A frame of which no payload was written may be missing    *)
(* without a failure: its header says nothing to the reader's caller.      *)
(***************************************************************************)
EXTENDS Naturals, Sequences

CONSTANT Limit  \* bound: number of frames

VARIABLES
  begun,    \* frames whose writing has begun
  written,  \* frames that are completely written
  partly,   \* a part of the payload of the unfinished frame is written
  received, \* numbers of the frames that the reader was given
  failed,   \* the reader has met an error
  ended     \* the reader has met the end

vars == <<begun, written, partly, received, failed, ended>>

Init ==
  /\ begun = 0 /\ written = 0 /\ partly = FALSE
  /\ received = <<>> /\ failed = FALSE /\ ended = FALSE

\* One frame is written at a time; a short one in one go.
Begin ==
  /\ begun = written /\ begun < Limit
  /\ begun' = begun + 1
  /\ written' \in {written, begun'}
  /\ UNCHANGED <<partly, received, failed, ended>>

Part ==
  /\ written < begun
  /\ partly' = TRUE
  /\ UNCHANGED <<begun, written, received, failed, ended>>

Finish ==
  /\ written < begun
  /\ written' = begun /\ partly' = FALSE
  /\ UNCHANGED <<begun, received, failed, ended>>

Receive ==
  /\ ~failed /\ ~ended /\ Len(received) < written
  /\ received' = Append(received, Len(received) + 1)
  /\ UNCHANGED <<begun, written, partly, failed, ended>>

Fail ==
  /\ ~ended
  /\ failed' = TRUE
  /\ UNCHANGED <<begun, written, partly, received, ended>>

\* After a failure: some frame, or what was never sent.
Garble ==
  /\ failed /\ ~ended
  /\ \E f \in 0..Limit : received' = Append(received, f)
  /\ UNCHANGED <<begun, written, partly, failed, ended>>

End ==
  /\ ~ended
  /\ failed \/ (Len(received) = written /\ ~partly)
  /\ ended' = TRUE
  /\ UNCHANGED <<begun, written, partly, received, failed>>

Next == Begin \/ Part \/ Finish \/ Receive \/ Fail \/ Garble \/ End

Spec == Init /\ [][Next]_vars
=============================================================================
