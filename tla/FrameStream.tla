---------------------------- MODULE FrameStream ----------------------------
(***************************************************************************)
(* The websocket frame codec of wsok/frame.go on one direction of a        *)
(* connection: Encode writes frames to the client's socket, the network    *)
(* cuts the bytes into pieces of its own choosing, and the server's        *)
(* serveIncomingFrames loop calls Decode on a bufio.Reader over its socket *)
(* and goes on after an error.                                             *)
(*                                                                         *)
(* A byte is known by the frame it belongs to and its offset there; a      *)
(* payload byte also records which byte of the mask was xored into it.     *)
(* The size classes 125 and 65535 of the format are the constants Small    *)
(* and Medium, so that TLC meets all three with short payloads.            *)
(***************************************************************************)
EXTENDS Integers, Sequences

CONSTANTS
  Small,     \* largest size held by the size bits themselves (125)
  Medium,    \* largest size held by two extra bytes (65535)
  Chunk,     \* Encode's buffer for masked payload (2^14)
  BufCap,    \* capacity of the bufio.Reader (4096)
  Frames,    \* frames the client sends: size of Data, and UseMask
  MaxFrames  \* bound: frames the client sends

ASSUME SizeClasses == Small \in Nat /\ Medium \in Nat /\ 0 < Small /\ Small < Medium
ASSUME ChunkAssumption == Chunk \in Nat \ {0} /\ Chunk % 4 = 0
ASSUME BufCapAssumption == BufCap \in Nat \ {0}
ASSUME FramesAssumption == Frames \subseteq [size : Nat, mask : BOOLEAN]
ASSUME MaxFramesAssumption == MaxFrames \in Nat

VARIABLES
  sent,    \* sent[f]: size and UseMask of the f-th frame given to Encode
  starts,  \* history: starts[f]: bytes written before the f-th frame
  pos,     \* Encode's pos: payload bytes of the last frame written so far
  stream,  \* bytes written to the connection
  closed,  \* the client's end is closed
  bpos,    \* bytes the bufio.Reader took from the connection
  rpos,    \* bytes Decode took from the bufio.Reader
  phase,   \* Decode: at "head", "extra" or "data"; or the loop's "eof", "crash"
  hdr,     \* header that Decode read: its frame (0: none), bits, mask, size
  have,    \* payload bytes of the frame Decode has read
  got,     \* got[k]: frame the k-th successful Decode returned, 0: none sent
  errs     \* a Decode returned an error

encVars == <<sent, starts, pos, stream, closed>>
decVars == <<bpos, rpos, phase, hdr, have, got, errs>>
vars == <<sent, starts, pos, stream, closed, bpos, rpos, phase, hdr, have, got, errs>>

\* getSizeBits: the size bits of a payload of n bytes.
SizeBits(n) == IF n <= Small THEN n ELSE IF n <= Medium THEN Small + 1 ELSE Small + 2

\* getHeaderExtraSize: header bytes after the first two.
ExtraSize(mask, bits) ==
  (IF mask THEN 4 ELSE 0) + (CASE bits = Small + 1 -> 2
                               [] bits = Small + 2 -> 8
                               [] OTHER -> 0)

HeaderSize(fr) == 2 + ExtraSize(fr.mask, SizeBits(fr.size))
FrameSize(fr) == HeaderSize(fr) + fr.size

\* No byte is masked with a key; payload bytes are, with key 0..3.
Clear == -1
Byte == [f : 1..MaxFrames, off : Nat, key : {Clear} \cup 0..3]

\* What the first two bytes of a frame say, and what any two bytes may say.
HeadOf(f) == [f |-> f, bits |-> SizeBits(sent[f].size), mask |-> sent[f].mask,
              size |-> 0]
AnyHead == [f : {0}, bits : 0..(Small + 2), mask : BOOLEAN, size : {0}]
NoHead == [f |-> 0, bits |-> 0, mask |-> FALSE, size |-> 0]

TypeOK ==
  /\ sent \in Seq(Frames) /\ Len(sent) <= MaxFrames
  /\ starts \in Seq(Nat) /\ Len(starts) = Len(sent)
  /\ pos \in 0..(IF sent = <<>> THEN 0 ELSE sent[Len(sent)].size)
  /\ stream \in Seq(Byte)
  /\ closed \in BOOLEAN
  /\ rpos \in 0..bpos /\ bpos \in 0..Len(stream) /\ bpos - rpos <= BufCap
  /\ phase \in {"head", "extra", "data", "eof", "crash"}
  /\ hdr \in [f : 0..MaxFrames, bits : 0..(Small + 2), mask : BOOLEAN, size : Nat]
  /\ have \in 0..hdr.size
  /\ got \in Seq(0..MaxFrames)
  /\ errs \in BOOLEAN

Init ==
  /\ sent = <<>> /\ starts = <<>> /\ pos = 0 /\ stream = <<>> /\ closed = FALSE
  /\ bpos = 0 /\ rpos = 0
  /\ phase = "head" /\ hdr = NoHead /\ have = 0
  /\ got = <<>> /\ errs = FALSE
-----------------------------------------------------------------------------
(* The client: Encode                                                      *)

\* The last frame given to Encode is written, or there is none.
EncodeDone == sent # <<>> => pos = sent[Len(sent)].size

\* Encode's first Write: the header, in one call.
EncodeHeader(fr) ==
  LET f == Len(sent) + 1 IN
  /\ ~closed /\ EncodeDone /\ Len(sent) < MaxFrames
  /\ sent' = Append(sent, fr)
  /\ starts' = Append(starts, Len(stream))
  /\ pos' = 0
  /\ stream' = stream \o [k \in 1..HeaderSize(fr) |->
                            [f |-> f, off |-> k, key |-> Clear]]
  /\ UNCHANGED <<closed, decVars>>

\* The mask byte that Encode's inner loops xor into the i-th byte of a buffer.
EncodeKey(i) == i % 4

\* Mutant of EncodePayload: the last Write sends the whole buffer.
EncodePayloadWholeBuffer ==
  LET f == Len(sent)
      fr == sent[f]
      left == fr.size - pos
      n == IF fr.mask THEN Chunk ELSE left
      key(i) == IF fr.mask THEN EncodeKey(i) ELSE Clear IN
  /\ ~closed /\ ~EncodeDone
  /\ pos' = pos + n
  /\ stream' = stream \o [k \in 1..n |-> [f |-> f, off |-> HeaderSize(fr) + pos + k,
                                          key |-> key(k - 1)]]
  /\ UNCHANGED <<sent, starts, closed, decVars>>

\* Encode's next Write of payload: all of it when there is no mask, a full
\* buffer when there is one, or what remains.
EncodePayload ==
  LET f == Len(sent)
      fr == sent[f]
      left == fr.size - pos
      n == IF fr.mask /\ left > Chunk THEN Chunk ELSE left
      key(i) == IF fr.mask THEN EncodeKey(i) ELSE Clear IN
  /\ ~closed /\ ~EncodeDone
  /\ pos' = pos + n
  /\ stream' = stream \o [k \in 1..n |-> [f |-> f, off |-> HeaderSize(fr) + pos + k,
                                          key |-> key(k - 1)]]
  /\ UNCHANGED <<sent, starts, closed, decVars>>

\* The client closes the connection, perhaps between two Writes of a frame.
Close ==
  /\ ~closed
  /\ closed' = TRUE
  /\ UNCHANGED <<sent, starts, pos, stream, decVars>>
-----------------------------------------------------------------------------
(* The server: bufio.Reader.Read, and Decode around it                     *)

\* bufio.Reader.Read of want bytes takes n of them, 1 <= n <= want.  It hands
\* out what it has; only when it has nothing does it read the connection, once,
\* straight into the caller's slice if that is as large as its buffer.
Read(want, n) ==
  /\ n \in 1..want
  /\ rpos' = rpos + n
  /\ \/ /\ rpos < bpos
        /\ n = IF want < bpos - rpos THEN want ELSE bpos - rpos
        /\ bpos' = bpos
     \/ /\ rpos = bpos /\ want < BufCap
        /\ \E m \in n..BufCap : /\ bpos' = bpos + m
                                /\ bpos' <= Len(stream)
                                /\ n = IF want < m THEN want ELSE m
     \/ /\ rpos = bpos /\ want >= BufCap
        /\ bpos' = bpos + n
        /\ bpos' <= Len(stream)

\* The n bytes that Read takes are bytes off, off + 1, ... of frame f.
Takes(f, off, n) ==
  \A k \in 1..n : stream[rpos + k].f = f /\ stream[rpos + k].off = off + k - 1

\* Decode returns an error; serveIncomingFrames logs it and calls it again.
Fail ==
  /\ errs' = TRUE
  /\ phase' = "head" /\ hdr' = NoHead /\ have' = 0
  /\ UNCHANGED got

\* Mutant of Sized: an empty payload is waited for like any other.
SizedAlwaysReads(h) ==
  /\ have' = 0
  /\ UNCHANGED errs
  /\ phase' = "data" /\ hdr' = h /\ UNCHANGED got

\* Decode knows the size of the payload: it returns at once when that is 0.
Sized(h) ==
  /\ have' = 0
  /\ UNCHANGED errs
  /\ IF h.size = 0
     THEN phase' = "head" /\ hdr' = NoHead /\ got' = Append(got, h.f)
     ELSE phase' = "data" /\ hdr' = h /\ UNCHANGED got

\* The header is read up to its extra bytes.
Headed(h) ==
  IF ExtraSize(h.mask, h.bits) = 0
  THEN Sized([h EXCEPT !.size = h.bits])
  ELSE phase' = "extra" /\ hdr' = h /\ have' = 0 /\ UNCHANGED <<got, errs>>

\* Mutant of ReadHead: the number of bytes read is not checked.
ReadHeadUnchecked(n) ==
  /\ phase = "head"
  /\ Read(2, n)
  /\ \/ n = 2 /\ \E f \in 1..Len(sent) : Takes(f, 1, 2) /\ Headed(HeadOf(f))
     \/ /\ ~ (n = 2 /\ \E f \in 1..Len(sent) : Takes(f, 1, 2))
        /\ \E h \in AnyHead : Headed(h)
  /\ UNCHANGED encVars

\* `r.Read(buf[:2])`: one Read, an error if it returns one byte.  Two bytes
\* that do not start a frame read as any header.
ReadHead(n) ==
  /\ phase = "head"
  /\ Read(2, n)
  /\ \/ n < 2 /\ Fail
     \/ n = 2 /\ \E f \in 1..Len(sent) : Takes(f, 1, 2) /\ Headed(HeadOf(f))
     \/ /\ n = 2 /\ ~ \E f \in 1..Len(sent) : Takes(f, 1, 2)
        /\ \E h \in AnyHead : Headed(h)
  /\ UNCHANGED encVars

\* `r.Read(buf[:headerExtraSize])`: the size if it is not in the bits, and the
\* mask.  A size that was never written may be any, also one that makes the
\* allocation panic, which nothing recovers.
ReadExtra(n) ==
  LET extra == ExtraSize(hdr.mask, hdr.bits)
      inBits == hdr.bits <= Small
      known == hdr.f # 0 /\ Takes(hdr.f, 3, extra) IN
  /\ phase = "extra"
  /\ Read(extra, n)
  /\ \/ n < extra /\ Fail
     \/ n = extra /\ known /\ Sized([hdr EXCEPT !.size = sent[hdr.f].size])
     \/ n = extra /\ ~known /\ inBits /\ Sized([hdr EXCEPT !.f = 0, !.size = hdr.bits])
     \/ /\ n = extra /\ ~known /\ ~inBits
        /\ \E fr \in Frames : Sized([hdr EXCEPT !.f = 0, !.size = fr.size])
     \/ /\ n = extra /\ ~known /\ hdr.bits = Small + 2
        /\ phase' = "crash"
        /\ UNCHANGED <<hdr, have, got, errs>>
  /\ UNCHANGED encVars

\* b is the k-th byte of the payload of frame f, masked as Decode unmasks it.
PayloadByte(b, f, k) ==
  /\ b.f = f
  /\ b.off = HeaderSize(sent[f]) + k
  /\ b.key = IF sent[f].mask THEN (k - 1) % 4 ELSE Clear

\* The bytes up to position p are the payload that the client gave to Encode.
Intact(p) == \A k \in 1..hdr.size : PayloadByte(stream[p - hdr.size + k], hdr.f, k)

\* The frame whose payload is the bytes up to position p, or 0.
Payload(p) == IF hdr.f # 0 /\ Intact(p) THEN hdr.f ELSE 0

\* io.ReadFull(r, data): Read until the payload is complete.
ReadPayload(n) ==
  /\ phase = "data"
  /\ Read(hdr.size - have, n)
  /\ IF have + n < hdr.size
     THEN have' = have + n /\ UNCHANGED <<phase, hdr, got>>
     ELSE /\ phase' = "head" /\ hdr' = NoHead /\ have' = 0
          /\ got' = Append(got, Payload(rpos + n))
  /\ UNCHANGED <<errs, encVars>>

\* Mutant of ReadEOF: the end is noticed when the connection has nothing more,
\* although the bufio.Reader still holds bytes.
ReadEOFEarly ==
  /\ phase \in {"head", "extra", "data"}
  /\ closed /\ bpos = Len(stream)
  /\ IF phase = "data" /\ have > 0
     THEN Fail
     ELSE phase' = "eof" /\ UNCHANGED <<hdr, have, got, errs>>
  /\ UNCHANGED <<encVars, bpos, rpos>>

\* Mutant of ReadEOF: io.ErrUnexpectedEOF ends the loop as io.EOF does.
ReadEOFQuiet ==
  /\ phase \in {"head", "extra", "data"}
  /\ closed /\ rpos = Len(stream)
  /\ phase' = "eof" /\ UNCHANGED <<hdr, have, got, errs, encVars, bpos, rpos>>

\* Every byte is consumed and the client is gone.  io.EOF ends the loop; in
\* the middle of a payload io.ReadFull returns io.ErrUnexpectedEOF instead.
ReadEOF ==
  /\ phase \in {"head", "extra", "data"}
  /\ closed /\ rpos = Len(stream)
  /\ IF phase = "data" /\ have > 0
     THEN Fail
     ELSE phase' = "eof" /\ UNCHANGED <<hdr, have, got, errs>>
  /\ UNCHANGED <<encVars, bpos, rpos>>
-----------------------------------------------------------------------------
Encode == (\E fr \in Frames : EncodeHeader(fr)) \/ EncodePayload

Decode ==
  \/ \E n \in 1..2 : ReadHead(n)
  \/ \E n \in 1..12 : ReadExtra(n)
  \/ \E n \in 1..hdr.size : ReadPayload(n)
  \/ ReadEOF

Next == Encode \/ Close \/ Decode

(* The reading goroutine runs whenever bytes have arrived.                  *)
Spec == Init /\ [][Next]_vars /\ WF_vars(Decode)
-----------------------------------------------------------------------------
(* Properties                                                              *)

\* Up to the first error, and however the network cuts the bytes, Decode
\* returns the client's frames, each of them, in order, with their payloads
\* unmasked as they were, and allocates no payload of a size that was never
\* written (frame.go:60-145 against 162-238).
FaithfulUntilError ==
  ~errs => phase # "crash" /\ \A k \in 1..Len(got) : got[k] = k

\* Frames that are completely written.
Written == IF EncodeDone THEN Len(sent) ELSE Len(sent) - 1

\* A frame has some of its payload written, and not all of it.
Torn == ~EncodeDone /\ pos > 0

CHANNEL == INSTANCE FrameChannel
             WITH Limit <- MaxFrames, begun <- Len(sent), written <- Written,
                  partly <- Torn, received <- got, failed <- errs, ended <- phase \in {"eof", "crash"}

\* The codec over a connection that cuts its bytes anywhere is a channel of
\* frames: a frame is handed over after it was completely written and no other
\* before it; and the loop of the server ends, unless a Decode failed before,
\* only with every frame that was completely written, and not when the client
\* left within a payload, whatever the bufio.Reader held at that time.  When
\* it left behind a header and before the payload, io.ReadFull returns the same
\* io.EOF as at a frame boundary, and the loop ends without an error: that
\* frame is lost in silence (tunnel.go:65-75, frame.go:60-145).
ImplementsChannel == CHANNEL!Spec

\* A frame that was completely written is decoded, unless a Read that returned
\* too few header bytes made Decode fail before.
Decoded ==
  \A k \in 1..MaxFrames :
    (Len(sent) > k \/ (Len(sent) = k /\ EncodeDone)) ~> (Len(got) >= k \/ errs)

\* frame_test.go:77: what Encode writes, Decode reads back.
RoundTrip == \A k \in 1..Len(got) : got[k] = k
=============================================================================
