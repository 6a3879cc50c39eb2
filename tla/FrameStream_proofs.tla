------------------------- MODULE FrameStream_proofs -------------------------
(* Proofs about FrameStream, for frames of any sizes, any size classes, any *)
(* capacity of the bufio.Reader and any number of frames.                   *)
EXTENDS FrameStream, SequenceTheorems, TLAPS

\* Bytes of the f-th frame that are written so far.
SoFar(f) == IF f < Len(sent) THEN FrameSize(sent[f]) ELSE HeaderSize(sent[f]) + pos

\* The key of the k-th byte of a frame.
KeyAt(fr, k) == IF k > HeaderSize(fr) /\ fr.mask THEN (k - HeaderSize(fr) - 1) % 4 ELSE Clear

\* The stream is the frames one behind the other, the last of them perhaps
\* unfinished at a place where the keys start anew.
Layout ==
  /\ \A f \in 1..Len(sent) :
       /\ starts[f] + SoFar(f) <= Len(stream)
       /\ starts[f] + SoFar(f) = IF f < Len(sent) THEN starts[f + 1] ELSE Len(stream)
       /\ \A k \in 1..SoFar(f) :
            stream[starts[f] + k] = [f |-> f, off |-> k, key |-> KeyAt(sent[f], k)]
  /\ sent = <<>> => Len(stream) = 0
  /\ sent # <<>> => starts[1] = 0
  /\ EncodeDone \/ pos % 4 = 0
  /\ \A i \in 1..Len(stream) : stream[i].f <= Len(sent)

\* Without an error the reader is where its phase says: at the start of the
\* frame behind those it has returned, behind two bytes of it, or in its payload.
Where ==
  LET g == Len(got) + 1 IN
  ~errs =>
    /\ phase # "crash"
    /\ \A k \in 1..Len(got) : got[k] = k
    /\ Len(got) <= Len(sent)
    /\ phase = "head" => IF Len(got) < Len(sent) THEN rpos = starts[g]
                         ELSE rpos = Len(stream) /\ EncodeDone
    /\ phase = "extra" => /\ Len(got) < Len(sent) /\ rpos = starts[g] + 2
                          /\ hdr = HeadOf(g) /\ ExtraSize(hdr.mask, hdr.bits) # 0
    /\ phase = "data" => /\ Len(got) < Len(sent) /\ hdr.f = g
                         /\ hdr.size = sent[g].size /\ have < hdr.size
                         /\ rpos = starts[g] + HeaderSize(sent[g]) + have
    /\ phase = "eof" => closed /\ Len(got) = Written /\ ~Torn

IInv == TypeOK /\ hdr.f <= Len(sent) /\ Layout /\ Where

-----------------------------------------------------------------------------
(* Sizes and sequences                                                     *)

\* Extra bytes of a header, for any two bytes.
LEMMA ExtraSizes ==
  ASSUME NEW mask \in BOOLEAN, NEW bits \in 0..(Small + 2)
  PROVE  ExtraSize(mask, bits) \in 0..12
  BY SizeClasses DEF ExtraSize

\* Sizes of a frame that is sent.
LEMMA FrameSizes ==
  ASSUME NEW fr \in Frames
  PROVE  /\ fr.size \in Nat /\ fr.mask \in BOOLEAN
         /\ SizeBits(fr.size) \in 0..(Small + 2)
         /\ HeaderSize(fr) \in 2..14
         /\ HeaderSize(fr) = 2 + ExtraSize(fr.mask, SizeBits(fr.size))
         /\ FrameSize(fr) = HeaderSize(fr) + fr.size
         /\ SizeBits(fr.size) <= Small => SizeBits(fr.size) = fr.size
<1>1. fr.size \in Nat /\ fr.mask \in BOOLEAN
  BY FramesAssumption
<1>2. SizeBits(fr.size) \in 0..(Small + 2)
  BY <1>1, SizeClasses DEF SizeBits
<1>3. ExtraSize(fr.mask, SizeBits(fr.size)) \in 0..12
  BY <1>1, <1>2, ExtraSizes
<1> QED
  BY <1>1, <1>2, <1>3, SizeClasses DEF HeaderSize, FrameSize, SizeBits

LEMMA FrameNat ==
  ASSUME NEW fr \in Frames
  PROVE  /\ fr.size \in Nat /\ fr.mask \in BOOLEAN
         /\ HeaderSize(fr) \in Nat /\ HeaderSize(fr) >= 2 /\ FrameSize(fr) \in Nat
         /\ FrameSize(fr) = HeaderSize(fr) + fr.size
<1>1. fr.size \in Nat /\ fr.mask \in BOOLEAN /\ HeaderSize(fr) \in 2..14
      /\ FrameSize(fr) = HeaderSize(fr) + fr.size
  BY FrameSizes
<1> QED
  BY <1>1

\* Keys start anew at every multiple of four.
LEMMA KeysAnew ==
  ASSUME NEW p \in Nat, NEW j \in Nat, p % 4 = 0
  PROVE  (p + j) % 4 = j % 4
  OBVIOUS

\* What Read leaves, whatever it took.
LEMMA ReadBounds ==
  ASSUME TypeOK, NEW want \in Nat, NEW n, Read(want, n)
  PROVE  /\ n \in 1..want /\ rpos' = rpos + n
         /\ bpos' \in 0..Len(stream) /\ rpos' \in 0..bpos' /\ bpos' - rpos' <= BufCap
         /\ rpos \in Nat /\ Len(stream) \in Nat /\ rpos + n <= Len(stream)
<1>1. rpos \in Nat /\ bpos \in Nat /\ Len(stream) \in Nat /\ rpos <= bpos
      /\ bpos <= Len(stream) /\ bpos - rpos <= BufCap /\ BufCap \in Nat
  BY BufCapAssumption DEF TypeOK
<1>2. n \in 1..want /\ rpos' = rpos + n
  BY DEF Read
<1>3. CASE rpos < bpos /\ n = (IF want < bpos - rpos THEN want ELSE bpos - rpos) /\ bpos' = bpos
  BY <1>1, <1>2, <1>3
<1>4. CASE rpos = bpos /\ \E m \in n..BufCap : /\ bpos' = bpos + m
                                               /\ bpos' <= Len(stream)
                                               /\ n = IF want < m THEN want ELSE m
  BY <1>1, <1>2, <1>4
<1>5. CASE rpos = bpos /\ bpos' = bpos + n /\ bpos' <= Len(stream)
  BY <1>1, <1>2, <1>5
<1> QED
  BY <1>3, <1>4, <1>5 DEF Read

\* The members of the sequences.
LEMMA Typed ==
  ASSUME TypeOK
  PROVE  /\ Len(sent) \in Nat /\ Len(stream) \in Nat /\ Len(got) \in Nat
         /\ \A f \in 1..Len(sent) : sent[f] \in Frames /\ starts[f] \in Nat
         /\ \A i \in 1..Len(stream) : stream[i] \in Byte
<1>1. sent \in Seq(Frames) /\ stream \in Seq(Byte) /\ starts \in Seq(Nat) /\ got \in Seq(0..MaxFrames)
      /\ Len(starts) = Len(sent)
  BY DEF TypeOK
<1>2. Len(sent) \in Nat /\ Len(stream) \in Nat /\ Len(got) \in Nat
  BY <1>1
<1>3. \A f \in 1..Len(sent) : sent[f] \in Frames
  BY <1>1, ElementOfSeq
<1>4. \A f \in 1..Len(starts) : starts[f] \in Nat
  BY <1>1, ElementOfSeq
<1>5. \A i \in 1..Len(stream) : stream[i] \in Byte
  BY <1>1, ElementOfSeq
<1> QED
  BY <1>1, <1>2, <1>3, <1>4, <1>5

LEMMA InitIInv == Init => IInv
<1> SUFFICES ASSUME Init PROVE IInv
  OBVIOUS
<1>1. TypeOK
  <2>1. /\ <<>> \in Seq(Frames) /\ <<>> \in Seq(Nat) /\ <<>> \in Seq(Byte)
        /\ <<>> \in Seq(0..MaxFrames) /\ Len(<<>>) = 0
    BY EmptySeq
  <2>2. NoHead \in [f : 0..MaxFrames, bits : 0..(Small + 2), mask : BOOLEAN, size : Nat]
    BY SizeClasses, MaxFramesAssumption DEF NoHead
  <2>3. hdr.size = 0 /\ Len(stream) = 0 /\ Len(sent) = 0 /\ Len(starts) = 0
    BY <2>1 DEF Init, NoHead
  <2>4. bpos \in 0..Len(stream) /\ rpos \in 0..bpos /\ bpos - rpos <= BufCap
    BY <2>3, BufCapAssumption DEF Init
  <2>5. have \in 0..hdr.size /\ Len(sent) <= MaxFrames
    BY <2>3, MaxFramesAssumption DEF Init
  <2> QED
    BY <2>1, <2>2, <2>3, <2>4, <2>5 DEF Init, TypeOK
<1>2. Len(sent) = 0 /\ Len(got) = 0 /\ Len(stream) = 0 /\ EncodeDone
  BY DEF Init, EncodeDone
<1>3. Layout
  BY <1>2 DEF Init, Layout
<1>4. Where
  BY <1>2 DEF Init, Where
<1> QED
  BY <1>1, <1>2, <1>3, <1>4 DEF IInv, Init, NoHead
-----------------------------------------------------------------------------
(* The client's steps                                                      *)

\* What a Write leaves in the stream.
LEMMA Grown ==
  ASSUME NEW s \in Seq(Byte), NEW n \in Nat, NEW new \in [1..n -> Byte]
  PROVE  /\ s \o new \in Seq(Byte) /\ Len(s \o new) = Len(s) + n /\ Len(s) \in Nat
         /\ \A i \in 1..Len(s) : (s \o new)[i] = s[i]
         /\ \A k \in 1..n : (s \o new)[Len(s) + k] = new[k]
<1>1. new \in Seq(Byte) /\ Len(new) = n /\ Len(s) \in Nat
  OBVIOUS
<1>2. /\ s \o new \in Seq(Byte) /\ Len(s \o new) = Len(s) + n
      /\ \A i \in 1..(Len(s) + n) :
           (s \o new)[i] = IF i <= Len(s) THEN s[i] ELSE new[i - Len(s)]
  BY <1>1, ConcatProperties
<1>3. ASSUME NEW k \in 1..n
      PROVE  (s \o new)[Len(s) + k] = new[k]
  <2>1. Len(s) + k \in 1..(Len(s) + n) /\ ~(Len(s) + k <= Len(s)) /\ Len(s) + k - Len(s) = k
    BY <1>1
  <2> QED
    BY <1>2, <2>1
<1> QED
  BY <1>1, <1>2, <1>3

\* The header of a new frame stands behind all that was written.
LEMMA HeaderBytes ==
  ASSUME TypeOK, NEW fr \in Frames, EncodeHeader(fr)
  PROVE  /\ Len(sent) + 1 \in 1..MaxFrames /\ Len(sent) \in Nat /\ Len(stream) \in Nat
         /\ sent' \in Seq(Frames) /\ Len(sent') = Len(sent) + 1 /\ sent'[Len(sent) + 1] = fr
         /\ \A g \in 1..Len(sent) : sent'[g] = sent[g]
         /\ starts' \in Seq(Nat) /\ Len(starts') = Len(sent) + 1
         /\ starts'[Len(sent) + 1] = Len(stream)
         /\ \A g \in 1..Len(sent) : starts'[g] = starts[g]
         /\ stream' \in Seq(Byte) /\ Len(stream') = Len(stream) + HeaderSize(fr)
         /\ \A i \in 1..Len(stream) : stream'[i] = stream[i]
         /\ \A k \in 1..HeaderSize(fr) :
              stream'[Len(stream) + k] = [f |-> Len(sent) + 1, off |-> k, key |-> Clear]
<1> DEFINE new == [k \in 1..HeaderSize(fr) |-> [f |-> Len(sent) + 1, off |-> k, key |-> Clear]]
<1>1. Len(sent) \in Nat /\ Len(sent) + 1 \in 1..MaxFrames /\ stream \in Seq(Byte)
      /\ sent \in Seq(Frames) /\ starts \in Seq(Nat) /\ Len(starts) = Len(sent)
  BY MaxFramesAssumption DEF TypeOK, EncodeHeader
<1>2. HeaderSize(fr) \in Nat
  BY FrameSizes
<1>3. \A k \in 1..HeaderSize(fr) : [f |-> Len(sent) + 1, off |-> k, key |-> Clear] \in Byte
  BY <1>1, <1>2 DEF Byte
<1>4. new \in [1..HeaderSize(fr) -> Byte]
  BY <1>3
<1>5. stream' = stream \o new
  BY DEF EncodeHeader
<1>6. \A k \in 1..HeaderSize(fr) : new[k] = [f |-> Len(sent) + 1, off |-> k, key |-> Clear]
  OBVIOUS
<1> HIDE DEF new
<1>7. /\ stream' \in Seq(Byte) /\ Len(stream') = Len(stream) + HeaderSize(fr)
      /\ Len(stream) \in Nat
      /\ \A i \in 1..Len(stream) : stream'[i] = stream[i]
      /\ \A k \in 1..HeaderSize(fr) : stream'[Len(stream) + k] = new[k]
  BY <1>1, <1>2, <1>4, <1>5, Grown
<1>8. /\ sent' \in Seq(Frames) /\ Len(sent') = Len(sent) + 1 /\ sent'[Len(sent) + 1] = fr
      /\ \A g \in 1..Len(sent) : sent'[g] = sent[g]
  <2>1. sent' = Append(sent, fr)
    BY DEF EncodeHeader
  <2> QED
    BY <1>1, <2>1, AppendProperties
<1>9. /\ starts' \in Seq(Nat) /\ Len(starts') = Len(sent) + 1
      /\ starts'[Len(sent) + 1] = Len(stream)
      /\ \A g \in 1..Len(sent) : starts'[g] = starts[g]
  <2>1. starts' = Append(starts, Len(stream))
    BY DEF EncodeHeader
  <2> QED
    BY <1>1, <1>7, <2>1, AppendProperties
<1> QED
  BY <1>1, <1>6, <1>7, <1>8, <1>9

\* A new frame behind those that are written.
LEMMA HeaderInv ==
  ASSUME IInv, NEW fr \in Frames, EncodeHeader(fr)
  PROVE  IInv'
<1>1. TypeOK
  BY DEF IInv
<1>2. /\ Len(sent) + 1 \in 1..MaxFrames /\ Len(sent) \in Nat /\ Len(stream) \in Nat
      /\ sent' \in Seq(Frames) /\ starts' \in Seq(Nat) /\ stream' \in Seq(Byte)
  BY <1>1, HeaderBytes
<1>a. /\ Len(sent') = Len(sent) + 1 /\ sent'[Len(sent) + 1] = fr
      /\ \A g \in 1..Len(sent) : sent'[g] = sent[g]
  BY <1>1, HeaderBytes
<1>b. /\ Len(starts') = Len(sent) + 1 /\ starts'[Len(sent) + 1] = Len(stream)
      /\ \A g \in 1..Len(sent) : starts'[g] = starts[g]
  BY <1>1, HeaderBytes
<1>c. Len(stream') = Len(stream) + HeaderSize(fr)
  BY <1>1, HeaderBytes
<1>d. \A i \in 1..Len(stream) : stream'[i] = stream[i]
  BY <1>1, HeaderBytes
<1>e. \A k \in 1..HeaderSize(fr) :
        stream'[Len(stream) + k] = [f |-> Len(sent) + 1, off |-> k, key |-> Clear]
  BY <1>1, HeaderBytes
<1>3. HeaderSize(fr) \in 2..14 /\ fr.size \in Nat /\ fr.mask \in BOOLEAN
  BY FrameSizes
<1>f. HeaderSize(fr) \in Nat
  BY <1>3
<1>g. ASSUME NEW k \in 1..HeaderSize(fr)
      PROVE  stream'[Len(stream) + k].f = Len(sent) + 1
  <2>1. stream'[Len(stream) + k] = [f |-> Len(sent) + 1, off |-> k, key |-> Clear]
    BY <1>e
  <2> QED
    BY <2>1
<1>4. /\ EncodeDone /\ ~closed /\ pos' = 0 /\ closed' = closed /\ bpos' = bpos
      /\ rpos' = rpos /\ phase' = phase /\ hdr' = hdr /\ have' = have /\ got' = got
      /\ errs' = errs
  BY DEF EncodeHeader, decVars
<1>5. sent' # <<>> /\ (sent = <<>> => Len(sent) = 0)
  BY <1>2, <1>a
<1>6. TypeOK'
  <2>1. bpos \in 0..Len(stream) /\ rpos \in 0..bpos /\ bpos - rpos <= BufCap
    BY <1>1 DEF TypeOK
  <2>x. Len(stream) \in Nat /\ HeaderSize(fr) \in Nat
    BY <1>2, <1>f
  <2>y. bpos \in Nat /\ bpos <= Len(stream)
    BY <2>1, <2>x
  <2>z. Len(stream') \in Nat /\ Len(stream) <= Len(stream')
    BY <2>x, <1>c
  <2>2. bpos \in 0..Len(stream')
    BY <2>y, <2>z, <2>x
  <2>3. pos' \in 0..(IF sent' = <<>> THEN 0 ELSE sent'[Len(sent')].size)
    BY <1>2, <1>3, <1>4, <1>5, <1>a
  <2>4. Len(sent') <= MaxFrames /\ Len(starts') = Len(sent')
    BY <1>2, <1>a, <1>b
  <2> QED
    BY <1>1, <1>2, <1>4, <2>1, <2>2, <2>3, <2>4 DEF TypeOK
<1>7. \A f \in 1..Len(sent) : SoFar(f)' = SoFar(f) /\ SoFar(f) \in Nat
  <2> SUFFICES ASSUME NEW f \in 1..Len(sent)
               PROVE  SoFar(f)' = SoFar(f) /\ SoFar(f) \in Nat
    OBVIOUS
  <2>0. f < Len(sent') /\ f \in Nat
    BY <1>2, <1>a
  <2>1. sent[f] \in Frames /\ sent'[f] = sent[f]
    BY <1>1, <1>a, Typed
  <2>2. FrameSize(sent[f]) = HeaderSize(sent[f]) + sent[f].size
        /\ HeaderSize(sent[f]) \in 2..14 /\ sent[f].size \in Nat
    BY <2>1, FrameSizes
  <2>a. FrameSize(sent[f]) \in Nat
    BY <2>1, FrameNat
  <2>3. SoFar(f)' = FrameSize(sent[f])
    BY <2>0, <2>1 DEF SoFar, FrameSize, HeaderSize
  <2>4. CASE f < Len(sent)
    <3>1. SoFar(f) = FrameSize(sent[f])
      BY <2>4 DEF SoFar
    <3> QED
      BY <3>1, <2>3, <2>a
  <2>5. CASE f = Len(sent)
    <3>1. pos = sent[f].size
      BY <1>4, <1>5, <2>5 DEF EncodeDone
    <3>2. SoFar(f) = HeaderSize(sent[f]) + pos
      BY <2>5, <1>2 DEF SoFar
    <3> QED
      BY <3>1, <3>2, <2>2, <2>3, <2>a
  <2> QED
    BY <2>4, <2>5, <1>2
<1>8. ASSUME NEW f, f = Len(sent) + 1
      PROVE  SoFar(f)' = HeaderSize(fr) /\ ~(f < Len(sent'))
  <2>1. ~(f < Len(sent')) /\ sent'[f] = fr
    BY <1>2, <1>8, <1>a
  <2>2. SoFar(f)' = HeaderSize(sent'[f]) + pos'
    BY <2>1 DEF SoFar, HeaderSize
  <2> QED
    BY <2>1, <2>2, <1>4, <1>f
<1>9. Layout'
  <2>1. ASSUME NEW f \in 1..Len(sent')
        PROVE  /\ starts'[f] + SoFar(f)' <= Len(stream')
               /\ starts'[f] + SoFar(f)' = IF f < Len(sent') THEN starts'[f + 1] ELSE Len(stream')
               /\ \A k \in 1..SoFar(f)' :
                     stream'[starts'[f] + k] = [f |-> f, off |-> k, key |-> KeyAt(sent'[f], k)]
    <3>1. CASE f \in 1..Len(sent)
      <4>1. /\ starts[f] + SoFar(f) <= Len(stream)
            /\ starts[f] + SoFar(f) = IF f < Len(sent) THEN starts[f + 1] ELSE Len(stream)
            /\ \A k \in 1..SoFar(f) :
                 stream[starts[f] + k] = [f |-> f, off |-> k, key |-> KeyAt(sent[f], k)]
        BY <3>1 DEF IInv, Layout
      <4>a. starts[f] \in Nat
        BY <3>1, <1>1, Typed
      <4>2. starts'[f] = starts[f] /\ SoFar(f)' = SoFar(f) /\ SoFar(f) \in Nat /\ sent'[f] = sent[f]
        BY <3>1, <1>a, <1>b, <1>7
      <4>3. starts[f] + SoFar(f) = starts'[f + 1]
        <5>1. CASE f < Len(sent)
          <6>1. f + 1 \in 1..Len(sent)
            BY <5>1, <1>2
          <6> QED
            BY <6>1, <5>1, <4>1, <1>b
        <5>2. CASE f = Len(sent)
          BY <5>2, <4>1, <1>2, <1>b
        <5> QED
          BY <5>1, <5>2, <3>1, <1>2
      <4>4. ASSUME NEW k \in 1..SoFar(f)
            PROVE  stream'[starts[f] + k] = stream[starts[f] + k]
        <5>0. SoFar(f) \in Nat /\ starts[f] + SoFar(f) <= Len(stream) /\ Len(stream) \in Nat
          BY <4>1, <4>2, <1>2
        <5>1. starts[f] + k \in 1..Len(stream)
          BY <5>0, <4>a
        <5> QED
          BY <5>1, <1>d
      <4>5. f < Len(sent') /\ starts[f] + SoFar(f) <= Len(stream')
        <5>0. SoFar(f) \in Nat /\ starts[f] + SoFar(f) <= Len(stream) /\ Len(stream) \in Nat
          BY <4>1, <4>2, <1>2
        <5>1. Len(stream') \in Nat /\ Len(stream) <= Len(stream')
          BY <5>0, <1>f, <1>c
        <5> QED
          BY <5>0, <5>1, <4>a, <3>1, <1>2, <1>a
      <4> QED
        BY <4>1, <4>2, <4>3, <4>4, <4>5
    <3>2. CASE f = Len(sent) + 1
      <4>1. \A k \in 1..HeaderSize(fr) : KeyAt(fr, k) = Clear
        BY <1>3, SMTT(60) DEF KeyAt
      <4>2. sent'[f] = fr /\ starts'[f] = Len(stream) /\ SoFar(f)' = HeaderSize(fr)
            /\ ~(f < Len(sent'))
        BY <3>2, <1>a, <1>b, <1>8
      <4>3. \A k \in 1..HeaderSize(fr) :
              stream'[starts'[f] + k] = [f |-> f, off |-> k, key |-> KeyAt(sent'[f], k)]
        BY <4>1, <4>2, <3>2, <1>e
      <4>4. starts'[f] + SoFar(f)' = Len(stream') /\ Len(stream') \in Nat
        BY <4>2, <1>2, <1>3, <1>c
      <4> QED
        BY <4>2, <4>3, <4>4
    <3> QED
      BY <3>1, <3>2, <1>2, <1>a
  <2>2. starts'[1] = 0
    BY <1>2, <1>5, <1>a, <1>b DEF IInv, Layout
  <2>3. \A i \in 1..Len(stream') : stream'[i].f <= Len(sent')
    <3> SUFFICES ASSUME NEW i \in 1..Len(stream')
                 PROVE  stream'[i].f <= Len(sent')
      OBVIOUS
    <3>1. CASE i <= Len(stream)
      <4>0. i \in 1..Len(stream)
        BY <3>1
      <4>1. stream[i].f <= Len(sent) /\ stream[i] \in Byte
        BY <4>0, <1>1, Typed DEF IInv, Layout
      <4>2. stream[i].f \in Nat
        BY <4>1 DEF Byte
      <4> QED
        BY <4>0, <4>1, <4>2, <1>2, <1>a, <1>d
    <3>2. CASE i > Len(stream)
      <4>1. i - Len(stream) \in 1..HeaderSize(fr) /\ Len(stream) + (i - Len(stream)) = i
        <5>0. Len(stream) \in Nat /\ HeaderSize(fr) \in Nat
          BY <1>2, <1>f
        <5>1. i \in 1..(Len(stream) + HeaderSize(fr))
          BY <1>c
        <5> QED
          BY <5>0, <5>1, <3>2
      <4>2. stream'[Len(stream) + (i - Len(stream))].f = Len(sent) + 1
        BY <4>1, <1>g
      <4> QED
        BY <4>1, <4>2, <1>2, <1>a
    <3> QED
      BY <3>1, <3>2, <1>2
  <2>4. pos' % 4 = 0
    BY <1>4
  <2> QED
    BY <2>1, <2>2, <2>3, <2>4, <1>5 DEF Layout
<1>10. Where'
  <2> SUFFICES ASSUME ~errs PROVE Where'
    BY <1>4 DEF Where
  <2>0. Len(got) \in Nat
    BY <1>1, Typed
  <2>1. /\ \A k \in 1..Len(got) : got[k] = k
        /\ Len(got) \in Nat /\ Len(got) <= Len(sent) /\ phase # "crash" /\ phase # "eof"
    BY <2>0, <1>4 DEF IInv, Where
  <2>2. phase = "head" => rpos = starts'[Len(got) + 1]
    <3> SUFFICES ASSUME phase = "head" PROVE rpos = starts'[Len(got) + 1]
      OBVIOUS
    <3>1. IF Len(got) < Len(sent) THEN rpos = starts[Len(got) + 1] ELSE rpos = Len(stream)
      BY DEF IInv, Where
    <3>2. CASE Len(got) < Len(sent)
      <4>1. Len(got) + 1 \in 1..Len(sent)
        BY <3>2, <2>1, <1>2
      <4> QED
        BY <4>1, <3>1, <3>2, <1>b
    <3>3. CASE ~(Len(got) < Len(sent))
      <4>1. Len(got) = Len(sent)
        BY <3>3, <2>1, <1>2
      <4> QED
        BY <4>1, <3>1, <3>3, <1>b
    <3> QED
      BY <3>2, <3>3
  <2>3. phase \in {"extra", "data"} => Len(got) + 1 \in 1..Len(sent)
    BY <2>1, <1>2 DEF IInv, Where
  <2>4. phase \in {"extra", "data"} => /\ starts'[Len(got) + 1] = starts[Len(got) + 1]
                                       /\ sent'[Len(got) + 1] = sent[Len(got) + 1]
    BY <2>3, <1>a, <1>b
  <2>5. Len(got) < Len(sent')
    BY <2>1, <1>2, <1>a
  <2>6. phase \in {"head", "extra", "data"}
    BY <2>1, <1>1 DEF TypeOK
  <2>7. CASE phase = "head"
    BY <2>1, <2>2, <2>5, <2>7, <1>4 DEF Where
  <2>8. CASE phase = "extra"
    BY <2>1, <2>4, <2>5, <2>8, <1>4 DEF IInv, Where, HeadOf
  <2>9. CASE phase = "data"
    BY <2>1, <2>4, <2>5, <2>9, <1>4 DEF IInv, Where
  <2> QED
    BY <2>6, <2>7, <2>8, <2>9
<1>11. hdr'.f <= Len(sent')
  <2>1. hdr.f \in Nat /\ hdr.f <= Len(sent)
    BY <1>1 DEF TypeOK, IInv
  <2> QED
    BY <2>1, <1>2, <1>4, <1>a
<1> QED
  BY <1>6, <1>9, <1>10, <1>11 DEF IInv

\* The last frame goes on behind what is written of it.
LEMMA PayloadBytes ==
  ASSUME TypeOK, EncodePayload
  PROVE  /\ Len(sent) \in 1..MaxFrames /\ sent[Len(sent)] \in Frames /\ pos \in Nat
         /\ \E n \in Nat \ {0} :
              /\ pos' = pos + n /\ pos + n <= sent[Len(sent)].size
              /\ pos + n = sent[Len(sent)].size \/ n = Chunk
              /\ stream' \in Seq(Byte) /\ Len(stream') = Len(stream) + n
              /\ \A i \in 1..Len(stream) : stream'[i] = stream[i]
              /\ \A k \in 1..n :
                   stream'[Len(stream) + k] =
                     [f |-> Len(sent), off |-> HeaderSize(sent[Len(sent)]) + pos + k,
                      key |-> IF sent[Len(sent)].mask THEN (k - 1) % 4 ELSE Clear]
<1> DEFINE fr == sent[Len(sent)]
           left == fr.size - pos
           n == IF fr.mask /\ left > Chunk THEN Chunk ELSE left
           byte(k) == [f |-> Len(sent), off |-> HeaderSize(fr) + pos + k,
                       key |-> IF fr.mask THEN (k - 1) % 4 ELSE Clear]
           new == [k \in 1..n |-> byte(k)]
<1>1. sent # <<>> /\ pos # fr.size /\ sent \in Seq(Frames) /\ stream \in Seq(Byte)
      /\ Len(sent) <= MaxFrames
  BY DEF EncodePayload, EncodeDone, TypeOK
<1>2. Len(sent) \in 1..MaxFrames
  BY <1>1, EmptySeq, MaxFramesAssumption
<1>3. fr \in Frames
  BY <1>1, <1>2, Typed
<1>4. fr.size \in Nat /\ HeaderSize(fr) \in Nat /\ fr.mask \in BOOLEAN
  BY <1>3, FrameNat
<1>5. pos \in 0..fr.size
  BY <1>1 DEF TypeOK
<1>6. left \in Nat \ {0} /\ pos + left = fr.size
  BY <1>1, <1>4, <1>5
<1>7. n \in Nat \ {0} /\ n <= left /\ (n = left \/ n = Chunk)
  BY <1>6, ChunkAssumption
<1>8. stream' = stream \o new /\ pos' = pos + n
  BY DEF EncodePayload, EncodeKey
<1> HIDE DEF left, n
<1>9. \A k \in 1..n : byte(k) \in Byte
  <2> SUFFICES ASSUME NEW k \in 1..n PROVE byte(k) \in Byte
    OBVIOUS
  <2>1. k \in Nat /\ (k - 1) % 4 \in 0..3
    BY <1>7
  <2>2. HeaderSize(fr) + pos + k \in Nat
    BY <2>1, <1>4, <1>5
  <2>3. (IF fr.mask THEN (k - 1) % 4 ELSE Clear) \in {Clear} \cup 0..3
    BY <2>1
  <2> QED
    BY <2>2, <2>3, <1>2 DEF Byte
<1> HIDE DEF byte, fr
<1>10. new \in [1..n -> Byte] /\ \A k \in 1..n : new[k] = byte(k)
  BY <1>9
<1> HIDE DEF new
<1>11. /\ stream' \in Seq(Byte) /\ Len(stream') = Len(stream) + n
       /\ \A i \in 1..Len(stream) : stream'[i] = stream[i]
       /\ \A k \in 1..n : stream'[Len(stream) + k] = new[k]
  <2>1. stream \in Seq(Byte) /\ n \in Nat /\ new \in [1..n -> Byte]
    BY <1>1, <1>7, <1>10
  <2>2. stream' = stream \o new
    BY <1>8
  <2> QED
    BY <2>1, <2>2, Grown
<1>12. \A k \in 1..n : stream'[Len(stream) + k] = byte(k)
  BY <1>10, <1>11
<1>13. pos + n <= fr.size /\ (pos + n = fr.size \/ n = Chunk)
  BY <1>4, <1>5, <1>6, <1>7
<1>14. \E m \in Nat \ {0} :
         /\ pos' = pos + m /\ pos + m <= fr.size
         /\ pos + m = fr.size \/ m = Chunk
         /\ stream' \in Seq(Byte) /\ Len(stream') = Len(stream) + m
         /\ \A i \in 1..Len(stream) : stream'[i] = stream[i]
         /\ \A k \in 1..m : stream'[Len(stream) + k] = byte(k)
  BY <1>7, <1>8, <1>11, <1>12, <1>13
<1> QED
  BY <1>2, <1>3, <1>4, <1>5, <1>14 DEF fr, byte

\* More of the payload of the last frame, in whole turns of the key.
LEMMA PayloadInv ==
  ASSUME IInv, EncodePayload
  PROVE  IInv'
<1> DEFINE f == Len(sent)
           fr == sent[f]
           key(k) == IF fr.mask THEN (k - 1) % 4 ELSE Clear
<1>1. TypeOK
  BY DEF IInv
<1>2. f \in 1..MaxFrames /\ fr \in Frames /\ pos \in Nat
  BY <1>1, PayloadBytes
<1>3. PICK n \in Nat \ {0} :
        /\ pos' = pos + n /\ pos + n <= fr.size
        /\ pos + n = fr.size \/ n = Chunk
        /\ stream' \in Seq(Byte) /\ Len(stream') = Len(stream) + n
        /\ \A i \in 1..Len(stream) : stream'[i] = stream[i]
        /\ \A k \in 1..n : stream'[Len(stream) + k] =
                             [f |-> f, off |-> HeaderSize(fr) + pos + k, key |-> key(k)]
  BY <1>1, PayloadBytes
<1>4. /\ ~EncodeDone /\ sent # <<>> /\ ~closed /\ sent' = sent /\ starts' = starts
      /\ closed' = closed /\ bpos' = bpos /\ rpos' = rpos /\ phase' = phase /\ hdr' = hdr
      /\ have' = have /\ got' = got /\ errs' = errs
  BY DEF EncodePayload, decVars, EncodeDone
<1>5. HeaderSize(fr) \in Nat /\ fr.size \in Nat /\ fr.mask \in BOOLEAN /\ Len(stream) \in Nat
  <2>1. HeaderSize(fr) \in 2..14 /\ fr.size \in Nat /\ fr.mask \in BOOLEAN
    BY <1>2, FrameSizes
  <2>2. Len(stream) \in Nat
    BY <1>1, Typed
  <2> QED
    BY <2>1, <2>2
<1>6. pos % 4 = 0
  BY <1>4 DEF IInv, Layout
<1>7. TypeOK'
  <2>1. bpos \in Nat /\ bpos <= Len(stream) /\ rpos \in 0..bpos /\ bpos - rpos <= BufCap
    BY <1>1, <1>5 DEF TypeOK
  <2>2. bpos \in 0..Len(stream')
    BY <2>1, <1>3, <1>5
  <2>3. pos' \in 0..(IF sent' = <<>> THEN 0 ELSE sent'[Len(sent')].size)
    BY <1>2, <1>3, <1>4, <1>5
  <2>4. stream' \in Seq(Byte)
    BY <1>3
  <2> QED
    BY <1>1, <1>4, <2>1, <2>2, <2>3, <2>4 DEF TypeOK
<1>8. \A g \in 1..Len(sent) : g < f => SoFar(g)' = SoFar(g) /\ SoFar(g) \in Nat
  <2> SUFFICES ASSUME NEW g \in 1..Len(sent), g < f
               PROVE  SoFar(g)' = SoFar(g) /\ SoFar(g) \in Nat
    OBVIOUS
  <2>1. sent[g] \in Frames
    BY <1>1, Typed
  <2>2. FrameSize(sent[g]) \in Nat
    <3>1. HeaderSize(sent[g]) \in 2..14 /\ sent[g].size \in Nat
      BY <2>1, FrameSizes
    <3>2. FrameSize(sent[g]) = HeaderSize(sent[g]) + sent[g].size
      BY DEF FrameSize
    <3> QED
      BY <3>1, <3>2, SMTT(60)
  <2>3. SoFar(g) = FrameSize(sent[g])
    BY DEF SoFar
  <2>4. SoFar(g)' = FrameSize(sent[g])
    BY <1>4 DEF SoFar, FrameSize, HeaderSize
  <2> QED
    BY <2>2, <2>3, <2>4
<1>9. SoFar(f) = HeaderSize(fr) + pos
  BY <1>2 DEF SoFar
<1>10. ASSUME NEW g, g = f
       PROVE  SoFar(g)' = HeaderSize(fr) + pos + n
  <2>1. ~(g < Len(sent')) /\ sent'[g] = fr
    BY <1>2, <1>4, <1>10
  <2>2. SoFar(g)' = HeaderSize(sent'[g]) + pos'
    BY <2>1 DEF SoFar, HeaderSize
  <2>3. pos' = pos + n
    BY <1>3
  <2> QED
    BY <2>1, <2>2, <2>3, <1>2, <1>5
<1>11. EncodeDone' \/ pos' % 4 = 0
  <2>1. CASE pos + n = fr.size
    BY <2>1, <1>3, <1>4 DEF EncodeDone
  <2>2. CASE n = Chunk
    <3>1. (pos + n) % 4 = 0
      BY <2>2, <1>2, <1>6, KeysAnew, ChunkAssumption
    <3> QED
      BY <3>1, <1>3
  <2> QED
    BY <2>1, <2>2, <1>3
<1>12. ASSUME NEW k \in 1..n
       PROVE  KeyAt(fr, HeaderSize(fr) + pos + k) = key(k)
  <2> SUFFICES ASSUME NEW x, x = HeaderSize(fr) + pos + k
               PROVE  KeyAt(fr, x) = key(k)
    OBVIOUS
  <2>1. k - 1 \in Nat /\ x > HeaderSize(fr) /\ x - HeaderSize(fr) - 1 = pos + (k - 1)
    BY <1>2, <1>5
  <2>2. (pos + (k - 1)) % 4 = (k - 1) % 4
    BY <2>1, <1>2, <1>6, KeysAnew
  <2>3. (x - HeaderSize(fr) - 1) % 4 = (k - 1) % 4
    BY <2>1, <2>2
  <2> QED
    BY <2>1, <2>3 DEF KeyAt
<1>13. ASSUME NEW g \in 1..Len(sent)
       PROVE  /\ starts'[g] + SoFar(g)' <= Len(stream')
              /\ starts'[g] + SoFar(g)' = IF g < Len(sent') THEN starts'[g + 1] ELSE Len(stream')
              /\ \A k \in 1..SoFar(g)' :
                    stream'[starts'[g] + k] = [f |-> g, off |-> k, key |-> KeyAt(sent'[g], k)]
  <2>1. /\ starts[g] + SoFar(g) <= Len(stream)
        /\ starts[g] + SoFar(g) = IF g < Len(sent) THEN starts[g + 1] ELSE Len(stream)
        /\ \A k \in 1..SoFar(g) :
             stream[starts[g] + k] = [f |-> g, off |-> k, key |-> KeyAt(sent[g], k)]
    BY DEF IInv, Layout
  <2>2. starts[g] \in Nat
    BY <1>1, Typed
  <2>3. SoFar(g) \in Nat
    BY <1>2, <1>5, <1>8, <1>9
  <2>4. \A k \in 1..SoFar(g) : starts[g] + k \in 1..Len(stream)
    BY <2>1, <2>2, <2>3, <1>5
  <2>5. \A k \in 1..SoFar(g) : stream'[starts[g] + k] = stream[starts[g] + k]
    BY <2>4, <1>3
  <2>6. CASE g < f
    <3>1. SoFar(g)' = SoFar(g)
      BY <2>6, <1>8
    <3>2. starts[g] + SoFar(g) <= Len(stream')
      BY <2>1, <2>2, <2>3, <1>3, <1>5
    <3> QED
      BY <2>1, <2>5, <2>6, <3>1, <3>2, <1>4
  <2>7. CASE g = f
    <3>1. SoFar(g)' = HeaderSize(fr) + pos + n /\ SoFar(g) = HeaderSize(fr) + pos
      BY <2>7, <1>9, <1>10
    <3>2. starts[g] + SoFar(g) = Len(stream) /\ ~(g < Len(sent')) /\ sent'[g] = fr
          /\ starts'[g] = starts[g]
      BY <2>1, <2>7, <1>2, <1>4
    <3>3. starts[g] + SoFar(g)' = Len(stream') /\ Len(stream') \in Nat
      <4>1. SoFar(g) \in Nat /\ SoFar(g)' = SoFar(g) + n /\ Len(stream') = Len(stream) + n
        BY <3>1, <2>3, <1>3
      <4>2. starts[g] + SoFar(g) = Len(stream)
        BY <3>2
      <4>3. Len(stream') \in Nat
        BY <4>1, <1>5
      <4>4. starts[g] + (SoFar(g) + n) = (starts[g] + SoFar(g)) + n
        BY <4>1, <2>2
      <4>5. starts[g] + SoFar(g)' = starts[g] + (SoFar(g) + n)
        BY <4>1
      <4> QED
        BY <4>1, <4>2, <4>3, <4>4, <4>5
    <3>4. ASSUME NEW k \in 1..SoFar(g)'
          PROVE  stream'[starts[g] + k] = [f |-> g, off |-> k, key |-> KeyAt(fr, k)]
      <4>1. CASE k \in 1..SoFar(g)
        BY <4>1, <2>1, <2>5, <2>7
      <4>2. CASE k \notin 1..SoFar(g)
        <5>1. /\ k - SoFar(g) \in 1..n /\ k = HeaderSize(fr) + pos + (k - SoFar(g))
              /\ starts[g] + k = Len(stream) + (k - SoFar(g))
          <6>1. SoFar(g) \in Nat /\ SoFar(g)' = SoFar(g) + n /\ SoFar(g) = HeaderSize(fr) + pos
            BY <3>1, <2>3
          <6>2. starts[g] + SoFar(g) = Len(stream)
            BY <3>2
          <6>3. k \in 1..(SoFar(g) + n)
            BY <6>1
          <6>4. k - SoFar(g) \in 1..n /\ k \in Nat
            BY <4>2, <6>1, <6>3
          <6>5. k = SoFar(g) + (k - SoFar(g)) /\ starts[g] + k = Len(stream) + (k - SoFar(g))
            BY <6>1, <6>2, <6>4, <2>2, SMTT(60)
          <6> QED
            BY <6>1, <6>4, <6>5
        <5>2. stream'[Len(stream) + (k - SoFar(g))] =
                [f |-> f, off |-> HeaderSize(fr) + pos + (k - SoFar(g)),
                 key |-> key(k - SoFar(g))]
          BY <5>1, <1>3
        <5>3. key(k - SoFar(g)) = KeyAt(fr, HeaderSize(fr) + pos + (k - SoFar(g)))
          BY <5>1, <1>12
        <5> HIDE DEF key
        <5> QED
          BY <5>1, <5>2, <5>3, <2>7
      <4> QED
        BY <4>1, <4>2
    <3> QED
      BY <3>2, <3>3, <3>4
  <2> QED
    BY <2>6, <2>7, <1>2
<1>14. ASSUME NEW i \in 1..Len(stream')
       PROVE  stream'[i].f <= Len(sent)
  <2>1. CASE i \in 1..Len(stream)
    BY <2>1, <1>3 DEF IInv, Layout
  <2>2. CASE i \notin 1..Len(stream)
    <3>1. i - Len(stream) \in 1..n /\ Len(stream) + (i - Len(stream)) = i
      BY <2>2, <1>3, <1>5
    <3>2. stream'[Len(stream) + (i - Len(stream))] =
            [f |-> f, off |-> HeaderSize(fr) + pos + (i - Len(stream)), key |-> key(i - Len(stream))]
      BY <3>1, <1>3
    <3> HIDE DEF key
    <3>3. stream'[i].f = f
      BY <3>1, <3>2
    <3> QED
      BY <3>3, <1>2
  <2> QED
    BY <2>1, <2>2
<1>15. Layout'
  BY <1>4, <1>11, <1>13, <1>14 DEF IInv, Layout
<1>16. Where'
  <2> SUFFICES ASSUME ~errs PROVE Where'
    BY <1>4 DEF Where
  <2>1. Where /\ Len(got) \in Nat /\ ~(phase = "eof") /\ EncodeDone = EncodeDone
    BY <1>1, <1>4, Typed DEF IInv, Where
  <2>2. phase = "head" => Len(got) < Len(sent)
    BY <2>1, <1>4 DEF Where
  <2>3. \A g : HeadOf(g)' = [f |-> g, bits |-> SizeBits(sent[g].size),
                             mask |-> sent[g].mask, size |-> 0]
    BY <1>4 DEF HeadOf
  <2> QED
    BY <2>1, <2>2, <2>3, <1>4 DEF Where, HeadOf, HeaderSize
<1> QED
  BY <1>4, <1>7, <1>15, <1>16 DEF IInv

\* Closing changes no byte.
LEMMA CloseInv ==
  ASSUME IInv, Close
  PROVE  IInv'
<1>1. /\ closed' = TRUE /\ sent' = sent /\ starts' = starts /\ pos' = pos /\ stream' = stream
      /\ bpos' = bpos /\ rpos' = rpos /\ phase' = phase /\ hdr' = hdr /\ have' = have
      /\ got' = got /\ errs' = errs
  BY DEF Close, decVars
<1>2. EncodeDone' = EncodeDone /\ Written' = Written /\ Torn' = Torn
  BY <1>1 DEF EncodeDone, Written, Torn
<1>3. TypeOK'
  BY <1>1 DEF IInv, TypeOK
<1>4. Layout'
  BY <1>1, <1>2 DEF IInv, Layout, SoFar, FrameSize, HeaderSize, KeyAt
<1>5. Where'
  BY <1>1, <1>2 DEF IInv, Where, HeadOf, HeaderSize
<1> QED
  BY <1>1, <1>3, <1>4, <1>5 DEF IInv
-----------------------------------------------------------------------------
(* Where the frames are                                                    *)

\* The bytes of a frame, as far as they are written.
LEMMA Bytes ==
  ASSUME IInv, NEW g \in 1..Len(sent), NEW k \in Nat \ {0},
         starts[g] + k <= Len(stream), k <= FrameSize(sent[g])
  PROVE  stream[starts[g] + k] = [f |-> g, off |-> k, key |-> KeyAt(sent[g], k)]
<1>1. TypeOK /\ Layout
  BY DEF IInv
<1>2. sent[g] \in Frames /\ starts[g] \in Nat /\ Len(stream) \in Nat /\ Len(sent) \in Nat
  BY <1>1, Typed
<1>3. HeaderSize(sent[g]) \in Nat /\ sent[g].size \in Nat /\ FrameSize(sent[g]) \in Nat
      /\ FrameSize(sent[g]) = HeaderSize(sent[g]) + sent[g].size
  BY <1>2, FrameNat
<1>4. /\ starts[g] + SoFar(g) = IF g < Len(sent) THEN starts[g + 1] ELSE Len(stream)
      /\ \A j \in 1..SoFar(g) :
           stream[starts[g] + j] = [f |-> g, off |-> j, key |-> KeyAt(sent[g], j)]
  BY <1>1 DEF Layout
<1>5. CASE g < Len(sent)
  <2>1. SoFar(g) = FrameSize(sent[g])
    BY <1>5 DEF SoFar
  <2>2. k \in 1..SoFar(g)
    <3>1. FrameSize(sent[g]) \in Nat
      BY <1>3
    <3> QED
      BY <2>1, <3>1
  <2> QED
    BY <2>2, <1>4
<1>6. CASE ~(g < Len(sent))
  <2>1. SoFar(g) = HeaderSize(sent[g]) + pos /\ pos \in Int
    BY <1>1, <1>6 DEF SoFar, TypeOK
  <2>2. starts[g] + SoFar(g) = Len(stream)
    BY <1>4, <1>6
  <2>3. SoFar(g) \in Int
    BY <2>1, <1>3
  <2>4. k \in 1..SoFar(g)
    BY <2>2, <2>3, <1>2
  <2> QED
    BY <2>4, <1>4
<1> QED
  BY <1>5, <1>6

\* A frame whose bytes are all there ends where the next begins, or is the last.
LEMMA FrameEnd ==
  ASSUME IInv, NEW g \in 1..Len(sent), starts[g] + FrameSize(sent[g]) <= Len(stream)
  PROVE  IF g < Len(sent) THEN starts[g] + FrameSize(sent[g]) = starts[g + 1]
         ELSE starts[g] + FrameSize(sent[g]) = Len(stream) /\ EncodeDone
<1>1. TypeOK /\ Layout
  BY DEF IInv
<1>2. sent[g] \in Frames /\ starts[g] \in Nat /\ Len(stream) \in Nat /\ Len(sent) \in Nat
  BY <1>1, Typed
<1>3. HeaderSize(sent[g]) \in Nat /\ sent[g].size \in Nat /\ FrameSize(sent[g]) \in Nat
      /\ FrameSize(sent[g]) = HeaderSize(sent[g]) + sent[g].size
  BY <1>2, FrameNat
<1>4. starts[g] + SoFar(g) = IF g < Len(sent) THEN starts[g + 1] ELSE Len(stream)
  BY <1>1 DEF Layout
<1>5. CASE g < Len(sent)
  BY <1>4, <1>5 DEF SoFar
<1>6. CASE ~(g < Len(sent))
  <2>1. g = Len(sent) /\ sent # <<>>
    BY <1>2, <1>6
  <2>2. SoFar(g) = HeaderSize(sent[g]) + pos /\ starts[g] + SoFar(g) = Len(stream)
    BY <1>4, <1>6 DEF SoFar
  <2>3. pos \in 0..sent[g].size
    BY <1>1, <2>1 DEF TypeOK
  <2>a. starts[g] + (HeaderSize(sent[g]) + sent[g].size) <= Len(stream)
    BY <1>3
  <2>4. pos = sent[g].size
    BY <2>2, <2>3, <2>a, <1>2, <1>3, SMTT(60)
  <2> QED
    BY <2>1, <2>2, <2>4, <1>3, <1>6 DEF EncodeDone
<1> QED
  BY <1>5, <1>6

\* The header of a frame is written in one go.
LEMMA Begun ==
  ASSUME IInv, NEW g \in 1..Len(sent)
  PROVE  /\ starts[g] + HeaderSize(sent[g]) <= Len(stream)
         /\ g < Len(sent) => starts[g] + FrameSize(sent[g]) <= Len(stream)
<1>1. TypeOK /\ Layout
  BY DEF IInv
<1>2. sent[g] \in Frames /\ starts[g] \in Nat /\ Len(stream) \in Nat
  BY <1>1, Typed
<1>3. HeaderSize(sent[g]) \in Nat /\ sent[g].size \in Nat /\ FrameSize(sent[g]) \in Nat
      /\ FrameSize(sent[g]) = HeaderSize(sent[g]) + sent[g].size
  BY <1>2, FrameNat
<1>4. starts[g] + SoFar(g) <= Len(stream)
  BY <1>1 DEF Layout
<1>5. CASE g < Len(sent)
  <2>1. SoFar(g) = FrameSize(sent[g])
    BY <1>5 DEF SoFar
  <2>2. starts[g] + FrameSize(sent[g]) <= Len(stream)
    BY <2>1, <1>4
  <2>3. HeaderSize(sent[g]) <= FrameSize(sent[g])
    BY <1>3
  <2>4. starts[g] + HeaderSize(sent[g]) <= starts[g] + FrameSize(sent[g])
    BY <2>3, <1>2, <1>3
  <2> QED
    BY <2>2, <2>4, <1>2, <1>3
<1>6. CASE ~(g < Len(sent))
  <2>1. SoFar(g) = HeaderSize(sent[g]) + pos
    BY <1>6 DEF SoFar
  <2>2. pos \in Nat
    BY <1>1 DEF TypeOK
  <2>3. starts[g] + (HeaderSize(sent[g]) + pos) <= Len(stream)
    BY <2>1, <1>4
  <2>4. starts[g] + HeaderSize(sent[g]) <= Len(stream)
    BY <2>2, <2>3, <1>2, <1>3
  <2> QED
    BY <2>4, <1>6
<1> QED
  BY <1>5, <1>6
-----------------------------------------------------------------------------
(* The server's steps                                                      *)

\* The variables of Decode have their types.
ReaderOK ==
  /\ phase \in {"head", "extra", "data", "eof", "crash"}
  /\ hdr \in [f : 0..MaxFrames, bits : 0..(Small + 2), mask : BOOLEAN, size : Nat]
  /\ hdr.f <= Len(sent)
  /\ have \in 0..hdr.size
  /\ got \in Seq(0..MaxFrames)
  /\ errs \in BOOLEAN

\* A Read keeps the rest of what the invariant says.
LEMMA ReadKeeps ==
  ASSUME IInv, UNCHANGED encVars, ReaderOK', Where',
         \/ \E want \in Nat : \E n \in 1..want : Read(want, n)
         \/ UNCHANGED <<bpos, rpos>>
  PROVE  IInv'
<1>1. TypeOK /\ Layout
  BY DEF IInv
<1>2. sent' = sent /\ starts' = starts /\ pos' = pos /\ stream' = stream /\ closed' = closed
  BY DEF encVars
<1>3. Layout'
  BY <1>1, <1>2 DEF Layout, SoFar, FrameSize, HeaderSize, KeyAt, EncodeDone
<1>4. bpos' \in 0..Len(stream) /\ rpos' \in 0..bpos' /\ bpos' - rpos' <= BufCap
  <2>1. CASE UNCHANGED <<bpos, rpos>>
    BY <2>1, <1>1 DEF TypeOK
  <2>2. CASE \E want \in Nat : \E n \in 1..want : Read(want, n)
    <3>1. PICK want \in Nat : \E n \in 1..want : Read(want, n)
      BY <2>2
    <3>2. PICK n \in 1..want : Read(want, n)
      BY <3>1
    <3> QED
      BY <3>2, <1>1, ReadBounds
  <2> QED
    BY <2>1, <2>2
<1>5. TypeOK'
  BY <1>1, <1>2, <1>4 DEF TypeOK, ReaderOK
<1> QED
  BY <1>3, <1>5 DEF IInv, ReaderOK

\* After an error nothing is claimed of the reader but its types.
LEMMA FailKeeps ==
  ASSUME TypeOK, UNCHANGED encVars, Fail
  PROVE  ReaderOK' /\ Where' /\ errs' = TRUE
<1>1. Len(sent') \in Nat /\ MaxFrames \in Nat
  BY Typed, MaxFramesAssumption DEF encVars
<1>2. NoHead \in [f : 0..MaxFrames, bits : 0..(Small + 2), mask : BOOLEAN, size : Nat]
      /\ NoHead.f = 0 /\ NoHead.size = 0
  BY <1>1, SizeClasses DEF NoHead
<1>3. /\ errs' = TRUE /\ phase' = "head" /\ hdr' = NoHead /\ have' = 0 /\ got' = got
  BY DEF Fail
<1> QED
  BY <1>1, <1>2, <1>3 DEF ReaderOK, Where, TypeOK

\* Types after the size of the payload is known.
LEMMA SizedTypes ==
  ASSUME TypeOK, UNCHANGED encVars, NEW h, Sized(h),
         h \in [f : 0..MaxFrames, bits : 0..(Small + 2), mask : BOOLEAN, size : Nat],
         h.f <= Len(sent)
  PROVE  ReaderOK' /\ errs' = errs
<1>1. Len(sent) \in Nat /\ sent' = sent /\ MaxFrames \in Nat
  BY Typed, MaxFramesAssumption DEF encVars
<1>2. NoHead \in [f : 0..MaxFrames, bits : 0..(Small + 2), mask : BOOLEAN, size : Nat]
      /\ NoHead.f = 0 /\ NoHead.size = 0
  BY <1>1, SizeClasses DEF NoHead
<1>3. have' = 0 /\ errs' = errs /\ errs \in BOOLEAN /\ got \in Seq(0..MaxFrames)
  BY DEF Sized, TypeOK
<1>4. h.f \in 0..MaxFrames /\ h.size \in Nat
  OBVIOUS
<1>5. CASE h.size = 0
  <2>1. phase' = "head" /\ hdr' = NoHead /\ got' = Append(got, h.f)
    BY <1>5 DEF Sized
  <2>2. got' \in Seq(0..MaxFrames)
    BY <2>1, <1>3, <1>4, AppendProperties
  <2> QED
    BY <2>1, <2>2, <1>1, <1>2, <1>3 DEF ReaderOK
<1>6. CASE h.size # 0
  BY <1>1, <1>3, <1>4, <1>6 DEF ReaderOK, Sized
<1> QED
  BY <1>5, <1>6

\* The next frame is handed over when its last byte is taken.
LEMMA Returned ==
  ASSUME IInv, UNCHANGED encVars, ~errs, NEW g \in 1..Len(sent), g = Len(got) + 1,
         rpos' = starts[g] + FrameSize(sent[g]), starts[g] + FrameSize(sent[g]) <= Len(stream),
         got' = Append(got, g), phase' = "head"
  PROVE  Where'
<1>1. sent' = sent /\ starts' = starts /\ stream' = stream /\ EncodeDone' = EncodeDone
  BY DEF encVars, EncodeDone
<1>2. TypeOK /\ Where
  BY DEF IInv
<1>3. Len(sent) \in Nat /\ Len(got) \in Nat /\ got \in Seq(0..MaxFrames) /\ g \in 0..MaxFrames
  <2>1. Len(sent) \in Nat /\ Len(got) \in Nat /\ Len(sent) <= MaxFrames /\ MaxFrames \in Nat
    BY <1>2, Typed, MaxFramesAssumption DEF TypeOK
  <2>2. got \in Seq(0..MaxFrames)
    BY <1>2 DEF TypeOK
  <2> QED
    BY <2>1, <2>2
<1>4. /\ Len(got') = g /\ got'[g] = g
      /\ \A k \in 1..Len(got) : got'[k] = got[k]
  BY <1>3, AppendProperties
<1>5. \A k \in 1..Len(got) : got[k] = k
  BY <1>2 DEF Where
<1>6. \A k \in 1..g : got'[k] = k
  BY <1>3, <1>4, <1>5
<1>7. IF g < Len(sent) THEN rpos' = starts[g + 1] ELSE rpos' = Len(stream) /\ EncodeDone
  BY FrameEnd
<1>8. g <= Len(sent)
  BY <1>3
<1> QED
  BY <1>1, <1>4, <1>6, <1>7, <1>8 DEF Where

\* The next frame when the size of its payload is known.
LEMMA SizedWhere ==
  ASSUME IInv, UNCHANGED encVars, ~errs, NEW g \in 1..Len(sent), g = Len(got) + 1,
         rpos' = starts[g] + HeaderSize(sent[g]), rpos' <= Len(stream),
         NEW h, Sized(h), h.f = g, h.size = sent[g].size
  PROVE  Where'
<1>1. sent[g] \in Frames /\ starts[g] \in Nat /\ Len(got) \in Nat /\ Len(sent) \in Nat
  BY Typed DEF IInv
<1>2. HeaderSize(sent[g]) \in Nat /\ sent[g].size \in Nat
      /\ FrameSize(sent[g]) = HeaderSize(sent[g]) + sent[g].size
  BY <1>1, FrameNat
<1>3. CASE h.size = 0
  <2>1. phase' = "head" /\ got' = Append(got, g)
    BY <1>3 DEF Sized
  <2>2. FrameSize(sent[g]) = HeaderSize(sent[g])
    BY <1>2, <1>3
  <2> QED
    BY <2>1, <2>2, Returned
<1>4. CASE h.size # 0
  <2>1. phase' = "data" /\ hdr' = h /\ got' = got /\ have' = 0
    BY <1>4 DEF Sized
  <2>2. sent' = sent /\ starts' = starts
    BY DEF encVars
  <2>3. Len(got) < Len(sent) /\ \A k \in 1..Len(got) : got[k] = k
    BY <1>1 DEF IInv, Where
  <2>4. 0 < h.size /\ rpos' = starts[g] + HeaderSize(sent[g]) + 0
    BY <1>1, <1>2, <1>4
  <2> QED
    BY <1>1, <2>1, <2>2, <2>3, <2>4 DEF Where, HeaderSize
<1> QED
  BY <1>3, <1>4

LEMMA NothingClaimed ==
  ASSUME errs, errs' = errs
  PROVE  Where'
  BY DEF Where

\* The reader inside the next frame.
LEMMA Inside ==
  ASSUME TypeOK, UNCHANGED encVars, got' = got, NEW g \in 1..Len(sent), g = Len(got) + 1,
         \A k \in 1..Len(got) : got[k] = k,
         \/ /\ phase' = "extra" /\ rpos' = starts[g] + 2 /\ hdr' = HeadOf(g)
            /\ ExtraSize(hdr'.mask, hdr'.bits) # 0
         \/ /\ phase' = "data" /\ hdr'.f = g /\ hdr'.size = sent[g].size /\ have' < hdr'.size
            /\ rpos' = starts[g] + HeaderSize(sent[g]) + have'
  PROVE  Where'
<1>1. sent' = sent /\ starts' = starts /\ Len(got) \in Nat /\ Len(sent) \in Nat
  BY Typed DEF encVars
<1>2. Len(got) < Len(sent) /\ Len(got) <= Len(sent)
  BY <1>1
<1>3. HeadOf(g) = [f |-> g, bits |-> SizeBits(sent[g].size), mask |-> sent[g].mask, size |-> 0]
  BY DEF HeadOf
<1>4. CASE phase' = "extra"
  <2>1. /\ rpos' = starts[Len(got) + 1] + 2 /\ ExtraSize(hdr'.mask, hdr'.bits) # 0
        /\ hdr' = [f |-> Len(got) + 1, bits |-> SizeBits(sent[Len(got) + 1].size),
                   mask |-> sent[Len(got) + 1].mask, size |-> 0]
    BY <1>3, <1>4
  <2> QED
    BY <2>1, <1>1, <1>2, <1>4 DEF Where, HeadOf
<1>5. CASE phase' = "data"
  <2>1. /\ hdr'.f = Len(got) + 1 /\ hdr'.size = sent[Len(got) + 1].size /\ have' < hdr'.size
        /\ rpos' = starts[Len(got) + 1] + HeaderSize(sent[Len(got) + 1]) + have'
    BY <1>5
  <2> QED
    BY <2>1, <1>1, <1>2, <1>5 DEF Where, HeaderSize
<1> QED
  BY <1>4, <1>5

LEMMA ReadHeadInv ==
  ASSUME IInv, NEW n \in 1..2, ReadHead(n)
  PROVE  IInv'
<1>1. TypeOK /\ UNCHANGED encVars /\ Read(2, n) /\ phase = "head"
  BY DEF IInv, ReadHead
<1>2. Len(sent) \in Nat /\ Len(got) \in Nat /\ sent' = sent /\ starts' = starts
  BY <1>1, Typed DEF encVars
<1>3. rpos' = rpos + n /\ rpos \in Nat /\ Len(stream) \in Nat /\ rpos + n <= Len(stream)
  BY <1>1, ReadBounds
<1>4. ReaderOK' /\ Where'
  <2>1. CASE Fail
    BY <1>1, <2>1, FailKeeps
  <2>2. ASSUME n = 2, NEW h, Headed(h),
               h \in [f : 0..MaxFrames, bits : 0..(Small + 2), mask : BOOLEAN, size : {0}],
               h.f <= Len(sent)
        PROVE  ReaderOK' /\ errs' = errs
    <3>1. h \in [f : 0..MaxFrames, bits : 0..(Small + 2), mask : BOOLEAN, size : Nat]
          /\ h.bits \in Nat /\ h.f \in Nat /\ h.size = 0
      BY <2>2, SizeClasses, MaxFramesAssumption
    <3>2. CASE ExtraSize(h.mask, h.bits) = 0
      <4>1. Sized([h EXCEPT !.size = h.bits])
        BY <2>2, <3>2 DEF Headed
      <4>2. [h EXCEPT !.size = h.bits] \in
              [f : 0..MaxFrames, bits : 0..(Small + 2), mask : BOOLEAN, size : Nat]
            /\ [h EXCEPT !.size = h.bits].f = h.f
        BY <3>1
      <4> QED
        BY <4>1, <4>2, <1>1, <2>2, SizedTypes
    <3>3. CASE ExtraSize(h.mask, h.bits) # 0
      <4>1. phase' = "extra" /\ hdr' = h /\ have' = 0 /\ got' = got /\ errs' = errs
        BY <2>2, <3>3 DEF Headed
      <4> QED
        BY <4>1, <3>1, <1>1, <1>2, <2>2 DEF ReaderOK, TypeOK
    <3> QED
      BY <3>2, <3>3
  <2>3. ASSUME n = 2, NEW f \in 1..Len(sent), Takes(f, 1, 2), Headed(HeadOf(f))
        PROVE  ReaderOK' /\ Where'
    <3>1. sent[f] \in Frames /\ f \in 0..MaxFrames
      <4>1. sent[f] \in Frames /\ Len(sent) <= MaxFrames
        BY <1>1, Typed DEF TypeOK
      <4> QED
        BY <4>1, <1>2, MaxFramesAssumption
    <3>2. SizeBits(sent[f].size) \in 0..(Small + 2) /\ sent[f].mask \in BOOLEAN
      BY <3>1, FrameSizes
    <3>3. /\ HeadOf(f) \in [f : 0..MaxFrames, bits : 0..(Small + 2), mask : BOOLEAN, size : {0}]
          /\ HeadOf(f).f = f /\ f <= Len(sent)
      BY <3>1, <3>2, <1>2 DEF HeadOf
    <3>4. ReaderOK' /\ errs' = errs
      BY <3>3, <2>2, <2>3
    <3>5. CASE errs
      BY <3>4, <3>5 DEF Where
    <3>6. CASE ~errs
      <4>1. rpos + 1 <= Len(stream) /\ rpos # Len(stream)
        BY <1>3
      <4>2. Len(got) < Len(sent) /\ rpos = starts[Len(got) + 1]
            /\ \A k \in 1..Len(got) : got[k] = k
        BY <1>1, <3>6, <4>1 DEF IInv, Where
      <4>3. PICK g \in 1..Len(sent) : g = Len(got) + 1
        BY <1>2, <4>2
      <4>4. sent[g] \in Frames /\ starts[g] \in Nat
        BY <1>1, Typed
      <4>5. HeaderSize(sent[g]) \in Nat /\ HeaderSize(sent[g]) >= 2 /\ sent[g].size \in Nat
            /\ FrameSize(sent[g]) = HeaderSize(sent[g]) + sent[g].size
        BY <4>4, FrameNat
      <4>6. 1 <= FrameSize(sent[g]) /\ rpos = starts[g]
        BY <4>2, <4>3, <4>5
      <4>7. stream[rpos + 1] = [f |-> g, off |-> 1, key |-> KeyAt(sent[g], 1)]
        BY <4>1, <4>6, Bytes
      <4>8. f = g
        <5>1. stream[rpos + 1].f = f
          BY <2>3 DEF Takes
        <5> QED
          BY <5>1, <4>7
      <4>9. CASE ExtraSize(HeadOf(f).mask, HeadOf(f).bits) = 0
        <5>1. Sized([HeadOf(f) EXCEPT !.size = HeadOf(f).bits])
          BY <2>3, <4>9 DEF Headed
        <5>2. ExtraSize(sent[g].mask, SizeBits(sent[g].size)) = 0
          BY <4>8, <4>9 DEF HeadOf
        <5>3. SizeBits(sent[g].size) <= Small
          BY <5>2, <3>2, <4>8, SizeClasses DEF ExtraSize
        <5>4. SizeBits(sent[g].size) = sent[g].size
          BY <5>3, <4>4, FrameSizes
        <5>5. HeaderSize(sent[g]) = 2
          BY <5>2 DEF HeaderSize
        <5>6. /\ [HeadOf(f) EXCEPT !.size = HeadOf(f).bits].f = g
              /\ [HeadOf(f) EXCEPT !.size = HeadOf(f).bits].size = sent[g].size
          BY <5>4, <4>8 DEF HeadOf
        <5>7. rpos' = starts[g] + HeaderSize(sent[g]) /\ rpos' <= Len(stream)
          BY <5>5, <4>6, <1>3, <2>3
        <5> QED
          BY <5>1, <5>6, <5>7, <4>3, <3>4, <3>6, <1>1, SizedWhere
      <4>10. CASE ExtraSize(HeadOf(f).mask, HeadOf(f).bits) # 0
        <5>1. phase' = "extra" /\ hdr' = HeadOf(f) /\ got' = got
          BY <2>3, <4>10 DEF Headed
        <5>3. rpos' = starts[g] + 2
          BY <4>6, <1>3, <2>3
        <5> QED
          BY <3>4, <5>1, <5>3, <4>2, <4>3, <4>8, <4>10, <1>1, Inside
      <4> QED
        BY <4>9, <4>10, <3>4
    <3> QED
      BY <3>5, <3>6, <3>4
  <2>4. ASSUME n = 2, ~ \E f \in 1..Len(sent) : Takes(f, 1, 2), NEW h \in AnyHead, Headed(h)
        PROVE  ReaderOK' /\ Where'
    <3>1. h \in [f : 0..MaxFrames, bits : 0..(Small + 2), mask : BOOLEAN, size : {0}]
          /\ h.f <= Len(sent)
      BY <1>2, MaxFramesAssumption DEF AnyHead
    <3>2. ReaderOK' /\ errs' = errs
      BY <3>1, <2>2, <2>4
    <3>3. CASE errs
      BY <3>2, <3>3 DEF Where
    <3>4. CASE ~errs
      <4>1. rpos + 1 <= Len(stream) /\ rpos + 2 <= Len(stream) /\ rpos # Len(stream)
        BY <1>3, <2>4
      <4>2. Len(got) < Len(sent) /\ rpos = starts[Len(got) + 1]
        BY <1>1, <3>4, <4>1 DEF IInv, Where
      <4>3. PICK g \in 1..Len(sent) : g = Len(got) + 1
        BY <1>2, <4>2
      <4>4. sent[g] \in Frames
        BY <1>1, Typed
      <4>5. HeaderSize(sent[g]) \in Nat /\ HeaderSize(sent[g]) >= 2 /\ sent[g].size \in Nat
            /\ FrameSize(sent[g]) = HeaderSize(sent[g]) + sent[g].size
        BY <4>4, FrameNat
      <4>6. 1 <= FrameSize(sent[g]) /\ 2 <= FrameSize(sent[g]) /\ rpos = starts[g]
        BY <4>2, <4>3, <4>5
      <4>7. stream[rpos + 1] = [f |-> g, off |-> 1, key |-> KeyAt(sent[g], 1)]
            /\ stream[rpos + 2] = [f |-> g, off |-> 2, key |-> KeyAt(sent[g], 2)]
        BY <4>1, <4>6, Bytes
      <4>8. Takes(g, 1, 2)
        BY <4>7 DEF Takes
      <4> QED
        BY <4>8, <2>4
    <3> QED
      BY <3>3, <3>4, <3>2
  <2> QED
    BY <2>1, <2>3, <2>4 DEF ReadHead
<1> QED
  BY <1>1, <1>4, ReadKeeps

LEMMA ReadExtraInv ==
  ASSUME IInv, NEW n \in 1..12, ReadExtra(n)
  PROVE  IInv'
<1> DEFINE extra == ExtraSize(hdr.mask, hdr.bits)
           Header == [f : 0..MaxFrames, bits : 0..(Small + 2), mask : BOOLEAN, size : Nat]
<1>1. TypeOK /\ UNCHANGED encVars /\ Read(extra, n) /\ phase = "extra"
  BY DEF IInv, ReadExtra
<1>2. Len(sent) \in Nat /\ Len(got) \in Nat /\ sent' = sent /\ starts' = starts
  BY <1>1, Typed DEF encVars
<1>3. hdr \in Header /\ hdr.f \in 0..MaxFrames /\ hdr.f <= Len(sent) /\ hdr.bits \in Nat
      /\ hdr.mask \in BOOLEAN /\ hdr.bits \in 0..(Small + 2)
  BY SizeClasses, MaxFramesAssumption DEF IInv, TypeOK
<1>4. extra \in 0..12
  BY <1>3, ExtraSizes
<1> HIDE DEF extra
<1>5. rpos' = rpos + n /\ rpos \in Nat /\ Len(stream) \in Nat /\ rpos + n <= Len(stream)
      /\ n \in 1..extra
  <2>1. extra \in Nat
    BY <1>4
  <2> QED
    BY <1>1, <2>1, ReadBounds
<1>6. ASSUME n = extra, ~errs
      PROVE  /\ hdr.f # 0 /\ Takes(hdr.f, 3, extra) /\ hdr.f \in 1..Len(sent)
             /\ hdr.f = Len(got) + 1 /\ rpos' = starts[hdr.f] + HeaderSize(sent[hdr.f])
  <2>1. Len(got) < Len(sent) /\ rpos = starts[Len(got) + 1] + 2 /\ hdr = HeadOf(Len(got) + 1)
    BY <1>1, <1>6 DEF IInv, Where
  <2>2. PICK g \in 1..Len(sent) : g = Len(got) + 1
    BY <1>2, <2>1
  <2>3. hdr.f = g /\ hdr.mask = sent[g].mask /\ hdr.bits = SizeBits(sent[g].size)
    BY <2>1, <2>2 DEF HeadOf
  <2>4. sent[g] \in Frames /\ starts[g] \in Nat
    BY <1>1, Typed
  <2>5. HeaderSize(sent[g]) = 2 + extra
    BY <2>3 DEF HeaderSize, extra
  <2>6. FrameSize(sent[g]) = HeaderSize(sent[g]) + sent[g].size /\ sent[g].size \in Nat
    BY <2>4, FrameNat
  <2>7. rpos = starts[g] + 2
    BY <2>1, <2>2
  <2>8. ASSUME NEW k \in 1..extra
        PROVE  stream[rpos + k].f = g /\ stream[rpos + k].off = 3 + k - 1
    <3>0. extra \in Nat /\ rpos + extra <= Len(stream) /\ k \in Nat /\ k <= extra
      BY <1>4, <1>5, <1>6
    <3>1. 2 + k \in Nat \ {0} /\ rpos + k = starts[g] + (2 + k) /\ rpos + k <= Len(stream)
      <4>1. starts[g] \in Nat
        BY <2>4
      <4>2. rpos \in Nat /\ Len(stream) \in Nat
        BY <1>5
      <4>3. rpos + k <= Len(stream)
        BY <3>0, <4>2
      <4>4. rpos + k = starts[g] + (2 + k)
        BY <3>0, <4>1, <2>7, SMTT(60)
      <4> QED
        BY <3>0, <4>3, <4>4
    <3>2. 2 + k <= FrameSize(sent[g])
      BY <2>5, <2>6, <1>4
    <3>3. stream[starts[g] + (2 + k)] = [f |-> g, off |-> 2 + k, key |-> KeyAt(sent[g], 2 + k)]
      BY <3>1, <3>2, Bytes
    <3>4. 2 + k = 3 + k - 1
      BY <1>4
    <3> QED
      BY <3>1, <3>3, <3>4
  <2>9. Takes(g, 3, extra)
    BY <2>8 DEF Takes
  <2>10. rpos' = starts[g] + HeaderSize(sent[g])
    <3>1. n \in Nat /\ HeaderSize(sent[g]) = 2 + n
      BY <2>5, <1>6
    <3>2. rpos' = rpos + n
      BY <1>5
    <3> QED
      BY <3>1, <3>2, <2>4, <2>7
  <2> QED
    BY <2>2, <2>3, <2>9, <2>10
<1>7. ReaderOK' /\ Where'
  <2>1. CASE Fail
    BY <1>1, <2>1, FailKeeps
  <2>2. ASSUME n = extra, hdr.f # 0, Takes(hdr.f, 3, extra),
               Sized([hdr EXCEPT !.size = sent[hdr.f].size])
        PROVE  ReaderOK' /\ Where'
    <3> DEFINE h == [hdr EXCEPT !.size = sent[hdr.f].size]
    <3>1. hdr.f \in 1..Len(sent)
      BY <1>2, <1>3, <2>2
    <3>2. sent[hdr.f].size \in Nat
      BY <3>1, <1>1, Typed, FrameNat
    <3>3. h \in Header /\ h.f = hdr.f /\ h.size = sent[hdr.f].size
      BY <3>2, <1>3
    <3>4. Sized(h)
      BY <2>2
    <3> HIDE DEF h
    <3>5. ReaderOK' /\ errs' = errs
      BY <3>3, <3>4, <1>1, <1>3, SizedTypes
    <3>6. CASE errs
      BY <3>5, <3>6 DEF Where
    <3>7. CASE ~errs
      <4>1. /\ hdr.f = Len(got) + 1 /\ rpos' = starts[hdr.f] + HeaderSize(sent[hdr.f])
            /\ rpos' <= Len(stream)
        BY <3>7, <1>5, <1>6, <2>2
      <4>2. UNCHANGED encVars
        BY <1>1
      <4> QED
        BY <3>5, <4>1, <4>2, <3>1, <3>3, <3>4, <3>7, SizedWhere
    <3> QED
      BY <3>5, <3>6, <3>7
  <2>3. ASSUME n = extra, ~(hdr.f # 0 /\ Takes(hdr.f, 3, extra)), NEW size \in Nat,
               Sized([hdr EXCEPT !.f = 0, !.size = size])
        PROVE  ReaderOK' /\ Where'
    <3> DEFINE h == [hdr EXCEPT !.f = 0, !.size = size]
    <3>0. 0 \in 0..MaxFrames /\ size \in Nat /\ hdr \in Header
      BY <1>3, MaxFramesAssumption
    <3>1. h \in Header /\ h.f = 0
      BY <3>0
    <3>2. Sized(h)
      BY <2>3
    <3> HIDE DEF h
    <3>3. h.f <= Len(sent)
      BY <3>1, <1>2
    <3>4. ReaderOK' /\ errs' = errs
      BY <3>1, <3>2, <3>3, <1>1, SizedTypes
    <3>5. errs
      BY <1>6, <2>3
    <3> QED
      BY <3>4, <3>5 DEF Where
  <2>4. ASSUME n = extra, ~(hdr.f # 0 /\ Takes(hdr.f, 3, extra)), phase' = "crash",
               UNCHANGED <<hdr, have, got, errs>>
        PROVE  ReaderOK' /\ Where'
    <3>1. errs
      BY <1>6, <2>4
    <3> QED
      BY <3>1, <2>4, <1>1, <1>2, <1>3 DEF ReaderOK, TypeOK, Where
  <2>5. \A fr \in Frames : fr.size \in Nat
    BY FrameNat
  <2>6. \/ n < extra /\ Fail
        \/ n = extra /\ hdr.f # 0 /\ Takes(hdr.f, 3, extra)
           /\ Sized([hdr EXCEPT !.size = sent[hdr.f].size])
        \/ n = extra /\ ~(hdr.f # 0 /\ Takes(hdr.f, 3, extra))
           /\ Sized([hdr EXCEPT !.f = 0, !.size = hdr.bits])
        \/ /\ n = extra /\ ~(hdr.f # 0 /\ Takes(hdr.f, 3, extra))
           /\ \E fr \in Frames : Sized([hdr EXCEPT !.f = 0, !.size = fr.size])
        \/ /\ n = extra /\ ~(hdr.f # 0 /\ Takes(hdr.f, 3, extra))
           /\ phase' = "crash" /\ UNCHANGED <<hdr, have, got, errs>>
    BY DEF ReadExtra, extra
  <2> QED
    BY <2>1, <2>2, <2>3, <2>4, <2>5, <2>6, <1>3
<1> QED
  <2>1. extra \in Nat
    BY <1>4
  <2> QED
    BY <2>1, <1>1, <1>5, <1>7, ReadKeeps

LEMMA ReadPayloadInv ==
  ASSUME IInv, NEW n \in 1..hdr.size, ReadPayload(n)
  PROVE  IInv'
<1>1. TypeOK /\ UNCHANGED encVars /\ Read(hdr.size - have, n) /\ phase = "data" /\ errs' = errs
  BY DEF IInv, ReadPayload
<1>2. Len(sent) \in Nat /\ Len(got) \in Nat /\ sent' = sent /\ starts' = starts
  BY <1>1, Typed DEF encVars
<1>3. hdr.size \in Nat /\ have \in 0..hdr.size /\ hdr.f \in 0..MaxFrames /\ got \in Seq(0..MaxFrames)
  BY <1>1 DEF TypeOK
<1>4. hdr.size - have \in Nat
  BY <1>3
<1>5. rpos' = rpos + n /\ rpos \in Nat /\ Len(stream) \in Nat /\ rpos + n <= Len(stream)
      /\ n \in 1..(hdr.size - have)
  BY <1>1, <1>4, ReadBounds
<1>6. ReaderOK' /\ Where'
  <2>1. CASE have + n < hdr.size
    <3>1. have' = have + n /\ phase' = phase /\ hdr' = hdr /\ got' = got
      BY <2>1 DEF ReadPayload
    <3>2. have' \in 0..hdr.size
      BY <3>1, <2>1, <1>3, <1>5
    <3>3. ReaderOK'
      BY <3>1, <3>2, <1>1, <1>2 DEF ReaderOK, TypeOK, IInv
    <3>4. CASE errs
      <4>1. errs' = errs
        BY <1>1
      <4> QED
        BY <3>3, <4>1, <3>4, NothingClaimed
    <3>5. CASE ~errs
      <4>1. /\ \A k \in 1..Len(got) : got[k] = k
            /\ Len(got) < Len(sent) /\ hdr.f = Len(got) + 1
            /\ hdr.size = sent[Len(got) + 1].size
            /\ rpos = starts[Len(got) + 1] + HeaderSize(sent[Len(got) + 1]) + have
        BY <1>1, <3>5 DEF IInv, Where
      <4>2. PICK g \in 1..Len(sent) : g = Len(got) + 1
        BY <1>2, <4>1
      <4>3. starts[g] \in Nat /\ HeaderSize(sent[g]) \in Nat
        BY <1>1, Typed, FrameNat
      <4>4. rpos = starts[g] + HeaderSize(sent[g]) + have
        BY <4>1, <4>2
      <4>5. rpos' = starts[g] + HeaderSize(sent[g]) + have'
        BY <4>3, <4>4, <3>1, <1>3, <1>5, SMTT(60)
      <4> QED
        BY <3>3, <4>1, <4>2, <4>5, <3>1, <2>1, <1>1, Inside
    <3> QED
      BY <3>3, <3>4, <3>5
  <2>2. CASE ~(have + n < hdr.size)
    <3>1. phase' = "head" /\ hdr' = NoHead /\ have' = 0 /\ got' = Append(got, Payload(rpos + n))
      BY <2>2 DEF ReadPayload
    <3>2. Payload(rpos + n) \in 0..MaxFrames
      BY <1>3, MaxFramesAssumption DEF Payload
    <3>3. got' \in Seq(0..MaxFrames)
      BY <3>1, <3>2, <1>3, AppendProperties
    <3>4. NoHead \in [f : 0..MaxFrames, bits : 0..(Small + 2), mask : BOOLEAN, size : Nat]
          /\ NoHead.f = 0 /\ NoHead.size = 0
      BY SizeClasses, MaxFramesAssumption DEF NoHead
    <3>5. ReaderOK'
      BY <3>1, <3>3, <3>4, <1>1, <1>2 DEF ReaderOK, TypeOK
    <3>6. CASE errs
      <4>1. errs' = errs
        BY <1>1
      <4> QED
        BY <3>5, <4>1, <3>6, NothingClaimed
    <3>7. CASE ~errs
      <4>1. /\ Len(got) < Len(sent) /\ hdr.f = Len(got) + 1
            /\ hdr.size = sent[Len(got) + 1].size
            /\ rpos = starts[Len(got) + 1] + HeaderSize(sent[Len(got) + 1]) + have
        BY <1>1, <3>7 DEF IInv, Where
      <4>2. PICK g \in 1..Len(sent) : g = Len(got) + 1
        BY <1>2, <4>1
      <4>3. sent[g] \in Frames /\ starts[g] \in Nat
        BY <1>1, Typed
      <4>4. /\ HeaderSize(sent[g]) \in Nat /\ sent[g].size \in Nat /\ sent[g].mask \in BOOLEAN
            /\ FrameSize(sent[g]) = HeaderSize(sent[g]) + sent[g].size
        BY <4>3, FrameNat
      <4>5. rpos = starts[g] + HeaderSize(sent[g]) + have /\ hdr.f = g /\ hdr.size = sent[g].size
        BY <4>1, <4>2
      <4>6. have + n = hdr.size
        BY <2>2, <1>3, <1>5
      <4>7. rpos + n = starts[g] + HeaderSize(sent[g]) + sent[g].size
        <5>1. have \in Nat /\ n \in Nat /\ have + n = sent[g].size
          BY <4>5, <4>6, <1>3
        <5>2. rpos = starts[g] + HeaderSize(sent[g]) + have
          BY <4>5
        <5> QED
          BY <5>1, <5>2, <4>3, <4>4
      <4>8. rpos + n = starts[g] + FrameSize(sent[g])
        BY <4>3, <4>4, <4>7
      <4>9. ASSUME NEW k \in 1..hdr.size
            PROVE  stream[rpos + n - hdr.size + k] =
                     [f |-> g, off |-> HeaderSize(sent[g]) + k,
                      key |-> IF sent[g].mask THEN (k - 1) % 4 ELSE Clear]
        <5>1. k \in 1..sent[g].size /\ k \in Nat
          BY <4>5, <4>4
        <5> DEFINE j == HeaderSize(sent[g]) + k
        <5>2. /\ rpos + n - hdr.size + k = starts[g] + j /\ j \in Nat \ {0}
              /\ starts[g] + j <= Len(stream) /\ j <= FrameSize(sent[g])
              /\ j > HeaderSize(sent[g]) /\ j - HeaderSize(sent[g]) - 1 = k - 1
          <6>1. starts[g] \in Nat /\ HeaderSize(sent[g]) \in Nat /\ sent[g].size \in Nat
                /\ FrameSize(sent[g]) = HeaderSize(sent[g]) + sent[g].size /\ Len(stream) \in Nat
            BY <4>3, <4>4, <1>5
          <6>2. /\ j \in Nat \ {0} /\ j <= FrameSize(sent[g]) /\ j > HeaderSize(sent[g])
                /\ j - HeaderSize(sent[g]) - 1 = k - 1
            BY <6>1, <5>1
          <6>3. rpos + n - sent[g].size + k = starts[g] + j
            <7>1. rpos \in Nat /\ n \in Nat
              BY <1>5, <1>4
            <7> QED
              <8>1. rpos \in Int /\ n \in Int /\ starts[g] \in Int /\ HeaderSize(sent[g]) \in Int
                    /\ sent[g].size \in Int /\ k \in Int
                BY <7>1, <6>1, <5>1
              <8>2. rpos + n - sent[g].size + k = starts[g] + (HeaderSize(sent[g]) + k)
                <9>1. rpos + n = starts[g] + HeaderSize(sent[g]) + sent[g].size
                  BY <4>7
                <9>2. rpos + n - sent[g].size = starts[g] + HeaderSize(sent[g])
                  BY <8>1, <9>1, SMTT(60)
                <9> QED
                  BY <8>1, <9>2
              <8> QED
                BY <8>2
          <6>4. rpos + n - hdr.size + k = starts[g] + j
            BY <6>3, <4>5
          <6>5. starts[g] + HeaderSize(sent[g]) + sent[g].size <= Len(stream)
            BY <4>7, <1>5
          <6>6. starts[g] + j <= Len(stream)
            BY <6>1, <6>5, <5>1
          <6> QED
            BY <6>2, <6>4, <6>6
        <5> HIDE DEF j
        <5>3. stream[starts[g] + j] = [f |-> g, off |-> j, key |-> KeyAt(sent[g], j)]
          BY <5>2, Bytes
        <5>4. (j - HeaderSize(sent[g]) - 1) % 4 = (k - 1) % 4
          BY <5>2
        <5>5. KeyAt(sent[g], j) = IF sent[g].mask THEN (k - 1) % 4 ELSE Clear
          BY <5>2, <5>4 DEF KeyAt
        <5> QED
          BY <5>2, <5>3, <5>5 DEF j
      <4>10. Payload(rpos + n) = g
        <5>1. hdr.f # 0 /\ hdr.f = g
          BY <4>5
        <5>2. ASSUME NEW k \in 1..hdr.size
              PROVE  PayloadByte(stream[rpos + n - hdr.size + k], hdr.f, k)
          <6>1. stream[rpos + n - hdr.size + k] =
                     [f |-> g, off |-> HeaderSize(sent[g]) + k,
                      key |-> IF sent[g].mask THEN (k - 1) % 4 ELSE Clear]
            BY <4>9
          <6> QED
            BY <6>1, <5>1 DEF PayloadByte
        <5>3. Payload(rpos + n) = hdr.f
          <6>1. Intact(rpos + n)
            BY <5>2, <1>3, <1>5, SMTT(60) DEF Intact
          <6> QED
            BY <6>1, <5>1 DEF Payload
        <5> QED
          BY <5>1, <5>3
      <4>11. UNCHANGED encVars /\ rpos' = starts[g] + FrameSize(sent[g])
             /\ starts[g] + FrameSize(sent[g]) <= Len(stream) /\ got' = Append(got, g)
        BY <4>8, <4>10, <3>1, <1>1, <1>5
      <4> QED
        BY <3>5, <4>2, <4>11, <3>1, <3>7, Returned
    <3> QED
      BY <3>5, <3>6, <3>7
  <2> QED
    BY <2>1, <2>2
<1> QED
  BY <1>1, <1>4, <1>5, <1>6, ReadKeeps

LEMMA ReadEOFInv ==
  ASSUME IInv, ReadEOF
  PROVE  IInv'
<1>1. TypeOK /\ UNCHANGED encVars /\ UNCHANGED <<bpos, rpos>> /\ closed /\ rpos = Len(stream)
  BY DEF IInv, ReadEOF
<1>2. Len(sent) \in Nat /\ Len(got) \in Nat /\ sent' = sent /\ closed' = closed
      /\ Len(stream) \in Nat /\ Written' = Written /\ Torn' = Torn
  BY <1>1, Typed DEF encVars, Written, EncodeDone, Torn
<1>3. ReaderOK' /\ Where'
  <2>1. CASE phase = "data" /\ have > 0
    BY <2>1, <1>1, FailKeeps DEF ReadEOF
  <2>2. CASE ~(phase = "data" /\ have > 0)
    <3>1. phase' = "eof" /\ hdr' = hdr /\ have' = have /\ got' = got /\ errs' = errs
      BY <2>2 DEF ReadEOF
    <3>2. ReaderOK'
      BY <3>1, <1>1, <1>2 DEF ReaderOK, TypeOK, IInv
    <3>3. CASE errs
      <4>1. errs' = errs
        BY <3>1
      <4> QED
        BY <3>2, <4>1, <3>3, NothingClaimed
    <3>4. CASE ~errs
      <4>1. \A k \in 1..Len(got) : got[k] = k
        BY <3>4 DEF IInv, Where
      <4>2. Len(got) <= Len(sent)
        BY <3>4 DEF IInv, Where
      <4>a. Len(got) = Written /\ ~Torn => Where'
        <5>1. closed' /\ Written' = Written /\ Torn' = Torn /\ got' = got /\ sent' = sent
              /\ phase' = "eof"
          BY <3>1, <1>1, <1>2
        <5> QED
          BY <5>1, <4>1, <4>2 DEF Where
      <4>3. ASSUME NEW g \in 1..Len(sent)
            PROVE  /\ sent[g] \in Frames /\ starts[g] \in Nat
                   /\ HeaderSize(sent[g]) \in Nat /\ HeaderSize(sent[g]) >= 2
                   /\ starts[g] + HeaderSize(sent[g]) <= Len(stream)
        BY <1>1, Typed, FrameNat, Begun
      <4>4. CASE phase = "head"
        <5>1. CASE Len(got) < Len(sent)
          <6>1. rpos = starts[Len(got) + 1] /\ Len(got) + 1 \in 1..Len(sent)
            BY <1>2, <3>4, <4>4, <5>1 DEF IInv, Where
          <6>2. PICK g \in 1..Len(sent) : g = Len(got) + 1
            BY <6>1
          <6>3. starts[g] = Len(stream)
            BY <6>1, <6>2, <1>1
          <6> QED
            BY <6>2, <6>3, <4>3, <1>2
        <5>2. CASE ~(Len(got) < Len(sent))
          <6>1. EncodeDone /\ Len(got) = Len(sent)
            BY <1>2, <3>4, <4>2, <4>4, <5>2 DEF IInv, Where
          <6>2. Len(got) = Written /\ ~Torn
            BY <6>1 DEF Written, Torn
          <6> QED
            BY <3>2, <6>2, <4>a
        <5> QED
          BY <5>1, <5>2
      <4>5. CASE phase = "extra"
        <5>1. Len(got) < Len(sent) /\ rpos = starts[Len(got) + 1] + 2
              /\ hdr = HeadOf(Len(got) + 1) /\ ExtraSize(hdr.mask, hdr.bits) # 0
          BY <3>4, <4>5 DEF IInv, Where
        <5>2. PICK g \in 1..Len(sent) : g = Len(got) + 1
          BY <1>2, <5>1
        <5>3. HeaderSize(sent[g]) # 2
          <6>1. ExtraSize(sent[g].mask, SizeBits(sent[g].size)) # 0
            BY <5>1, <5>2 DEF HeadOf
          <6>2. ExtraSize(sent[g].mask, SizeBits(sent[g].size)) \in 0..12
            BY <4>3, FrameSizes, ExtraSizes
          <6> QED
            BY <6>1, <6>2 DEF HeaderSize
        <5>4. rpos = starts[g] + 2
          BY <5>1, <5>2
        <5> QED
          BY <5>3, <5>4, <4>3, <1>1, <1>2
      <4>6. CASE phase = "data"
        <5>1. /\ Len(got) < Len(sent) /\ have < hdr.size /\ hdr.size = sent[Len(got) + 1].size
              /\ rpos = starts[Len(got) + 1] + HeaderSize(sent[Len(got) + 1]) + have
          BY <3>4, <4>6 DEF IInv, Where
        <5>2. PICK g \in 1..Len(sent) : g = Len(got) + 1
          BY <1>2, <5>1
        <5>3. have = 0
          BY <2>2, <4>6, <1>1 DEF TypeOK
        <5>4. sent[g].size \in Nat /\ FrameSize(sent[g]) = HeaderSize(sent[g]) + sent[g].size
          BY <4>3, FrameNat
        <5>5. rpos = starts[g] + HeaderSize(sent[g]) + have /\ 0 < sent[g].size
          BY <5>1, <5>2, <5>3
        <5>6. rpos = starts[g] + HeaderSize(sent[g])
          BY <5>3, <5>5, <4>3
        <5>7. ~(starts[g] + FrameSize(sent[g]) <= Len(stream))
          BY <5>4, <5>5, <5>6, <4>3, <1>1, <1>2
        <5>8. g = Len(sent)
          BY <5>7, <1>2, Begun
        <5>9. pos = 0
          <6>1. SoFar(g) = HeaderSize(sent[g]) + pos /\ starts[g] + SoFar(g) = Len(stream)
            BY <5>8 DEF SoFar, IInv, Layout
          <6>2. pos \in Nat
            BY <1>1 DEF TypeOK
          <6> QED
            BY <6>1, <6>2, <5>6, <4>3, <1>1, <1>2
        <5>10. ~EncodeDone
          BY <5>5, <5>8, <5>9, <1>2 DEF EncodeDone
        <5>11. Len(got) = Written /\ ~Torn
          BY <5>2, <5>8, <5>9, <5>10, <1>2 DEF Written, Torn
        <5> QED
          BY <3>2, <5>11, <4>a
      <4> QED
        BY <4>4, <4>5, <4>6 DEF ReadEOF
    <3> QED
      BY <3>2, <3>3, <3>4
  <2> QED
    BY <2>1, <2>2
<1> QED
  BY <1>1, <1>3, ReadKeeps
-----------------------------------------------------------------------------
(* Safety                                                                  *)

\* The invariant is inductive: every byte written belongs to the frame and the
\* place that its position says, and the reader stands where its phase says.
THEOREM Inductive == Spec => []IInv
<1>1. Init => IInv
  BY InitIInv
<1>2. IInv /\ [Next]_vars => IInv'
  <2> SUFFICES ASSUME IInv, [Next]_vars PROVE IInv'
    OBVIOUS
  <2>1. CASE Encode
    BY <2>1, HeaderInv, PayloadInv DEF Encode
  <2>2. CASE Close
    BY <2>2, CloseInv
  <2>3. CASE \E n \in 1..2 : ReadHead(n)
    BY <2>3, ReadHeadInv
  <2>4. CASE \E n \in 1..12 : ReadExtra(n)
    BY <2>4, ReadExtraInv
  <2>5. CASE \E n \in 1..hdr.size : ReadPayload(n)
    BY <2>5, ReadPayloadInv
  <2>6. CASE ReadEOF
    BY <2>6, ReadEOFInv
  <2>7. CASE UNCHANGED vars
    <3>1. UNCHANGED encVars /\ UNCHANGED <<bpos, rpos>> /\ ReaderOK' /\ Where'
      BY <2>7 DEF vars, encVars, IInv, TypeOK, ReaderOK, Where, HeadOf, HeaderSize, Written, EncodeDone, Torn
    <3> QED
      BY <3>1, ReadKeeps
  <2> QED
    BY <2>1, <2>2, <2>3, <2>4, <2>5, <2>6, <2>7 DEF Next, Decode
<1> QED
  BY <1>1, <1>2, PTL DEF Spec

\* Types of the codec's state (frame.go:60-145, 162-238).
THEOREM TypeCorrect == Spec => []TypeOK
<1>1. IInv => TypeOK
  BY DEF IInv
<1> QED
  BY <1>1, Inductive, PTL

\* For frames of any size, a bufio.Reader of any capacity and any cut of the
\* bytes, Decode returns the frames of the client in order and unaltered, up to
\* its first error (frame.go:60-145).
THEOREM Faithful == Spec => []FaithfulUntilError
<1>1. IInv => FaithfulUntilError
  BY DEF IInv, Where, FaithfulUntilError
<1> QED
  BY <1>1, Inductive, PTL
-----------------------------------------------------------------------------
(* The channel of frames                                                   *)

\* What a step of Decode does to the frames it has returned.
Handed ==
  \/ Fail
  \/ /\ errs' = errs /\ phase' = "head"
     /\ \E f \in 0..MaxFrames : got' = Append(got, f)
  \/ UNCHANGED <<got, errs>> /\ phase' \in {"head", "extra", "data"}
  \/ UNCHANGED <<got, errs>> /\ phase' \in {"eof", "crash"}

LEMMA DecodeHands ==
  ASSUME IInv, Decode
  PROVE  UNCHANGED encVars /\ phase \in {"head", "extra", "data"} /\ Handed
<1>1. \A h : Sized(h) /\ h.f \in 0..MaxFrames => Handed
  BY DEF Sized, Handed
<1>2. hdr.f \in 0..MaxFrames /\ 0 \in 0..MaxFrames /\ Len(sent) \in Nat /\ Len(sent) <= MaxFrames
  BY Typed, MaxFramesAssumption DEF IInv, TypeOK
<1>3. CASE \E n \in 1..2 : ReadHead(n)
  <2>1. PICK n \in 1..2 : ReadHead(n)
    BY <1>3
  <2>2. ASSUME NEW h, Headed(h), h.f \in 0..MaxFrames
        PROVE  Handed
    <3>1. CASE ExtraSize(h.mask, h.bits) = 0
      <4>1. Sized([h EXCEPT !.size = h.bits])
        BY <2>2, <3>1 DEF Headed
      <4>2. [h EXCEPT !.size = h.bits].f \in 0..MaxFrames
        BY <2>2
      <4> QED
        BY <4>1, <4>2, <1>1
    <3>2. CASE ExtraSize(h.mask, h.bits) # 0
      BY <2>2, <3>2 DEF Headed, Handed
    <3> QED
      BY <3>1, <3>2
  <2>3. ASSUME NEW f \in 1..Len(sent)
        PROVE  HeadOf(f).f \in 0..MaxFrames
    <3>1. f \in 0..MaxFrames
      BY <1>2, MaxFramesAssumption
    <3>2. HeadOf(f).f = f
      BY DEF HeadOf
    <3> QED
      BY <3>1, <3>2
  <2>4. \A h \in AnyHead : h.f \in 0..MaxFrames
    BY <1>2 DEF AnyHead
  <2>5. Fail => Handed
    BY DEF Handed
  <2> QED
    BY <2>1, <2>2, <2>3, <2>4, <2>5 DEF ReadHead
<1>4. CASE \E n \in 1..12 : ReadExtra(n)
  <2>1. PICK n \in 1..12 : ReadExtra(n)
    BY <1>4
  <2>2. [hdr EXCEPT !.size = sent[hdr.f].size].f \in 0..MaxFrames
        /\ \A z : [hdr EXCEPT !.f = 0, !.size = z].f \in 0..MaxFrames
    BY <1>2 DEF IInv, TypeOK
  <2>3. \/ Fail
        \/ \E h : Sized(h) /\ h.f \in 0..MaxFrames
        \/ phase' = "crash" /\ UNCHANGED <<hdr, have, got, errs>>
    BY <2>1, <2>2 DEF ReadExtra
  <2> QED
    BY <2>1, <2>3, <1>1 DEF ReadExtra, Handed
<1>5. CASE \E n \in 1..hdr.size : ReadPayload(n)
  <2>1. PICK n \in 1..hdr.size : ReadPayload(n)
    BY <1>5
  <2>2. Payload(rpos + n) \in 0..MaxFrames
    BY <1>2 DEF Payload
  <2> QED
    BY <2>1, <2>2 DEF ReadPayload, Handed
<1>6. CASE ReadEOF
  BY <1>6 DEF ReadEOF, Handed
<1> QED
  BY <1>3, <1>4, <1>5, <1>6 DEF Decode

LEMMA DecodeMaps ==
  ASSUME IInv, IInv', Decode
  PROVE  [CHANNEL!Next]_(CHANNEL!vars)
<1>1. sent' = sent /\ pos' = pos /\ phase \in {"head", "extra", "data"} /\ Handed
  BY DecodeHands DEF encVars
<1>2. Written' = Written /\ Torn' = Torn /\ Len(sent') = Len(sent)
  BY <1>1 DEF Written, EncodeDone, Torn
<1>3. Len(sent) \in Nat /\ Len(got) \in Nat /\ got \in Seq(0..MaxFrames)
  BY Typed DEF IInv, TypeOK
<1>4. CASE Fail
  BY <1>1, <1>2, <1>4 DEF Fail, CHANNEL!Next, CHANNEL!Fail
<1>5. ASSUME errs' = errs, phase' = "head", NEW f \in 0..MaxFrames, got' = Append(got, f)
      PROVE  CHANNEL!Next
  <2>1. CASE errs
    BY <1>1, <1>2, <1>5, <2>1 DEF CHANNEL!Next, CHANNEL!Garble
  <2>2. CASE ~errs
    <3>1. Len(got') = Len(got) + 1 /\ got'[Len(got) + 1] = f
      BY <1>3, <1>5, AppendProperties
    <3>2. ~errs'
      BY <1>5, <2>2
    <3>3. /\ \A k \in 1..Len(got') : got'[k] = k
          /\ Len(got') <= Len(sent')
          /\ ~(Len(got') < Len(sent')) => EncodeDone'
      BY <3>2, <1>5 DEF IInv, Where
    <3>4. f = Len(got) + 1
      BY <3>1, <3>3, <1>3
    <3>5. Len(got) < Written
      BY <3>1, <3>3, <1>1, <1>2, <1>3 DEF Written, EncodeDone
    <3> QED
      BY <3>4, <3>5, <1>1, <1>2, <1>5, <2>2 DEF CHANNEL!Next, CHANNEL!Receive
  <2> QED
    BY <2>1, <2>2
<1>6. CASE UNCHANGED <<got, errs>> /\ phase' \in {"head", "extra", "data"}
  BY <1>1, <1>2, <1>6 DEF CHANNEL!vars
<1>7. CASE UNCHANGED <<got, errs>> /\ phase' \in {"eof", "crash"}
  <2>1. errs \/ (Len(got) = Written /\ ~Torn)
    <3> SUFFICES ASSUME ~errs PROVE Len(got) = Written /\ ~Torn
      OBVIOUS
    <3>1. ~errs' /\ got' = got
      BY <1>7
    <3> QED
      BY <3>1, <1>2, <1>7 DEF IInv, Where
  <2> QED
    BY <2>1, <1>1, <1>2, <1>7 DEF CHANNEL!Next, CHANNEL!End
<1> QED
  BY <1>1, <1>4, <1>5, <1>6, <1>7 DEF Handed

LEMMA EncodeMaps ==
  ASSUME IInv, Encode
  PROVE  [CHANNEL!Next]_(CHANNEL!vars)
<1>1. Len(sent) \in Nat /\ TypeOK
  BY Typed DEF IInv
<1>2. ASSUME NEW fr \in Frames, EncodeHeader(fr)
      PROVE  CHANNEL!Next
  <2>1. Len(sent') = Len(sent) + 1 /\ Len(sent) < MaxFrames /\ EncodeDone
    BY <1>1, <1>2, HeaderBytes DEF EncodeHeader
  <2>2. got' = got /\ errs' = errs /\ phase' = phase
    BY <1>2 DEF EncodeHeader, decVars
  <2>3. Written = Len(sent) /\ Written' \in {Len(sent), Len(sent) + 1}
    BY <2>1, <1>1 DEF Written
  <2>4. Torn' = Torn
    <3>1. pos' = 0
      BY <1>2 DEF EncodeHeader
    <3>2. ~(pos' > 0)
      BY <3>1
    <3> QED
      BY <2>1, <3>2, Zenon DEF Torn
  <2> QED
    BY <2>1, <2>2, <2>3, <2>4 DEF CHANNEL!Next, CHANNEL!Begin
<1>3. CASE EncodePayload
  <2>1. ~EncodeDone /\ sent' = sent /\ got' = got /\ errs' = errs /\ phase' = phase
    BY <1>3 DEF EncodePayload, decVars
  <2>2. Written = Len(sent) - 1 /\ Written' \in {Len(sent) - 1, Len(sent)}
    BY <2>1 DEF Written
  <2>3. CASE EncodeDone'
    <3>1. Written' = Len(sent) /\ Torn' = FALSE
      BY <2>1, <2>3 DEF Written, Torn
    <3> QED
      BY <2>1, <2>2, <3>1, <1>1 DEF CHANNEL!Next, CHANNEL!Finish
  <2>4. CASE ~EncodeDone'
    <3>1. sent # <<>> /\ pos # sent[Len(sent)].size
      BY <2>1 DEF EncodeDone
    <3>2. pos \in Nat /\ sent[Len(sent)].size \in Nat /\ pos < sent[Len(sent)].size
      <4>1. Len(sent) \in 1..Len(sent)
        BY <3>1, Typed, <1>1, EmptySeq DEF TypeOK
      <4>2. sent[Len(sent)].size \in Nat
        BY <4>1, Typed, FrameSizes, <1>1
      <4>3. pos \in 0..sent[Len(sent)].size
        BY <3>1, <1>1, Zenon DEF TypeOK
      <4> QED
        BY <3>1, <4>2, <4>3
    <3>3. pos' \in Nat /\ pos' > pos
      BY <1>3, <3>2, ChunkAssumption DEF EncodePayload
    <3>4. Torn' = TRUE
      <4>1. pos' > 0
        BY <3>2, <3>3
      <4> QED
        BY <2>4, <4>1, Zenon DEF Torn
    <3>5. Written' = Written
      BY <2>1, <2>2, <2>4 DEF Written
    <3> QED
      BY <2>1, <2>2, <3>4, <3>5, <1>1 DEF CHANNEL!Next, CHANNEL!Part
  <2> QED
    BY <2>3, <2>4
<1> QED
  BY <1>2, <1>3 DEF Encode

\* The codec is a channel of frames, for any sizes and capacities: every frame
\* once and in order until the first error; and the server's loop does not end
\* without an error before it has every frame which was completely written, nor
\* within a payload (frame.go:60-145, tunnel.go:65-75).
THEOREM Refinement == Spec => ImplementsChannel
<1>1. Init => CHANNEL!Init
  <2> SUFFICES ASSUME Init PROVE CHANNEL!Init
    OBVIOUS
  <2>1. Len(sent) = 0 /\ EncodeDone
    BY DEF Init, EncodeDone
  <2> QED
    BY <2>1 DEF Init, CHANNEL!Init, Written, Torn
<1>2. IInv /\ IInv' /\ [Next]_vars => [CHANNEL!Next]_(CHANNEL!vars)
  <2> SUFFICES ASSUME IInv, IInv', [Next]_vars PROVE [CHANNEL!Next]_(CHANNEL!vars)
    OBVIOUS
  <2>1. CASE Encode
    BY <2>1, EncodeMaps
  <2>2. CASE Decode
    BY <2>2, DecodeMaps
  <2>3. CASE Close
    BY <2>3 DEF Close, decVars, CHANNEL!vars, Written, EncodeDone, Torn
  <2>4. CASE UNCHANGED vars
    BY <2>4 DEF vars, CHANNEL!vars, Written, EncodeDone, Torn
  <2> QED
    BY <2>1, <2>2, <2>3, <2>4 DEF Next
<1> QED
  BY <1>1, <1>2, Inductive, PTL DEF Spec, ImplementsChannel, CHANNEL!Spec
=============================================================================
