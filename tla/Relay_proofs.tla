---------------------------- MODULE Relay_proofs ----------------------------
(* Proofs about Relay for any bounds and any set of routes.                *)
EXTENDS Relay, TLAPS

\* Something at either end went away or failed.
Failed == cGone \/ broken

\* What relates the program counters of the two loops, the sockets and the
\* counters; with TypeOK it makes UploadWhole and DownloadWhole inductive.
\* Each loop that is still copying knows why the other one has ended.
Progress ==
  /\ up = "none" => out = "none" /\ main \in {"start", "dial", "done"}
  /\ main \in {"start", "dial"} => up = "none"
  /\ main = "dial" => route \in {"direct", "auto"}
  /\ up # "none" => out # "none"
  /\ up # "done" => upRead = upWritten + (IF up = "write" THEN 1 ELSE 0)
  /\ main # "done" => downRead = downWritten + (IF main = "write" THEN 1 ELSE 0)
  /\ in = "closed" <=> main = "done"
  /\ out = "closed" => up = "done" \/ main = "done"
  /\ main = "done" /\ up \in {"read", "write"} => Failed \/ tFin
  /\ up = "done" /\ main # "done" => Failed \/ cFin

IInv == TypeOK /\ Progress /\ UploadWhole /\ DownloadWhole

LEMMA InitIInv == Init => IInv
<1> SUFFICES ASSUME Init PROVE IInv
  OBVIOUS
<1>1. TypeOK
  <2>1. 0 \in 0..MaxUp /\ 0 \in 0..MaxDown /\ 0 \in 0..0
    BY MaxAssumption
  <2> QED
    BY <2>1, Zenon DEF Init, TypeOK
<1>2. Progress
  BY DEF Init, Progress
<1>3. UploadWhole /\ DownloadWhole
  BY DEF Init, UploadWhole, DownloadWhole
<1> QED
  BY <1>1, <1>2, <1>3 DEF IInv

LEMMA StepIInv == IInv /\ [Next]_vars => IInv'
<1> SUFFICES ASSUME IInv, [Next]_vars PROVE IInv'
  OBVIOUS
<1> USE RoutesAssumption, MaxAssumption
<1> USE DEF IInv, TypeOK, Progress, UploadWhole, DownloadWhole, Failed
<1>1. CASE UNCHANGED vars
  BY <1>1 DEF vars, peer, ups, downs
<1>2. CASE ClientSend
  BY <1>2 DEF ClientSend, ups, downs
<1>3. CASE ClientFin
  BY <1>3 DEF ClientFin, ups, downs
<1>4. CASE ClientGone
  BY <1>4 DEF ClientGone, ups, downs
<1>5. CASE TargetSend
  BY <1>5 DEF TargetSend, Dialed, ups, downs
<1>6. CASE TargetFin
  BY <1>6 DEF TargetFin, Dialed, ups, downs
<1>7. CASE BackendBreaks
  BY <1>7 DEF BackendBreaks, ups, downs
<1>8. CASE NoDestination
  BY <1>8 DEF NoDestination, Return, peer, ups, downs
<1>9. ASSUME NEW act \in Routes, Lookup(act) PROVE IInv'
  BY <1>9 DEF Lookup, StartRelay, Return, peer, ups, downs
<1>10. CASE Dial
  BY <1>10 DEF Dial, StartRelay, Return, peer, ups, downs
<1>11. CASE UpRead
  BY <1>11 DEF UpRead, peer, downs
<1>12. CASE UpWrite
  BY <1>12 DEF UpWrite, peer, downs
<1>13. CASE UpEnd
  BY <1>13 DEF UpEnd, peer, ups, downs
<1>14. CASE DownRead
  BY <1>14 DEF DownRead, Dialed, peer, ups
<1>15. CASE DownWrite
  BY <1>15 DEF DownWrite, peer, ups
<1>16. CASE DownEnd
  BY <1>16 DEF DownEnd, Dialed, Return, peer, ups, downs
<1> QED
  BY <1>1, <1>2, <1>3, <1>4, <1>5, <1>6, <1>7, <1>8, <1>9, <1>10, <1>11,
     <1>12, <1>13, <1>14, <1>15, <1>16
  DEF Next, Peers, Setup, Up, Down

\* The invariant is inductive, whatever the bounds and the routes.
THEOREM Inductive == Spec => []IInv
  BY InitIInv, StepIInv, PTL DEF Spec

\* The types of the state: no loop copies more than was sent, whatever was sent
\* (server.go:36-42).
THEOREM TypeCorrect == Spec => []TypeOK
<1>1. IInv => TypeOK
  BY DEF IInv
<1> QED
  BY <1>1, Inductive, PTL

\* Uploads: closing the backend never overtakes a piece the client sent, but
\* for a failure or a destination that shut its side first (server.go:37-40).
THEOREM UploadsWhole == Spec => []UploadWhole
<1>1. IInv => UploadWhole
  BY DEF IInv
<1> QED
  BY <1>1, Inductive, PTL

\* Downloads: the handler's deferred closes never overtake a piece the
\* destination sent, but for a failure or a client that shut its side first
\* (server.go:41, 156, 198).
THEOREM DownloadsWhole == Spec => []DownloadWhole
<1>1. IInv => DownloadWhole
  BY DEF IInv
<1> QED
  BY <1>1, Inductive, PTL
=============================================================================
