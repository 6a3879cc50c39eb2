---------------------------- MODULE OrderedPipe ----------------------------
(***************************************************************************)
(* What a tunnel promises to each proxied connection, with no goroutine    *)
(* and no buffer in sight: once a connection is open, the data accepted    *)
(* from the client forms one stream, and the target is handed a prefix of  *)
(* that stream, item by item and in order.  A pipe may break; a broken     *)
(* pipe hands over nothing more.                                           *)
(***************************************************************************)
EXTENDS Naturals, Sequences

CONSTANTS
  ConnIds,  \* connection ids
  Items     \* what a stream is made of

VARIABLES
  opened,    \* ids of the connections that were opened
  accepted,  \* accepted[c]: the stream accepted from the client
  delivered, \* delivered[c]: what the target was handed
  broken     \* ids of the connections whose target is gone

vars == <<opened, accepted, delivered, broken>>

Init ==
  /\ opened = {}
  /\ accepted = [c \in ConnIds |-> <<>>]
  /\ delivered = [c \in ConnIds |-> <<>>]
  /\ broken = {}

Open(c) ==
  /\ c \notin opened
  /\ opened' = opened \cup {c}
  /\ UNCHANGED <<accepted, delivered, broken>>

Accept(c, n) ==
  /\ c \in opened
  /\ accepted' = [accepted EXCEPT ![c] = Append(@, n)]
  /\ UNCHANGED <<opened, delivered, broken>>

Deliver(c) ==
  /\ c \in opened \ broken
  /\ Len(delivered[c]) < Len(accepted[c])
  /\ delivered' = [delivered EXCEPT
                     ![c] = Append(@, accepted[c][Len(@) + 1])]
  /\ UNCHANGED <<opened, accepted, broken>>

Break(c) ==
  /\ c \in opened \ broken
  /\ broken' = broken \cup {c}
  /\ UNCHANGED <<opened, accepted, delivered>>

Next ==
  \E c \in ConnIds :
    \/ Open(c)
    \/ \E n \in Items : Accept(c, n)
    \/ Deliver(c)
    \/ Break(c)

Spec == Init /\ [][Next]_vars
=============================================================================
