------------------------------ MODULE DnsProxy ------------------------------
(***************************************************************************)
(* The DNS proxy of internal/dns/proxy.go with its cache (cache.go), in    *)
(* the loop of HandleDNS (internal/client/server.go): a datagram is        *)
(* decoded, its questions are answered from the table of names and from    *)
(* the cache, the answer is encoded and whoever asked decodes it.  Both    *)
(* ways go through the codec of DnsMessage and DnsDecode.                  *)
(*                                                                         *)
(* The proxy keeps nothing between two datagrams but its cache, so that    *)
(* one datagram is followed.  Nothing in the program calls Cache.Set: a    *)
(* fill of the cache is an external step, just before it is read.  A name  *)
(* is the sequence of its labels, none of which holds a dot.               *)
(***************************************************************************)
EXTENDS DnsMessage

CONSTANTS
  Raw,       \* no message was encoded: the bytes are anyone's
  Table,     \* Resolver.m: from names to lists of addresses, by their size
  MaxQuest,  \* maxQuest of handle
  Fills,     \* [name, list, ttl]: what the cache may be filled with
  Times,     \* seconds that time.Now().Unix() may give; the clock may be set back
  W          \* number of values of a uint32

ASSUME RawAssumption == Raw \notin Message
ASSUME TableAssumption == \A n \in DOMAIN Table : Table[n] \in Seq(Nat) /\ Table[n] # <<>>
ASSUME TimesAssumption == Times \subseteq Nat /\ W \in Nat \ {0}
ASSUME FillsAssumption == Fills \subseteq [name : Seq(Labels), list : Seq(Nat), ttl : 0..(W - 1)]
ASSUME MaxQuestAssumption == MaxQuest \in Nat \ {0}

VARIABLES
  leg,      \* "request", "handle", "response", "crashed", or "lost" in HandleDNS
  request,  \* the message that was encoded into the datagram, or Raw
  cache,    \* Cache.m
  read,     \* history: what the cache gave: an entry, when, and the rest of its time
  asked,    \* handle: questions that have been looked at
  resp      \* handle: the response so far

proxy == <<leg, request, cache, read, asked, resp>>

NoEntry == [list |-> <<>>, ts |-> 0, ttl |-> 0]
NoAnswer == [opcode |-> 0, failed |-> FALSE, quests |-> <<>>, answers |-> <<>>, records |-> <<>>]

\* A datagram arrives: an encoded message, or any bytes.
ProxyInit ==
  /\ \/ msg \in Messages /\ EncodeInit
     \/ /\ msg = Raw /\ buf \in Buffers /\ call = "sent"
        /\ offsets = <<>> /\ item = 0 /\ rest = <<>> /\ trail = {}
  /\ request = msg
  /\ leg = "request"
  /\ cache = <<>> /\ read = {}
  /\ asked = 0 /\ resp = NoAnswer
  /\ Reset
-----------------------------------------------------------------------------
\* Cache.Set of a nowcent.
CacheSet ==
  /\ leg \in {"request", "handle"} /\ stage = "done" /\ cache = <<>>
  /\ \E f \in Fills, t \in Times :
       cache' = [n \in {f.name} |-> [list |-> f.list, ts |-> t, ttl |-> f.ttl]]
  /\ UNCHANGED <<vars, msg, encoder, leg, request, read, asked, resp>>

Entry(n) == IF n \in DOMAIN cache THEN cache[n] ELSE NoEntry

\* Mutant of Rest: the lifetime starts anew with each answer.
RestWhole(entry, now) == entry.ttl

\* entry.ttl - uint32(now-entry.ts): the subtraction of Cache.Get.
Rest(entry, now) == (entry.ttl - ((now - entry.ts) % W)) % W

\* Cache.Get.
CacheGet(entry, now) ==
  IF now - entry.ttl >= entry.ts THEN [list |-> <<>>, ttl |-> 0]
  ELSE [list |-> entry.list, ttl |-> Rest(entry, now)]

\* req.Quests[i - 1] is there: the questions come first in what was decoded.
Asks(i) == i \in 1..Len(out) /\ out[i].section = 1

Answerable == stage = "done" /\ Asks(1) /\ ~Asks(MaxQuest + 1)

\* Handle panics: on an error of Decode or of handle.
Crash ==
  /\ leg = "request" /\ stage \in Ended /\ ~Answerable
  /\ leg' = "crashed"
  /\ UNCHANGED <<vars, msg, encoder, request, cache, read, asked, resp>>

\* The top of handle, with addEmptySec.
HandleStarts ==
  /\ leg = "request" /\ Answerable
  /\ leg' = "handle" /\ asked' = 0
  /\ resp' = [NoAnswer EXCEPT !.opcode = opcode, !.records = <<[name |-> <<>>, size |-> 0]>>]
  /\ UNCHANGED <<vars, msg, encoder, request, cache, read>>

\* Mutant of Answers: the first address is enough.
AnswersFirst(n, list) == <<[name |-> n, size |-> list[1]]>>

\* addAnswers; TTLs are left out.
Answers(n, list) == [j \in 1..Len(list) |-> [name |-> n, size |-> list[j]]]

\* handle skips the root and a name without a list.
HasList(n, list) == n # <<>> /\ list # <<>>

\* addQuest and addAnswers for a name and what was found for it.
Add(n, list) ==
  resp' = IF HasList(n, list)
          THEN [resp EXCEPT !.quests = Append(@, n), !.answers = @ \o Answers(n, list)]
          ELSE resp

\* The next question goes through getLocal: the table, or else the cache at the
\* time that the clock gives for it.
HandleQuest ==
  /\ leg = "handle" /\ Asks(asked + 1)
  /\ LET n == out[asked + 1].name IN
       \/ n \in DOMAIN Table /\ Add(n, Table[n]) /\ UNCHANGED read
       \/ /\ n \notin DOMAIN Table
          /\ \E now \in Times : \E hit \in {CacheGet(Entry(n), now)} :
               /\ Add(n, hit.list)
               /\ read' = IF HasList(n, hit.list)
                          THEN read \cup {[entry |-> Entry(n), now |-> now, rest |-> hit.ttl]}
                          ELSE read
  /\ asked' = asked + 1
  /\ UNCHANGED <<vars, msg, encoder, leg, request, cache>>

\* handle returns: the response goes into Encode with an empty buffer, and what
\* Encode returns to a decoder of its own.
Respond ==
  /\ leg = "handle" /\ ~Asks(asked + 1)
  /\ leg' = "response" /\ msg' = resp
  /\ buf' = <<>> /\ call' = "header"
  /\ offsets' = <<>> /\ item' = 0 /\ rest' = <<>> /\ trail' = {}
  /\ stage' = "header" /\ pos' = 0 /\ mark' = 0
  /\ left' = [s \in 1..3 |-> 0] /\ section' = 1
  /\ name' = <<>> /\ opcode' = 0 /\ out' = <<>>
  /\ UNCHANGED <<request, cache, read, asked, resp>>

\* The write fails, or the datagram is lost.
Lost ==
  /\ leg = "response" /\ call = "sent" /\ stage = "header"
  /\ leg' = "lost"
  /\ UNCHANGED <<vars, msg, encoder, request, cache, read, asked, resp>>

Coding == leg \in {"request", "response"} /\ MsgNext /\ UNCHANGED proxy

Handle == Crash \/ HandleStarts \/ HandleQuest \/ Respond

ProxyNext == Coding \/ CacheSet \/ Handle \/ Lost

ProxySpec ==
  /\ ProxyInit /\ [][ProxyNext]_<<vars, msg, encoder, proxy>>
  /\ WF_<<vars, msg, encoder, proxy>>(Coding) /\ WF_<<vars, msg, encoder, proxy>>(Handle)
-----------------------------------------------------------------------------
(* Properties                                                              *)

\* On both ways the decoder never takes a message for another one.
Faithful == msg # Raw => NothingElse

\* A message of the program's own encoder comes back from the decoder, a request
\* and a response alike, unless the datagram is lost, if its names share suffixes
\* only with names that are written out, if no question is for the root, and if
\* it is short enough for pointers to reach all of it (encode_test.go:69-77).
ComesBackBothWays ==
  msg # Raw /\ Unchained /\ NoRootQuestion
    ~> (stage = "done" /\ msg # Raw /\ out = Sent) \/ leg = "lost" \/ ~Short

Known(n) == n \in DOMAIN Table \cup DOMAIN cache

AnswersFor(n) == {j \in 1..Len(out) : out[j].section = 2 /\ out[j].name = n}
AsksFor(n) == {i \in 1..Len(request.quests) : request.quests[i] = n}

\* What the requester decodes answers its request: for each time it asked for a
\* name that the table has, all the addresses of the name, and nothing for a name
\* that it did not ask for or that nobody knows (proxy.go:58-100, decode.go,
\* encode.go).
RightAnswer ==
  leg = "response" /\ stage = "done" /\ request # Raw =>
    /\ \A n \in DOMAIN Table :
         Cardinality(AnswersFor(n)) = Len(Table[n]) * Cardinality(AsksFor(n))
    /\ \A j \in 1..Len(out) : out[j].section = 2 =>
         Known(out[j].name) /\ AsksFor(out[j].name) # {}

\* An answer out of the cache never outlives its entry, wherever the clock has
\* been set between the fill and the answer (cache.go:44-60).
NeverOutlives ==
  \A r \in read : r.now + r.rest <= r.entry.ts + r.entry.ttl
=============================================================================
