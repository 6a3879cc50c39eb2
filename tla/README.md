# Verification of higs

higs is a proxy in two programs. The *client* redirects the machine's outgoing
TLS connections to itself and either relays each one to its destination or
hands it to the *server* through a tunnel; the server dials the destination on
the client's behalf. The tunnel is a websocket connection whose frames carry
packets that look like JSON. The client also has a DNS proxy, which is not
switched on yet.

This directory holds TLA+ modules that model the program, TLC configurations
that check them, and proofs for the TLA+ proof system. `PROJECT.json` lists the
runs, the mutants, the lines each definition models, the hazards and the
theorems.

**State of the code.** The repository is in the middle of a refactoring.
`internal/server` calls `proxy.Decode`, `proxy.DecodeHello` and
`Packet.PutData` with the parameters of an earlier version, and the client
names `proxy.Connect` and `proxy.Tunnel`, which do not exist. These packages do
not build. Their own control flow is complete, and it is what is modelled:
where the server calls the packet codec, the call decodes a packet or returns
an error.

## 1. The system

| Component | Files | State | Operations |
|---|---|---|---|
| Server tunnel | `internal/server/tunnel.go`, `conn.go` | table of connections; per connection a channel of 64 packets, a socket, three goroutines | read a frame and dispatch a Hello, Data or Close packet; dial; write packets to the target; read from the target |
| Frame codec | `wsok/frame.go` | position in a byte stream | `Encode`, `Decode` |
| Packet codec | `proxy/*.go` | position in a buffer; salt | `Encode`, `Decode`, Hello and Close payloads |
| Relay | `internal/client/server.go`, `direct.go`, `proxy.go` | two sockets and two copy loops per connection | find the destination, route, dial or open a dump file, copy both ways, close |
| Client lifecycle and NAT | `cmd/client/main.go`, `internal/client/sys_linux.go`, `server.go`, `proc/context.go` | nat table, port, context, accept loop, connection ids | start, add the rule, listen, accept, stop, clean up |
| DNS codec | `internal/dns/decode.go`, `encode.go`, `message.go` | position and mark in a buffer; table of name suffixes | `Decode`, `Encode` |
| DNS proxy and cache | `internal/dns/proxy.go`, `cache.go` | cache of addresses with a lifetime | answer a request from the local names or the cache |
| Websocket upgrade | `internal/server/websocket.go`, `wsok/connect.go` | HTTP connection, its deadlines, hijacked or not | request, token check, key hash, response, check of the response |
| Server lifecycle | `internal/server/server.go`, `handler.go`, `cmd/server/main.go` | HTTP server, context | serve, shut down within two seconds |
| Router, resolver | `internal/client/router.go`, `resolver.go` | a map each | parse a file, look up |
| Configuration | `scf/*.go`, both `config.go` | fields | parse `name: value` lines, apply, validate |
| Process name lookup, logger, debug tool, print, static page | `exec_name.go`, `proc/log.go`, `cmd/dns`, `print.go`, `static` | none that a decision depends on | output for people |

How they interact: the accept loop of the client hands each connection to a
relay, which asks the router. The tunnel's reader takes bytes from the frame
codec and packets from the packet codec, and passes packets to the connections
over channels; each connection writes to its own target. A tunnel
begins as an HTTP request that the server's handler takes out of `net/http`. What the
client is configured to do, whom it resolves itself and where it routes comes from three
files it reads at its start. The client's processes
share the kernel's nat table and the local port. The DNS proxy decodes a
request, asks the resolver and the cache, and encodes an answer.

What is hard:

* **Concurrency.** The tunnel has one reader and, per connection, a writer and
  a reader of the target; the relay has two copy loops that close each other's
  sockets; the client has an accept loop beside its main goroutine, and perhaps
  a second instance beside it.
* **Failure.** Dials fail, targets reset, clients vanish in the middle of a
  frame, `iptables` fails or is stopped after a second, processes are killed
  and leave a rule in the kernel.
* **Borrowed parts.** `net/http` sets deadlines on the connection that becomes a
  tunnel, ends `ListenAndServe` where a shutdown begins, and does not know of
  hijacked connections.
* **Bytes.** Three decoders read what a peer wrote and find their way in it by
  lengths, hashes and pointers; the network cuts the bytes where it likes.

What makes each component correct:

* tunnel: each target is handed the client's packets whole, in order, once; a
  stuck connection holds up nobody for ever but those it is documented to; a
  Hello cannot re-point a connection.
* frame and packet codecs: what was encoded is decoded; nothing else is taken
  for it; no read leaves its buffer.
* relay: closing one side never overtakes data; every connection is released.
* client lifecycle: a rule in the nat table has a process that will remove it; a
  client that serves has its rule; an interrupt ends it.
* DNS codec: names come back as they were sent, or as an error; decoding ends
  on any buffer.
* DNS proxy and cache: the response answers what was asked, for no longer than the
  cached address is good.
* upgrade and server lifecycle: the two ends agree on whether there is a tunnel; a tunnel
  lives until its client leaves or the process exits; an interrupt ends the process.
* configuration, resolver, router: a file means what is written in it; a client does not
  start half configured.

## 2. The modules

| Module | Models | Run with | Proofs |
|---|---|---|---|
| `OrderedPipe` | the promise of a tunnel to a connection (abstract) | | |
| `Tunnel` | server tunnel; implements `OrderedPipe` | `MCTunnel` | `Tunnel_proofs` |
| `FrameChannel` | the promise of the frame codec to both ends (abstract) | | |
| `FrameStream` | frame codec on a byte stream, with the loop around it; implements `FrameChannel` | `MCFrameStream` | `FrameStream_proofs` |
| `ServerApp` | server process, its HTTP connections, the websocket upgrade on both sides | `MCServerApp` | `ServerApp_proofs` |
| `Packet` | packet codec | `MCPacket` | `Packet_proofs` |
| `Relay` | one connection of the local server | itself | `Relay_proofs` |
| `ClientApp` | client processes of one machine | `MCClientApp` | `ClientApp_proofs` |
| `ClientLoad` | what a client reads before it runs: configuration, names, routes | `MCClientLoad` | `ClientLoad_proofs` |
| `DnsDecode` | DNS decoder on any buffer | `MCDnsDecode` | `DnsProxy_proofs` |
| `DnsMessage` | DNS encoder in front of that decoder | `MCDnsMessage` | `DnsProxy_proofs` |
| `DnsProxy` | the proxy and its cache between two passes through that codec | `MCDnsProxy` | `DnsProxy_proofs` |

`DnsProxy` extends `DnsMessage`, which extends `DnsDecode`: the run `DnsProxy` checks all three
together, on the datagrams of `MCDnsDecode` and messages built as in `MCDnsMessage`.

Definitions whose comment begins with "Mutant" are not part of a model: each is
a plausible error in the definition it names, and stands before it so that it
can take its place to show that a property would notice.

### Tunnel

One action per outcome of `readNextFrame` (`ReadHello`, `ReadData`,
`ReadStrayData`, `ReadClose`, `ReadRejected`, `ReadEOF`), of `serveConn`
(`DialOK`, `DialFail`), and of the goroutines it starts (`Dequeue`, `WriteOK`,
`WriteFail`, `RemoteReadEOF`). A send on a channel is two steps: the reader
holds the packet (`pend`) and later gets it into the channel (`Enqueue`), so that
blocking is visible. A packet is its number in the client's stream for that id.
`wrote`, `lost`, `sent`, `base` and `closeAt` are histories. Packets that the reader has not read yet are not in the
state: that those of other connections wait behind a blocked reader is that it is not `Reading`, and the
first half of `Relayed` says when it must be again. The target
may close or reset at any time (`TargetClose`, `TargetReset`), and an id of
`StallTargets` may stop reading for ever.

`done` is never closed and `dropConn` never called in the code, so that a
connection leaves the table by no action; `serveTunnel` waits for ever after the
client has gone. Both are part of the model by being absent. What the target
sends is read, encoded and dropped by the code (conn.go:91-94).

`ImplementsPipe` maps the tunnel to `OrderedPipe`: what was accepted for a
connection is the run of numbers since its Hello, what was delivered is `wrote`,
and a pipe is broken when its target was reset.

### FrameStream

The stream is a sequence of bytes, each known by its frame, its offset and the
mask byte that was xored into it. `EncodeHeader` and `EncodePayload` are the
`Write` calls of `Encode`. `Read` models `bufio.Reader.Read`, which returns what
its buffer holds and refills it only when it is empty: so the end of the
buffer and the pieces of the network may cut a header anywhere. `ReadHead`,
`ReadExtra` and `ReadPayload` are the three reads of `Decode`; `Fail` is its
error return, after which the loop of tunnel.go:66-74 calls it again where the
stream stands. Two bytes that start no frame read as any header, and a size that
was never written may be one the allocation refuses (`crash`). The size classes
125 and 65535 and the chunk of 16384 bytes are constants, so that short frames meet all
of them. `starts` is a history: the place in the stream where each frame begins.

`ImplementsChannel` maps the codec to `FrameChannel`: frames that were begun and that are
completely written on one side, and whether a part of a payload is (`Torn`); the frames the reader was given on the
other, and whether it has failed or ended. A reader that never failed ends only with every frame that was
completely written and not within a payload; after a failure the channel promises nothing, and the run
`FrameStreamDesync` shows why.

The channel does not promise that an end without a failure is a frame boundary, because it is not: `io.ReadFull`
returns the plain `io.EOF` when it has read no byte at all. A client that leaves behind a header and
before its payload ends the loop as one that leaves between two frames does, and its last frame is lost in silence.
A `Write` is one step of the model, whole or not at all, so that no header is written in part; a header cut by the client's end
behind its first two bytes would end the loop in the same silence (frame.go:92-95).

### ServerApp

`main` is `RunServer`, `watch` the goroutine that waits for the context and calls
`Shutdown`; `Shutdown` makes `ListenAndServe` return at once (`ServeEnds`), so that `Exit` may come while
handlers run. `http[c]` is the server's side of a connection: `net/http` reads the
request, then one action per statement of `handleWebsocket` that can end it or that
changes the connection: `Refuse`, `HijackFails`, `Hijack`, `ClearWrite`, `ClearRead`, `Flush`,
`StartTunnel`, and `Leak` for an error behind `Hijack`, which closes nothing. `timer[c]` holds the deadlines that are
set on the connection; one that passes while a request is read ends the connection; whether `Hijack`
clears them is left open, and one that is left fires in the tunnel (both `Expire`). The client's side writes the request of `WriteConnectRequest`, or any other
program's, and checks what it has read of the reply, which the network may have cut
after one of the numbers of lines in `Cuts`. The hash of the key is right exactly when the reply is to this request.

### Packet

A buffer is its length; each part is the offset and length the decoder takes for
it. The encoder's arithmetic (`CidAt` ... `Total`) and the decoder's reads
are written down separately and compared. `Read` goes to the stage `overrun` when
a read would leave the buffer. The hash is abstract in two ways: the two junk
lengths it gives are any in 1..8, equal on both sides when the salt is the
same; and the control sum matches exactly when decoder and encoder took the
same bytes for the same parts under the same salt. So a collision of the hash is
not modelled. For a buffer that the encoder did not write, every value read is
any value.

### Relay

`main` is the handler and `up` the goroutine it starts; data is counted in the
pieces of one `Read`. `io.Copy` reads a piece and writes it before it reads the
next. `Return` runs the deferred closes. Backends are a TCP connection or the
dump file, whose `Read` returns nothing for ever: that loop has no action that
ends it.

### ClientApp

`pc` follows `start` statement by statement; `rules` is the part of the nat
table that belongs to this program; it survives `Kill`. `iptables` fails or not,
and when it does may have done its work. `harmed` is a history: a kill or such a failure since the table was last
flushed. `Listen` may fail at any time, because other programs use ports as well. `Accept` hands out ids; after an error the accept loop
waits (`AcceptError`) until the context is done. What is read before is `ClientLoad`.

### ClientLoad

One action per line of a file (`Apply`, `BlockStarts`, `AddrRead`, `RouteRead`, `BadLine`) and one per end of a
file (`ConfigEnds`, `NamesEnd`, `RoutesEnd`); the files follow each other as in `start`. A line is what its
parser makes of it, `bad` for all it refuses by itself. Raw values of strings are sequences of characters,
because `ParseStringValue` wants a quote at one end only and drops both ends. `lines` is a history;
`NamesAsWritten` and `RoutesAsWritten` compare the tables with a reading of it that shares nothing with the parser:
for each name the lines below the last line of names that lists it.

### DnsDecode and DnsMessage

`Label` is one call of `decoder.label`, with its three kinds of byte as `Terminator`,
`Pointer` and `Text`; `NextItem` is the loops over the three sections. A buffer is
real bytes.

A step of the encoder in `DnsMessage` is one call: `PutHeader` is `encoder.header`; `NextName` the loops over the
three sections; `PutName` one call of `encoder.name`, which writes a terminator, a pointer, or a label and calls
itself for the rest; `PutFixed` what `quest` or `record` put behind a name. `offsets` is the table of suffixes, `rest` the
argument of the next call of `name`. `trail` is a history: which rest of which item's name was begun where. When the
encoder has `sent`, the decoder starts on its buffer. The encoder checks no length of a label, so that labels are
taken as `Decode` returns them, of 1 to 191 bytes.

### DnsProxy

A datagram, a request of the encoder's or any bytes, is decoded; `HandleStarts` begins the response, `HandleQuest` looks
up one question in the table of names, then in the cache, and adds its answers, and `Respond` hands the response to the
encoder; whoever asked decodes that. A datagram that does not decode, or has no or too many questions, is a panic (`Crash`). `CacheSet` stands for a caller the
program does not have yet. The clock is read once for each question and may be set back between the fill and the
read; the subtraction of `Cache.Get` is modulo `W`, the number of values of a `uint32`.

## 3. The runs

| Run | Checks | Bounds, and why they are enough |
|---|---|---|
| `Tunnel` | `TypeOK`, `StreamIntact`, `NothingDropped`, `HelloOnce`, `ImplementsPipe`, `Relayed` | 2 connections, channels of 1, 3 packets each: one packet written, one held by the writer or in the channel, one held by the reader, so that everything is full. Two connections show the reader blocked by the other one. |
| `TunnelCloseIgnored` | `CloseStopsRelay` is violated | 1 connection |
| `FrameStream` | `TypeOK`, `FaithfulUntilError`, `ImplementsChannel`, `Decoded` | 2 frames out of four: each size class, masked in two chunks, unmasked; a reader's buffer of 4 bytes, smaller than a header |
| `FrameStreamDesync` | `RoundTrip` is violated | the same, all masked |
| `ServerApp` | `TypeOK`, `Agreement`, `TunnelStays`, `Answered`, `Stops` | 2 connections, the right token and a wrong one, requests of others that lack each header in turn, replies read whole or without their last line; the server starts again after each exit |
| `ClientLoad` | `TypeOK`, `Usable`, `NamesAsWritten`, `RoutesAsWritten` | 4 lines of configuration: two required fields and both files; 6 of names: three blocks, or a name that is listed again; 3 of routes over two addresses |
| `Relay` | `TypeOK`, `UploadWhole`, `DownloadWhole`, `Releases` | 2 pieces each way: one written, one on its way |
| `RelayHalfClose` | `FullDuplex` is violated | the same |
| `ClientApp` | `TypeOK`, `RuleHasOwner`, `TransparentAlone`, `InterruptEnds` | 2 instances with 2 starts each: overlap, restart after a kill |
| `Packet` | `TypeOK`, `NoOverrun`, `WholeBuffer`, `RoundTrip` | all 64 pairs of lengths; foreign buffers of lengths around each check |
| `DnsProxy` | `TypeOK`, `NoOverrun`, `BackInPlace`, `Forward`, `Returns` of the decoder; `Faithful` and `ComesBackBothWays` of the codec; `RightAnswer`, `NeverOutlives` of the proxy | any bytes: names of up to 4 bytes out of zero, lengths and pointers, every cut of the header and several of the tail; messages: up to three names of up to three labels out of two, one and two questions with the root among them, and none, eight and nine of one name; a table of two names, an entry of each of two lifetimes, three times, `W` = 8 |
| `DnsChained` | `RoundTrip` is violated | up to three names of up to three labels: equal, nested and overlapping |

Deadlock checking is off in every run because every system here may rightly
stop: a decoder has ended, a client that is down need not be started, a
client of the tunnel need not send.

### Where code and documentation disagree

Four runs show it, each for one statement quoted in `PROJECT.json`:

* A Close packet changes nothing on the server (`TunnelCloseIgnored`).
* A header that arrives in two pieces desynchronises the frame stream for good
  (`FrameStreamDesync`); frame_test.go decodes from a `bytes.Buffer`, which never cuts.
* A client that shuts only its write side loses the rest of the answer (`RelayHalfClose`).
* A name whose shared suffix was itself written with a pointer is encoded, and refused by the
  decoder (`DnsChained`).

More was seen in the modelling and has no run of its own:

* A question for the root name is encoded as a lone terminator (encode.go:93-97), and `handle` has a case for it
  (dns/proxy.go:81-85), but the decoder refuses an empty name in a question (decode.go:131-133), so that the case is
  never reached and the proxy panics on such a request. `ComesBackBothWays` leaves these messages out
  (`NoRootQuestion`); they are among those of the run, and the property fails without the exclusion.
* A client that leaves between a header and its payload ends the server's loop without an error (frame.go:125-127,
  tunnel.go:69): the frame is lost in silence. `FrameChannel` allows it, because nothing in the repository says otherwise.
* An error of `Accept` ends the accept loop although the next line means to continue (server.go:134-143): the loop
  waits for a value of `done` that never comes. It is the state `wait` of `ClientApp`.
* An error behind `Hijack` leaves the connection open with nobody to serve it, and its client waiting
  (websocket.go:44-60). It is `leaked` in `ServerApp`, and `Answered` leaves it out.
* The process exits while handlers still run, because `ListenAndServe` returns where `Shutdown` begins
  (server.go:48-56): replies that Shutdown would wait for are cut. `Answered` holds because the connection ends as well.
* A datagram that does not decode or asks nothing panics the DNS proxy (dns/proxy.go:43-51); a response without
  answers does not carry the response bit (encode.go); an IPv6 address is answered as type A (message.go:181-189).
* A string of the configuration needs one quote only and loses both its ends (value.go:17-21), so that `names.txt"`
  is read as `ames.txt`; an IPv6 address that ends in `::` is read as a line of names (resolver.go:45).
* The cleanup flushes the whole nat table, with the rules of other programs (sys_linux.go:36), and a restart of the client
  overwrites the dump files of the last run (proxy.go:37).
* The control sum of a packet covers four bytes of its payload (encode.go:53).
* A connection whose dial failed stays in the table and its channel is drained by
  nobody; once it is full the tunnel's one reader blocks for ever (conn.go:44-47, tunnel.go:120). `Relayed` names
  that case (`Jammed`).
* A Hello with an IPv6 address panics in the decoder, in a goroutine that no `recover` covers
  (hello.go:139-140, tunnel.go:50-59). It is the stage `stub` of `Packet`.
* A connection dumped to a file is never released, and its handler spins (proxy.go:46); `Releases` leaves it out.
* A second client that cannot listen flushes the rule of the first on its way out (main.go:87, sys_linux.go:36);
  so does every orderly end of one of two instances. `TransparentAlone` leaves that case out, and no property covers it.
* SIGTERM and SIGKILL leave the rule behind (context.go:10). `RuleHasOwner` excuses them until the next flush.
* The DNS opcode is written to other bits than it is read from (encode.go:64, decode.go:90), and pointers
  count from the start of the caller's buffer (encode.go:131).

Beside `Unchained` and `NoRootQuestion`, `ComesBackBothWays` asks that a message is `Short`: pointers reach all of it. Every
message of the run is; the theorems `NamesComeBack` and `AnswersAreRight` have the same premise.

### Fairness

* `Tunnel`: weak fairness of each goroutine's step, because Go runs what can
  run; of the dial's end, because the kernel gives up; of writes to targets
  that keep reading. Nothing makes the client send or a target close. A blocked
  reader is not helped: `Enqueue` is fair only when there is room.
* `FrameStream`: the reader runs when bytes have arrived. The client may stop
  anywhere.
* `Relay`: both loops and the handler run; peers that are written to keep
  reading or go away.
* `ClientApp`: a process that runs goes on (`iptables` has a timeout, files and
  sockets answer). Nothing starts, interrupts or kills it.
* `ServerApp`: each goroutine runs, handlers end, a client that waits reads what arrives. Nothing starts or
  interrupts the server; no client need dial, send its request or leave.
* `DnsDecode`, `DnsProxy`: a function that was called runs to its end.
* `ClientLoad` has none, and no liveness.

## 4. The proofs

Each theorem holds for all values of the constants that satisfy the module's
named assumptions, which say no more than that bounds are numbers, that a channel
has room for one packet and that a process is not the absence of one.

* **Tunnel.** The inductive invariant is `TypeOK /\ OneSend /\ NothingDropped`.
  `StreamIntact` alone is not inductive: that the next packet written is the
  right one depends on what the writer holds, the channel contains and the
  reader is about to send. `NothingDropped` says that these places hold
  consecutive numbers and add up to what was sent. From it follow
  `StreamIntact`, that a repeated Hello is refused, and the refinement: `DialOK`
  and the like stutter, `ReadHello` opens, `ReadData` accepts, `WriteOK`
  delivers, `TargetReset` breaks.
* **FrameStream.** The invariant has two parts, and the types. *Layout*: `starts` lies ascending in the stream, and every byte
  of frame `f` at offset `o` stands at `starts[f] + o`, carrying the mask byte of its place in the payload
  whatever the chunk it was written in. *Where*: until the first error, the reader's phase
  fixes its place: at the start of the next frame, two bytes behind it, or behind its header; and when it has ended,
  no frame was complete that it did not return, and no payload begun. So what it reads is the header
  or the payload of exactly that frame. From it follow `FaithfulUntilError` and, step by step, the
  refinement of `FrameChannel`.
* **ServerApp.** Beside the types, what each stage of a connection says of its request, its deadlines and its
  reply: `Agreement` needs that a reply of 101 exists only behind the checks of the handler, and
  `TunnelStays` that both deadlines are cleared before a tunnel starts.
* **ClientLoad.** The types and `Usable` need what is known while each file is read: that it is named in the
  configuration, and that every block that is complete has an address. That the last of several lines exists
  at all, from which the tables are made, is taken from the well-foundedness of the naturals. `RoutesAsWritten` and
  `NamesAsWritten` compare a table with all lines of its file, so that their invariants relate what has been collected with
  what has been read. For routes (`RoutesRead`), the entries are the lines, one for one. For names (`NamesRead`), there
  are places `at[k]` of the blocks begun so far: at each stands a line with the names of the block, below it
  its addresses in order, the next block begins right behind the last of them, and the blocks cover the file. From that
  the last block that lists a name begins at the last line that does, and what stands `Below` it is the list of
  the block. That a file is refused for nothing but what is `Malformed` or `Unfinished`, and accepted
  only without it, is read off the same places.
* **Relay.** Types, and what each ended loop implies of the flags that ended it.
* **ClientApp.** `RuleHasOwner` is inductive with the types: only a kill and a failure of `iptables` leave a rule
  without a process, and both set `harmed` until a flush leaves no rule at all. `TransparentAlone`
  needs that an instance never started is not running, and that the rule is there
  from `NatSetup` on, not only while serving.
* **Packet.** The invariant gives, for each stage, a lower bound of what is left
  in the buffer and, for the encoder's buffers, the exact position. The bound is the one that
  `minPacketLength` buys for any two junk lengths, up to the check of `dlen`, which pays for the rest.
* **DnsDecode.** The invariant gives for each stage where the position and the mark may be: only
  while a name is read may the position be beyond the end, and then the mark is inside. `ProxyDecodes` carries it into the proxy.
* **DnsMessage.** That names come back (`Faithful`) would be an induction over the names of a message. It is an
  invariant of the encoder's and the decoder's steps instead, in two halves. *What Encode has laid out* (`EncodeInv`): each entry
  of `trail` is a place where a rest of an item's name begins, and there stands a zero for an empty rest, a pointer to an
  earlier entry with the same rest, or the first label with the entry of the other labels behind it; behind the name stands the fixed part of its
  item, and behind that the next one. *Where Decode is in it* (`DecodeInv`): what it has returned is the beginning of what was
  sent; in a name, what it has read together with the rest at its place is the name of the item; and `mark`, when
  set, is where the item goes on. No induction is left: a step of `Label` reads one entry of `trail`.
  A pointer has fourteen bits and the code cuts an offset to them without a check
  (encode.go:119-132), so that the theorem is about behaviours in which no message is longer than 16384
  bytes: `ProxySpec /\ []Short`. A request comes in a buffer of 4096 bytes (server.go:89), and a response to its at most
  eight questions is longer than that only if the table has many dozens of addresses for each of them.
* **DnsProxy.** `AnswersAreRight` joins both: a request of the encoder's is decoded as it was sent, each step of `handle`
  adds to the response the addresses of one question (`RespInv` counts them, for each name of the table, against the questions
  looked at), and the response comes back from the codec. `CacheNeverOutlives` needs that every entry read was in
  the cache with a lifetime below `W`; the subtraction modulo `W` then gives no more than what was left, even
  when the clock stands before the fill.

Every invariant and every action property that a passing run checks is a theorem. Only model-checked is the
liveness (`Relayed`, `Decoded`, `Releases`, `Answered`, `Stops`, `InterruptEnds`, `Returns`, `ComesBackBothWays`), because the
prover does not handle fairness. `OneSend` and `OnlyAuthorized` are proved
(`SingleSend`, `OnlyAuthorizedHolds`) and have no run of their own.

## 5. Left out

For good: the process name lookup, the logger, the debug tool, the
printing and the static page keep no state that a decision depends on;
`proxy.Connect` and `proxy.Tunnel` do not exist.

In part: `HandleDNS` is started by nobody (server.go:58-63); `DnsProxy` has what it does with one datagram, and not its
loop, which keeps nothing between two of them. The server's configuration goes through the same parser as the client's, with other
fields. The names and contents of dump files, and the process that owns a socket, are in no model.

What remains to be done:

1. An end-to-end composition: a stream through `FrameStream` into `Tunnel`, on top of `FrameChannel` in place of the
   bytes, once the server calls the packet codec with its present parameters.
2. The safety half of `ComesBackBothWays` as a theorem: the decoder refuses no message that is `Unchained` and
   `Short` and has `NoRootQuestion`.
3. `proxy.Connect` and `proxy.Tunnel` with the client's half of a tunnel, when they exist.
