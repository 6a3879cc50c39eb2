----------------------------- MODULE ClientLoad -----------------------------
(***************************************************************************)
(* What a client reads before it runs: StartClient and the first half of   *)
(* start in cmd/client/main.go.  scf.Parse reads the configuration,        *)
(* parseNames (internal/client/resolver.go) the table that the resolver    *)
(* answers from, and parseRoutes (router.go) the router's table.           *)
(*                                                                         *)
(* A file is read line by line; empty lines and comments change nothing    *)
(* and are left out.  A line is what its parser makes of it: "bad" stands  *)
(* for all that the parser refuses by itself, and for a failing read.      *)
(***************************************************************************)
EXTENDS Integers, Sequences

CONSTANTS
  StringFields, PortFields,  \* fields of client.Config
  Required,                  \* fields that Valid wants
  NamesFile, RoutesFile,     \* the fields that name the other two files
  Chars, Quote,              \* characters, and " among them
  RawStrings,                \* raw values of string fields: sequences of characters
  RawPorts,                  \* raw values of port fields that are numbers
  Names, Addrs, IPs,         \* host names and their addresses, and addresses to route
  MaxLines                   \* bound: lines of a file, MaxLines[file]

Files == {"config", "names", "routes"}
Fields == StringFields \cup PortFields

ASSUME FieldsAssumption ==
  /\ StringFields \cap PortFields = {} /\ Required \subseteq Fields
  /\ {NamesFile, RoutesFile} \subseteq StringFields
ASSUME RawAssumption == RawPorts \subseteq Nat /\ RawStrings \subseteq Seq(Chars)
ASSUME MaxLinesAssumption == MaxLines \in [Files -> Nat]

VARIABLES
  file,    \* the file being read, or "loaded", or "failed"
  lines,   \* history: its lines that have been read
  config,  \* client.Config
  entry,   \* parseNames: the block being read
  entries, \* parseNames, parseRoutes: what has been read
  table,   \* Resolver.m
  routes   \* Router.m

vars == <<file, lines, config, entry, entries, table, routes>>

NoBlock == [names |-> {}, list |-> <<>>]
Zero(f) == IF f \in PortFields THEN 0 ELSE <<>>

Init ==
  /\ file = "config" /\ lines = <<>>
  /\ config = [f \in Fields |-> Zero(f)]
  /\ entry = NoBlock /\ entries = <<>>
  /\ table = <<>> /\ routes = <<>>
-----------------------------------------------------------------------------
Bad == [kind |-> "bad"]

FieldLines == [kind : {"field"}, field : StringFields, raw : RawStrings]
              \cup [kind : {"field"}, field : PortFields, raw : RawPorts]
BlockLines == [kind : {"names"}, names : (SUBSET Names) \ {{}}]
AddrLines == [kind : {"addr"}, addr : Addrs]

\* A route's line with the word behind the address: "" when there is none.
RouteLines == [kind : {"route"}, ip : IPs, word : {"", "direct", "proxy", "block", "other"}]

Fail == file' = "failed" /\ UNCHANGED <<config, entry, entries, table, routes>>

\* The next line of a file.
Line(f, l) ==
  /\ file = f /\ Len(lines) < MaxLines[f]
  /\ lines' = Append(lines, l)

\* Another file is opened, or the loading is over.
Open(f) == file' = f /\ lines' = <<>> /\ entry' = NoBlock /\ entries' = <<>>

BadLine == \E f \in Files : Line(f, Bad) /\ Fail

\* os.Open fails.
NoFile == lines = <<>> /\ file \in Files /\ Fail /\ UNCHANGED lines
-----------------------------------------------------------------------------
(* scf.Parse of a client.Config                                            *)

\* The largest value of a uint16.
MaxPort == 65535

\* ParseStringValue succeeds: a quote at one of the ends is enough.
ParsesString(v) == Len(v) >= 2 /\ (v[1] = Quote \/ v[Len(v)] = Quote)

Parses(l) == IF l.field \in PortFields THEN l.raw <= MaxPort ELSE ParsesString(l.raw)

\* ParseStringValue drops both ends, whatever they are.
Value(l) == IF l.field \in PortFields THEN l.raw ELSE SubSeq(l.raw, 2, Len(l.raw) - 1)

\* Config.Apply assigns what the parser returns, also when it returns an error.
Apply(l) ==
  /\ Line("config", l)
  /\ config' = [config EXCEPT ![l.field] = IF Parses(l) THEN Value(l) ELSE Zero(l.field)]
  /\ file' = IF Parses(l) THEN file ELSE "failed"
  /\ UNCHANGED <<entry, entries, table, routes>>

Valid == \A f \in Required : config[f] # Zero(f)

\* The file that start reads next, of those that the configuration names.
AfterNames == IF config[RoutesFile] # <<>> THEN "routes" ELSE "loaded"
AfterConfig == IF config[NamesFile] # <<>> THEN "names" ELSE AfterNames

ConfigEnds ==
  /\ file = "config"
  /\ \/ ~Valid /\ Fail /\ UNCHANGED lines
     \/ Valid /\ Open(AfterConfig) /\ UNCHANGED <<config, table, routes>>
-----------------------------------------------------------------------------
(* parseNames                                                              *)

\* Mutant of BlockStarts: the addresses of the block before are not missed.
BlockStartsUnchecked(l) ==
  /\ Line("names", l)
  /\ entries' = IF entry.names = {} THEN entries ELSE Append(entries, entry)
  /\ entry' = [names |-> l.names, list |-> <<>>]
  /\ UNCHANGED <<file, config, table, routes>>

\* A line with names: the block before it is complete, or there is none.
BlockStarts(l) ==
  /\ Line("names", l)
  /\ \/ entry.names # {} /\ entry.list = <<>> /\ Fail
     \/ /\ entry.names = {} \/ entry.list # <<>>
        /\ entries' = IF entry.names = {} THEN entries ELSE Append(entries, entry)
        /\ entry' = [names |-> l.names, list |-> <<>>]
        /\ UNCHANGED <<file, config, table, routes>>

AddrRead(l) ==
  /\ Line("names", l)
  /\ \/ entry.names = {} /\ Fail
     \/ /\ entry.names # {}
        /\ entry' = [entry EXCEPT !.list = Append(@, l.addr)]
        /\ UNCHANGED <<file, config, entries, table, routes>>

\* What a map holds after all of a list have been stored in it is the latest.
Latest(S) == CHOOSE i \in S : \A j \in S : j <= i

\* Resolver.init.
ResolverInit(list) ==
  [n \in UNION {list[i].names : i \in 1..Len(list)} |->
     list[Latest({i \in 1..Len(list) : n \in list[i].names})].list]

\* Mutant of NamesEnd: the block that the file ends in is forgotten.
NamesEndForgets ==
  /\ file = "names"
  /\ table' = ResolverInit(entries)
  /\ Open(AfterNames) /\ UNCHANGED <<config, routes>>

\* The end of the file completes the last block.
NamesEnd ==
  /\ file = "names"
  /\ \/ entry.names # {} /\ entry.list = <<>> /\ Fail /\ UNCHANGED lines
     \/ /\ entry.names = {} \/ entry.list # <<>>
        /\ table' = ResolverInit(IF entry.names = {} THEN entries ELSE Append(entries, entry))
        /\ Open(AfterNames) /\ UNCHANGED <<config, routes>>

\* Resolver.Resolve.
Resolve(n) == IF n \in DOMAIN table THEN table[n] ELSE <<>>
-----------------------------------------------------------------------------
(* parseRoutes                                                             *)

\* Mutant of RouteRead: without a word there is no action.
RouteReadNoDefault(l) ==
  /\ Line("routes", l)
  /\ \/ l.word = "other" /\ Fail
     \/ /\ l.word # "other"
        /\ entries' = Append(entries, [ip |-> l.ip, act |-> l.word])
        /\ UNCHANGED <<file, config, entry, table, routes>>

\* parseRoutesLine: without a word the connection goes through the proxy.
RouteRead(l) ==
  /\ Line("routes", l)
  /\ \/ l.word = "other" /\ Fail
     \/ /\ l.word # "other"
        /\ entries' = Append(entries, [ip |-> l.ip, act |-> IF l.word = "" THEN "proxy" ELSE l.word])
        /\ UNCHANGED <<file, config, entry, table, routes>>

\* Mutant of RouterInit: the first line of an address counts.
RouterInitFirst(list) ==
  [ip \in {list[i].ip : i \in 1..Len(list)} |->
     list[CHOOSE i \in 1..Len(list) : list[i].ip = ip /\ \A j \in 1..(i - 1) : list[j].ip # ip].act]

\* Router.init.
RouterInit(list) ==
  [ip \in {list[i].ip : i \in 1..Len(list)} |->
     list[Latest({i \in 1..Len(list) : list[i].ip = ip})].act]

RoutesEnd ==
  /\ file = "routes"
  /\ routes' = RouterInit(entries)
  /\ Open("loaded") /\ UNCHANGED <<config, table>>

\* Router.Lookup.
Lookup(ip) == IF ip \in DOMAIN routes THEN routes[ip] ELSE "auto"
-----------------------------------------------------------------------------
Next ==
  \/ BadLine \/ NoFile
  \/ \E l \in FieldLines : Apply(l)
  \/ ConfigEnds
  \/ \E l \in BlockLines : BlockStarts(l)
  \/ \E l \in AddrLines : AddrRead(l)
  \/ NamesEnd
  \/ \E l \in RouteLines : RouteRead(l)
  \/ RoutesEnd

Spec == Init /\ [][Next]_vars
-----------------------------------------------------------------------------
(* Properties                                                              *)

Blocks == [names : SUBSET Names, list : Seq(Addrs)]
RouteEntries == [ip : IPs, act : {"direct", "proxy", "block"}]
Lines == {Bad} \cup FieldLines \cup BlockLines \cup AddrLines \cup RouteLines

TypeOK ==
  /\ file \in Files \cup {"loaded", "failed"}
  /\ lines \in Seq(Lines)
  /\ \A f \in StringFields : config[f] \in Seq(Chars)
  /\ \A f \in PortFields : config[f] \in 0..MaxPort
  /\ entry \in Blocks
  /\ entries \in Seq(Blocks) \cup Seq(RouteEntries)
  /\ DOMAIN table \subseteq Names /\ \A n \in DOMAIN table : table[n] \in Seq(Addrs)
  /\ DOMAIN routes \subseteq IPs /\ \A ip \in DOMAIN routes : routes[ip] \in {"direct", "proxy", "block"}

\* A client that goes on has what it needs: no required value is empty or zero,
\* no port was cut to sixteen bits, a host of its table has an address to
\* connect to, and a file was read only if the configuration names it
\* (config.go:70-84, value.go:24-34, resolver.go:45-50, main.go:54-72).
Usable ==
  file \in {"names", "routes", "loaded"} =>
    /\ Valid
    /\ \A n \in DOMAIN table : table[n] # <<>>
    /\ table # <<>> => config[NamesFile] # <<>>
    /\ routes # <<>> => config[RoutesFile] # <<>>

IsBlock(l) == l.kind = "names"

\* The addresses between a line with names and the next one.
Below(i) ==
  LET last == Latest({k \in 0..(Len(lines) - i) : \A j \in 1..k : ~IsBlock(lines[i + j])})
  IN [k \in 1..last |-> lines[i + k].addr]

HeadersOf(n) == {i \in 1..Len(lines) : IsBlock(lines[i]) /\ n \in lines[i].names}

\* A bad line, an address above all names, or names right below names; and a file
\* that ends in names.
Malformed(s) ==
  \E i \in 1..Len(s) : \/ s[i] = Bad
                       \/ s[i].kind = "addr" /\ \A j \in 1..(i - 1) : ~IsBlock(s[j])
                       \/ i > 1 /\ IsBlock(s[i]) /\ IsBlock(s[i - 1])
Unfinished(s) == s # <<>> /\ IsBlock(s[Len(s)])

\* A names file means what is written in it.  Every name has the addresses below
\* the last line that lists it, in order, be that line the last of the file or
\* followed by others; other names have none; and the file is refused if and only
\* if it cannot be opened, has a bad line, an address above all names, or names
\* without addresses (resolver.go:32-83, resolver_test.go).
NamesAsWritten ==
  [][file = "names" /\ file' # "names" =>
       IF file' = "failed"
       THEN lines = <<>> \/ Malformed(lines') \/ (lines' = lines /\ Unfinished(lines))
       ELSE /\ ~Malformed(lines) /\ ~Unfinished(lines)
            /\ \A n \in Names :
                 Resolve(n)' = IF HeadersOf(n) = {} THEN <<>>
                               ELSE Below(Latest(HeadersOf(n)))]_vars

LinesOf(ip) == {i \in 1..Len(lines) : lines[i].ip = ip}

\* A routes file means what is written in it: the last line of an address counts,
\* a line without a word sends to the proxy, and an address without a line is
\* left to the default (router.go:22-46, 81-137, router_test.go).
RoutesAsWritten ==
  [][file = "routes" /\ file' = "loaded" =>
       \A ip \in IPs :
         Lookup(ip)' = IF LinesOf(ip) = {} THEN "auto"
                       ELSE LET word == lines[Latest(LinesOf(ip))].word
                            IN IF word = "" THEN "proxy" ELSE word]_vars
=============================================================================
