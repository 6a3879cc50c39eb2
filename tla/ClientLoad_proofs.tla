-------------------------- MODULE ClientLoad_proofs --------------------------
(* Proofs about ClientLoad for any files, fields, names and addresses.      *)
EXTENDS ClientLoad, TLAPS, WellFoundedInduction, SequenceTheorems

\* A set of positions of a list has a latest one, if it is not empty.
LEMMA LatestMember ==
  ASSUME NEW n \in Nat, NEW S, S \subseteq 1..n, S # {}
  PROVE  \E k \in S : \A j \in S : j <= k
<1> DEFINE R == OpToRel(<, Nat)
           T == {i \in Nat : n - i \in S}
<1>1. PICK k \in S : TRUE
  OBVIOUS
<1>2. n - (n - k) = k /\ n - k \in Nat
  OBVIOUS
<1>3. T # {} /\ T \subseteq Nat
  BY <1>1, <1>2
<1>4. \E x \in T : \A y \in T : ~ (<<y, x>> \in R)
  BY <1>3, NatLessThanWellFounded, WFMin
<1>5. PICK x \in T : \A y \in T : ~ (<<y, x>> \in R)
  BY <1>4
<1>6. n - x \in S
  OBVIOUS
<1>7. \A j \in S : j <= n - x
  <2> TAKE j \in S
  <2>1. j \in Int /\ n - j \in Nat /\ n - (n - j) = j
    OBVIOUS
  <2>2. n - j \in T
    BY <2>1
  <2>3. ~(n - j < x)
    BY <1>5, <2>2, <1>3 DEF OpToRel
  <2> QED
    BY <2>1, <2>3
<1> HIDE DEF T, R
<1> QED
  BY <1>6, <1>7

LEMMA LatestIn ==
  ASSUME NEW n \in Nat, NEW S, S \subseteq 1..n, S # {}
  PROVE  Latest(S) \in S
<1>1. PICK k \in S : \A j \in S : j <= k
  BY LatestMember
<1> QED
  BY <1>1 DEF Latest
-----------------------------------------------------------------------------
Values == [Fields -> Seq(Chars) \cup (0..MaxPort)]

\* What is known of the file that is being read: the ones before it are taken in,
\* it is named in the configuration, and a block that is complete has an address.
Reading ==
  /\ file = "config" => table = <<>> /\ routes = <<>>
  /\ file = "names" =>
       /\ config[NamesFile] # <<>> /\ table = <<>> /\ routes = <<>>
       /\ entries \in Seq(Blocks)
       /\ \A i \in 1..Len(entries) : entries[i].list # <<>>
  /\ file = "routes" =>
       /\ config[RoutesFile] # <<>> /\ routes = <<>>
       /\ entries \in Seq(RouteEntries)

IInv == TypeOK /\ config \in Values /\ Reading /\ Usable

LEMMA MaxPortNat == MaxPort \in Nat
  BY DEF MaxPort

LEMMA InitIInv == Init => IInv
<1> SUFFICES ASSUME Init PROVE IInv
  OBVIOUS
<1>1. \A f \in StringFields : config[f] \in Seq(Chars)
  BY FieldsAssumption DEF Zero, Fields, Init
<1>2. \A f \in PortFields : config[f] \in 0..MaxPort
  BY MaxPortNat DEF Zero, Fields, Init
<1>3. entry \in Blocks /\ entries \in Seq(Blocks) /\ lines \in Seq(Lines)
  BY DEF NoBlock, Blocks, Init
<1>4. DOMAIN table = {} /\ DOMAIN routes = {} /\ table = <<>> /\ routes = <<>>
  BY DEF Init
<1>5. file = "config" /\ file \in Files
  BY DEF Init, Files
<1>6. TypeOK
  BY <1>1, <1>2, <1>3, <1>4, <1>5 DEF TypeOK
<1>7. config = [f \in Fields |-> config[f]]
  BY DEF Init
<1>8. config \in Values
  BY <1>1, <1>2, <1>7 DEF Values, Fields
<1>9. Reading /\ Usable
  BY <1>4, <1>5 DEF Reading, Usable
<1> QED
  BY <1>6, <1>8, <1>9 DEF IInv

\* A step that refuses the file.
LEMMA FailStep ==
  ASSUME IInv, Fail, lines' \in Seq(Lines)
  PROVE  IInv'
<1>1. /\ file' = "failed" /\ config' = config /\ entry' = entry
      /\ entries' = entries /\ table' = table /\ routes' = routes
  BY DEF Fail
<1>2. TypeOK'
  BY <1>1 DEF IInv, TypeOK
<1>3. config' \in Values
  BY <1>1 DEF IInv
<1>4. Reading' /\ Usable'
  BY <1>1 DEF Reading, Usable
<1> QED
  BY <1>2, <1>3, <1>4 DEF IInv

LEMMA AppendLine ==
  ASSUME NEW f, NEW l \in Lines, IInv, Line(f, l)
  PROVE  lines' \in Seq(Lines)
  BY DEF IInv, TypeOK, Line

\* What is assigned to a field is of the field's type.
LEMMA AssignedType ==
  ASSUME NEW l \in FieldLines, NEW v,
         v = IF Parses(l) THEN Value(l) ELSE Zero(l.field)
  PROVE  /\ l.field \in StringFields => v \in Seq(Chars)
         /\ l.field \in PortFields => v \in 0..MaxPort
<1>1. ASSUME l.field \in StringFields PROVE v \in Seq(Chars)
  <2>1. l.field \notin PortFields /\ l.raw \in Seq(Chars)
    BY <1>1, FieldsAssumption, RawAssumption DEF FieldLines
  <2>2. CASE Parses(l)
    <3>1. Len(l.raw) \in Nat /\ Len(l.raw) - 1 \in Int
      BY <2>1
    <3>2. SubSeq(l.raw, 2, Len(l.raw) - 1) \in Seq(Chars)
      BY <2>1, <3>1, SubSeqProperties
    <3> QED
      BY <2>1, <2>2, <3>2 DEF Value
  <2>3. CASE ~Parses(l)
    BY <2>1, <2>3 DEF Zero
  <2> QED
    BY <2>2, <2>3
<1>2. ASSUME l.field \in PortFields PROVE v \in 0..MaxPort
  <2>1. l.field \notin StringFields /\ l.raw \in Nat
    BY <1>2, FieldsAssumption, RawAssumption DEF FieldLines
  <2>2. CASE Parses(l)
    BY <1>2, <2>1, <2>2, MaxPortNat DEF Value, Parses
  <2>3. CASE ~Parses(l)
    BY <1>2, <2>3, MaxPortNat DEF Zero
  <2> QED
    BY <2>2, <2>3
<1> QED
  BY <1>1, <1>2

\* A field of the configuration.
LEMMA ApplyStep ==
  ASSUME NEW l \in FieldLines, IInv, Apply(l)
  PROVE  IInv'
<1> DEFINE v == IF Parses(l) THEN Value(l) ELSE Zero(l.field)
<1>1. lines' \in Seq(Lines)
  BY AppendLine DEF Apply, Lines
<1>2. /\ file = "config" /\ file' \in {"config", "failed"} /\ l.field \in Fields
      /\ config' = [config EXCEPT ![l.field] = v]
      /\ entry' = entry /\ entries' = entries /\ table' = table /\ routes' = routes
  BY DEF Apply, Line, FieldLines, Fields
<1>3. /\ l.field \in StringFields => v \in Seq(Chars)
      /\ l.field \in PortFields => v \in 0..MaxPort
  BY AssignedType
<1> HIDE DEF v
<1>4. \A f \in Fields : config'[f] = IF f = l.field THEN v ELSE config[f]
  BY <1>2 DEF IInv, Values
<1>5. config' \in Values
  BY <1>2, <1>3 DEF IInv, Values, Fields
<1>6. /\ \A f \in StringFields : config'[f] \in Seq(Chars)
      /\ \A f \in PortFields : config'[f] \in 0..MaxPort
  BY <1>3, <1>4 DEF IInv, TypeOK, Fields
<1>7. TypeOK'
  BY <1>1, <1>2, <1>6 DEF IInv, TypeOK, Files
<1>8. Reading' /\ Usable'
  BY <1>2 DEF IInv, Reading, Usable
<1> QED
  BY <1>5, <1>7, <1>8 DEF IInv

LEMMA ConfigEndsStep == IInv /\ ConfigEnds => IInv'
<1> SUFFICES ASSUME IInv, ConfigEnds PROVE IInv'
  OBVIOUS
<1>1. lines \in Seq(Lines) /\ file = "config" /\ table = <<>> /\ routes = <<>>
  BY DEF IInv, TypeOK, Reading, ConfigEnds
<1>2. CASE Fail /\ UNCHANGED lines
  BY <1>1, <1>2, FailStep
<1>3. CASE Valid /\ Open(AfterConfig) /\ UNCHANGED <<config, table, routes>>
  <2>1. /\ AfterConfig \in {"names", "routes", "loaded"}
        /\ AfterConfig = "names" => config[NamesFile] # <<>>
        /\ AfterConfig = "routes" => config[RoutesFile] # <<>>
    BY DEF AfterConfig, AfterNames
  <2>2. /\ file' = AfterConfig /\ lines' = <<>> /\ entry' = NoBlock /\ entries' = <<>>
        /\ config' = config /\ table' = <<>> /\ routes' = <<>>
    BY <1>1, <1>3 DEF Open
  <2>3. NoBlock \in Blocks /\ <<>> \in Seq(Blocks) /\ <<>> \in Seq(RouteEntries)
        /\ <<>> \in Seq(Lines) /\ Len(<<>>) = 0
    BY DEF NoBlock, Blocks
  <2>4. DOMAIN <<>> = {}
    OBVIOUS
  <2>5. TypeOK'
    BY <2>1, <2>2, <2>3, <2>4 DEF IInv, TypeOK, Files
  <2>6. Reading'
    BY <2>1, <2>2, <2>3 DEF Reading
  <2>7. Valid'
    BY <1>3, <2>2 DEF Valid
  <2>8. Usable'
    BY <2>2, <2>4, <2>7 DEF Usable
  <2> QED
    BY <2>2, <2>5, <2>6, <2>8 DEF IInv
<1> QED
  BY <1>2, <1>3 DEF ConfigEnds

\* A block that is complete joins the others.
LEMMA JoinBlock ==
  ASSUME NEW list \in Seq(Blocks), NEW block \in Blocks, block.list # <<>>,
         \A i \in 1..Len(list) : list[i].list # <<>>
  PROVE  /\ Append(list, block) \in Seq(Blocks)
         /\ \A i \in 1..Len(Append(list, block)) : Append(list, block)[i].list # <<>>
  OBVIOUS

LEMMA BlockStep ==
  ASSUME NEW l \in BlockLines, IInv, BlockStarts(l)
  PROVE  IInv'
<1>1. lines' \in Seq(Lines)
  BY AppendLine DEF BlockStarts, Lines
<1>2. CASE Fail
  BY <1>1, <1>2, FailStep
<1>3. CASE /\ entry.names = {} \/ entry.list # <<>>
           /\ entries' = IF entry.names = {} THEN entries ELSE Append(entries, entry)
           /\ entry' = [names |-> l.names, list |-> <<>>]
           /\ UNCHANGED <<file, config, table, routes>>
  <2>1. /\ file = "names" /\ entry \in Blocks /\ entries \in Seq(Blocks)
        /\ \A i \in 1..Len(entries) : entries[i].list # <<>>
    BY DEF BlockStarts, Line, IInv, TypeOK, Reading
  <2>2. /\ entries' \in Seq(Blocks)
        /\ \A i \in 1..Len(entries') : entries'[i].list # <<>>
    BY <1>3, <2>1, JoinBlock
  <2>3. entry' \in Blocks
    BY <1>3 DEF Blocks, BlockLines
  <2>4. TypeOK'
    BY <1>1, <1>3, <2>2, <2>3 DEF IInv, TypeOK
  <2>5. Reading'
    BY <1>3, <2>1, <2>2 DEF IInv, Reading
  <2>6. Usable'
    BY <1>3 DEF IInv, Usable, Valid
  <2> QED
    BY <1>3, <2>4, <2>5, <2>6 DEF IInv
<1> QED
  BY <1>2, <1>3 DEF BlockStarts

LEMMA AddrStep ==
  ASSUME NEW l \in AddrLines, IInv, AddrRead(l)
  PROVE  IInv'
<1>1. lines' \in Seq(Lines)
  BY AppendLine DEF AddrRead, Lines
<1>2. CASE Fail
  BY <1>1, <1>2, FailStep
<1>3. CASE /\ entry' = [entry EXCEPT !.list = Append(@, l.addr)]
           /\ UNCHANGED <<file, config, entries, table, routes>>
  <2>1. entry \in Blocks /\ l.addr \in Addrs
    BY DEF IInv, TypeOK, AddrLines
  <2>2. entry' \in Blocks
    <3>1. entry = [names |-> entry.names, list |-> entry.list]
          /\ entry.names \in SUBSET Names /\ entry.list \in Seq(Addrs)
      BY <2>1 DEF Blocks
    <3>2. Append(entry.list, l.addr) \in Seq(Addrs)
      BY <2>1, <3>1
    <3>3. entry' = [names |-> entry.names, list |-> Append(entry.list, l.addr)]
      BY <1>3, <3>1
    <3> QED
      BY <3>1, <3>2, <3>3 DEF Blocks
  <2>3. TypeOK'
    BY <1>1, <1>3, <2>2 DEF IInv, TypeOK
  <2>4. Reading' /\ Usable'
    BY <1>3 DEF IInv, Reading, Usable, Valid
  <2> QED
    BY <1>3, <2>3, <2>4 DEF IInv
<1> QED
  BY <1>2, <1>3 DEF AddrRead

\* The table that is made of complete blocks: each host has an address.
LEMMA ResolverTable ==
  ASSUME NEW list \in Seq(Blocks), \A i \in 1..Len(list) : list[i].list # <<>>
  PROVE  /\ DOMAIN ResolverInit(list) \subseteq Names
         /\ \A n \in DOMAIN ResolverInit(list) :
              ResolverInit(list)[n] \in Seq(Addrs) \ {<<>>}
<1> DEFINE Of(n) == {i \in 1..Len(list) : n \in list[i].names}
<1>1. \A i \in 1..Len(list) : list[i].names \subseteq Names /\ list[i].list \in Seq(Addrs)
  <2> TAKE i \in 1..Len(list)
  <2>1. list[i] \in Blocks
    OBVIOUS
  <2> QED
    BY <2>1 DEF Blocks
<1>2. DOMAIN ResolverInit(list) = UNION {list[i].names : i \in 1..Len(list)}
  BY DEF ResolverInit
<1>3. ASSUME NEW n \in DOMAIN ResolverInit(list)
      PROVE  n \in Names /\ ResolverInit(list)[n] \in Seq(Addrs) \ {<<>>}
  <2>1. PICK i \in 1..Len(list) : n \in list[i].names
    BY <1>2, <1>3
  <2>2. Of(n) # {} /\ Of(n) \subseteq 1..Len(list) /\ Len(list) \in Nat
    BY <2>1
  <2>3. Latest(Of(n)) \in Of(n)
    BY <2>2, LatestIn
  <2>4. ResolverInit(list)[n] = list[Latest(Of(n))].list
    BY <1>2, <1>3 DEF ResolverInit
  <2> HIDE DEF Of
  <2> QED
    BY <1>1, <2>1, <2>2, <2>3, <2>4
<1> QED
  BY <1>3

LEMMA NamesEndStep == IInv /\ NamesEnd => IInv'
<1> SUFFICES ASSUME IInv, NamesEnd PROVE IInv'
  OBVIOUS
<1> DEFINE list == IF entry.names = {} THEN entries ELSE Append(entries, entry)
<1>1. /\ lines \in Seq(Lines) /\ file = "names" /\ entry \in Blocks
      /\ entries \in Seq(Blocks) /\ \A i \in 1..Len(entries) : entries[i].list # <<>>
      /\ routes = <<>> /\ Valid /\ config[NamesFile] # <<>>
  BY DEF IInv, TypeOK, Reading, Usable, NamesEnd
<1>2. CASE Fail /\ UNCHANGED lines
  BY <1>1, <1>2, FailStep
<1>3. CASE /\ entry.names = {} \/ entry.list # <<>>
           /\ table' = ResolverInit(list)
           /\ Open(AfterNames) /\ UNCHANGED <<config, routes>>
  <2>1. /\ AfterNames \in {"routes", "loaded"}
        /\ AfterNames = "routes" => config[RoutesFile] # <<>>
    BY DEF AfterNames
  <2>2. /\ file' = AfterNames /\ lines' = <<>> /\ entry' = NoBlock /\ entries' = <<>>
        /\ config' = config /\ routes' = <<>>
    BY <1>1, <1>3 DEF Open
  <2>3. list \in Seq(Blocks) /\ \A i \in 1..Len(list) : list[i].list # <<>>
    BY <1>1, <1>3, JoinBlock
  <2>4. /\ DOMAIN table' \subseteq Names
        /\ \A n \in DOMAIN table' : table'[n] \in Seq(Addrs) \ {<<>>}
    BY <1>3, <2>3, ResolverTable
  <2>5. NoBlock \in Blocks /\ <<>> \in Seq(Blocks) /\ <<>> \in Seq(RouteEntries)
        /\ <<>> \in Seq(Lines)
    BY DEF NoBlock, Blocks
  <2> HIDE DEF list
  <2>6. TypeOK'
    BY <1>1, <2>1, <2>2, <2>4, <2>5 DEF IInv, TypeOK, Files
  <2>7. Reading'
    BY <2>1, <2>2, <2>5 DEF Reading
  <2>8. Valid'
    BY <1>1, <2>2 DEF Valid
  <2>9. Usable'
    BY <1>1, <2>2, <2>4, <2>8 DEF Usable
  <2> QED
    BY <2>2, <2>6, <2>7, <2>9 DEF IInv
<1> QED
  BY <1>2, <1>3 DEF NamesEnd

LEMMA RouteStep ==
  ASSUME NEW l \in RouteLines, IInv, RouteRead(l)
  PROVE  IInv'
<1>1. lines' \in Seq(Lines)
  BY AppendLine DEF RouteRead, Lines
<1>2. CASE Fail
  BY <1>1, <1>2, FailStep
<1>3. CASE /\ l.word # "other"
           /\ entries' = Append(entries, [ip |-> l.ip, act |-> IF l.word = "" THEN "proxy" ELSE l.word])
           /\ UNCHANGED <<file, config, entry, table, routes>>
  <2>1. file = "routes" /\ entries \in Seq(RouteEntries)
    BY DEF RouteRead, Line, IInv, Reading
  <2>2. [ip |-> l.ip, act |-> IF l.word = "" THEN "proxy" ELSE l.word] \in RouteEntries
    BY <1>3 DEF RouteLines, RouteEntries
  <2>3. entries' \in Seq(RouteEntries)
    <3> DEFINE e == [ip |-> l.ip, act |-> IF l.word = "" THEN "proxy" ELSE l.word]
    <3>1. e \in RouteEntries /\ entries' = Append(entries, e)
      BY <1>3, <2>2
    <3> HIDE DEF e
    <3> QED
      BY <2>1, <3>1
  <2>4. TypeOK'
    BY <1>1, <1>3, <2>3 DEF IInv, TypeOK
  <2>5. Reading' /\ Usable'
    BY <1>3, <2>1, <2>3 DEF IInv, Reading, Usable, Valid
  <2> QED
    BY <1>3, <2>4, <2>5 DEF IInv
<1> QED
  BY <1>2, <1>3 DEF RouteRead

\* The router's table holds addresses and actions of its file.
LEMMA RouterTable ==
  ASSUME NEW list \in Seq(RouteEntries)
  PROVE  /\ DOMAIN RouterInit(list) \subseteq IPs
         /\ \A ip \in DOMAIN RouterInit(list) :
              RouterInit(list)[ip] \in {"direct", "proxy", "block"}
<1> DEFINE Of(ip) == {i \in 1..Len(list) : list[i].ip = ip}
<1>1. \A i \in 1..Len(list) : list[i].ip \in IPs /\ list[i].act \in {"direct", "proxy", "block"}
  <2> TAKE i \in 1..Len(list)
  <2>1. list[i] \in RouteEntries
    OBVIOUS
  <2> QED
    BY <2>1 DEF RouteEntries
<1>2. DOMAIN RouterInit(list) = {list[i].ip : i \in 1..Len(list)}
  BY DEF RouterInit
<1>3. ASSUME NEW ip \in DOMAIN RouterInit(list)
      PROVE  ip \in IPs /\ RouterInit(list)[ip] \in {"direct", "proxy", "block"}
  <2>1. PICK i \in 1..Len(list) : ip = list[i].ip
    BY <1>2, <1>3
  <2>2. Of(ip) # {} /\ Of(ip) \subseteq 1..Len(list) /\ Len(list) \in Nat
    BY <2>1
  <2>3. Latest(Of(ip)) \in Of(ip)
    BY <2>2, LatestIn
  <2>4. RouterInit(list)[ip] = list[Latest(Of(ip))].act
    BY <1>2, <1>3 DEF RouterInit
  <2> HIDE DEF Of
  <2> QED
    BY <1>1, <2>1, <2>2, <2>3, <2>4
<1> QED
  BY <1>3

LEMMA RoutesEndStep == IInv /\ RoutesEnd => IInv'
<1> SUFFICES ASSUME IInv, RoutesEnd PROVE IInv'
  OBVIOUS
<1>1. /\ file = "routes" /\ entries \in Seq(RouteEntries)
      /\ Valid /\ config[RoutesFile] # <<>>
  BY DEF IInv, Reading, Usable, RoutesEnd
<1>2. /\ file' = "loaded" /\ lines' = <<>> /\ entry' = NoBlock /\ entries' = <<>>
      /\ config' = config /\ table' = table /\ routes' = RouterInit(entries)
  BY DEF RoutesEnd, Open
<1>3. /\ DOMAIN routes' \subseteq IPs
      /\ \A ip \in DOMAIN routes' : routes'[ip] \in {"direct", "proxy", "block"}
  BY <1>1, <1>2, RouterTable
<1>4. NoBlock \in Blocks /\ <<>> \in Seq(Blocks) /\ <<>> \in Seq(Lines)
  BY DEF NoBlock, Blocks
<1>5. TypeOK'
  BY <1>2, <1>3, <1>4 DEF IInv, TypeOK
<1>6. Valid'
  BY <1>1, <1>2 DEF Valid
<1>7. Reading'
  BY <1>2 DEF Reading
<1>8. Usable'
  BY <1>1, <1>2, <1>6 DEF IInv, Usable
<1> QED
  BY <1>2, <1>5, <1>7, <1>8 DEF IInv

LEMMA StepIInv == IInv /\ [Next]_vars => IInv'
<1> SUFFICES ASSUME IInv, [Next]_vars PROVE IInv'
  OBVIOUS
<1>1. lines \in Seq(Lines)
  BY DEF IInv, TypeOK
<1>2. CASE BadLine
  BY <1>2, FailStep, AppendLine DEF BadLine, Lines
<1>3. CASE NoFile
  BY <1>1, <1>3, FailStep DEF NoFile
<1>4. CASE UNCHANGED vars
  BY <1>4 DEF vars, IInv, TypeOK, Reading, Usable, Valid
<1>5. CASE \E l \in FieldLines : Apply(l)
  BY <1>5, ApplyStep
<1>6. CASE \E l \in BlockLines : BlockStarts(l)
  BY <1>6, BlockStep
<1>7. CASE \E l \in AddrLines : AddrRead(l)
  BY <1>7, AddrStep
<1>8. CASE \E l \in RouteLines : RouteRead(l)
  BY <1>8, RouteStep
<1> QED
  BY <1>2, <1>3, <1>4, <1>5, <1>6, <1>7, <1>8, ConfigEndsStep, NamesEndStep, RoutesEndStep
  DEF Next
-----------------------------------------------------------------------------
\* The invariant is inductive, whatever the files hold and however long they are.
THEOREM Inductive == Spec => []IInv
  BY InitIInv, StepIInv, PTL DEF Spec

\* The types of what is loaded: no port is wider than sixteen bits, and the tables
\* of the resolver and the router hold what their files may hold
\* (value.go:24-34, resolver.go:119-130, router.go:121-129).
THEOREM TypeCorrect == Spec => []TypeOK
<1>1. IInv => TypeOK
  BY DEF IInv
<1> QED
  BY <1>1, Inductive, PTL

\* A client that goes on has a valid configuration, each host of its table has an
\* address to connect to, and its tables come from files that the configuration
\* names (config.go:70-84, resolver.go:45-50, main.go:54-72).
THEOREM LoadedUsable == Spec => []Usable
<1>1. IInv => Usable
  BY DEF IInv
<1> QED
  BY <1>1, Inductive, PTL
-----------------------------------------------------------------------------
(* What the lines that have been read say                                  *)

\* parseRoutes keeps an entry for each line.
RoutesRead ==
  file = "routes" =>
    /\ Len(entries) = Len(lines)
    /\ \A i \in 1..Len(lines) :
         /\ lines[i] \in RouteLines
         /\ entries[i].ip = lines[i].ip
         /\ entries[i].act = IF lines[i].word = "" THEN "proxy" ELSE lines[i].word

\* The blocks that parseNames has begun.
Begun == IF entry.names = {} THEN entries ELSE Append(entries, entry)

\* The lines are the blocks, one behind the other: the k-th begins at line at[k],
\* with its names, and has its addresses below.
Headed(at) ==
  /\ at \in [1..Len(Begun) -> 1..Len(lines)]
  /\ \A k \in 1..Len(Begun) :
       lines[at[k]] \in BlockLines /\ lines[at[k]].names = Begun[k].names
Listed(at) ==
  \A k \in 1..Len(Begun) : \A j \in 1..Len(Begun[k].list) :
    lines[at[k] + j] \in AddrLines /\ lines[at[k] + j].addr = Begun[k].list[j]
End(at, k) == at[k] + Len(Begun[k].list)
Adjoining(at) ==
  \A k \in 1..Len(Begun) :
    /\ k < Len(Begun) => at[k + 1] = End(at, k) + 1
    /\ k = Len(Begun) => End(at, k) = Len(lines)
Ordered(at) == \A i, k \in 1..Len(Begun) : i < k => End(at, i) < at[k]
Covering(at) == \A i \in 1..Len(lines) : \E k \in 1..Len(Begun) : at[k] <= i /\ i <= End(at, k)

Written(at) == Headed(at) /\ Listed(at) /\ Adjoining(at) /\ Ordered(at) /\ Covering(at)

NamesRead ==
  file = "names" =>
    /\ entry.names = {} => entries = <<>>
    /\ \E at : Written(at)

\* A greatest member of a set is its latest.
LEMMA LatestIs ==
  ASSUME NEW S, S \subseteq Int, NEW i \in S, \A j \in S : j <= i
  PROVE  Latest(S) = i
<1>1. \A k \in S : (\A j \in S : j <= k) => k = i
  <2> SUFFICES ASSUME NEW k \in S, \A j \in S : j <= k PROVE k = i
    OBVIOUS
  <2>1. k <= i /\ i <= k /\ k \in Int /\ i \in Int
    OBVIOUS
  <2> QED
    BY <2>1
<1> QED
  BY <1>1 DEF Latest

\* No member of a set is later than its latest.
LEMMA LatestBounds ==
  ASSUME NEW n \in Nat, NEW S, S \subseteq 1..n, S # {}
  PROVE  \A j \in S : j <= Latest(S)
<1>1. PICK k \in S : \A j \in S : j <= k
  BY LatestMember
<1> QED
  BY <1>1 DEF Latest

\* A sequence and one more.
LEMMA OneMore ==
  ASSUME NEW S, NEW s \in Seq(S), NEW e \in S
  PROVE  /\ Append(s, e) \in Seq(S) /\ Len(Append(s, e)) = Len(s) + 1 /\ Len(s) \in Nat
         /\ Append(s, e)[Len(s) + 1] = e
         /\ \A i \in 1..Len(s) : Append(s, e)[i] = s[i]
BY AppendProperties

-----------------------------------------------------------------------------
(* Routes                                                                  *)

LEMMA RouteReadStep ==
  ASSUME NEW l \in RouteLines, IInv, RoutesRead, RouteRead(l)
  PROVE  RoutesRead'
<1>1. CASE Fail
  BY <1>1 DEF Fail, RoutesRead
<1>2. CASE /\ l.word # "other"
           /\ entries' = Append(entries, [ip |-> l.ip, act |-> IF l.word = "" THEN "proxy" ELSE l.word])
           /\ UNCHANGED <<file, config, entry, table, routes>>
  <2> DEFINE e == [ip |-> l.ip, act |-> IF l.word = "" THEN "proxy" ELSE l.word]
  <2>1. /\ file = "routes" /\ entries \in Seq(RouteEntries) /\ lines \in Seq(Lines) /\ l \in Lines
        /\ lines' = Append(lines, l) /\ entries' = Append(entries, e) /\ file' = "routes"
    BY <1>2 DEF RouteRead, Line, IInv, TypeOK, Reading, Lines
  <2>2. e \in RouteEntries
    BY <1>2 DEF RouteLines, RouteEntries
  <2>e. e.ip = l.ip /\ e.act = IF l.word = "" THEN "proxy" ELSE l.word
    OBVIOUS
  <2> HIDE DEF e
  <2>3. /\ Len(lines') = Len(lines) + 1 /\ Len(lines) \in Nat /\ lines'[Len(lines) + 1] = l
        /\ \A i \in 1..Len(lines) : lines'[i] = lines[i]
    BY <2>1, OneMore
  <2>4. /\ Len(entries') = Len(entries) + 1 /\ entries'[Len(entries) + 1] = e
        /\ \A i \in 1..Len(entries) : entries'[i] = entries[i]
    BY <2>1, <2>2, OneMore
  <2>5. ASSUME NEW i \in 1..Len(lines')
        PROVE  /\ lines'[i] \in RouteLines /\ entries'[i].ip = lines'[i].ip
               /\ entries'[i].act = IF lines'[i].word = "" THEN "proxy" ELSE lines'[i].word
    <3>1. i \in 1..Len(lines) \/ i = Len(lines) + 1
      BY <2>3
    <3>2. Len(entries) = Len(lines)
      BY <2>1 DEF RoutesRead
    <3>3. CASE i \in 1..Len(lines)
      BY <2>1, <2>3, <2>4, <3>2, <3>3 DEF RoutesRead
    <3>4. CASE i = Len(lines) + 1
      BY <2>3, <2>4, <2>e, <3>2, <3>4
    <3> QED
      BY <3>1, <3>3, <3>4
  <2> QED
    BY <2>1, <2>3, <2>4, <2>5 DEF RoutesRead
<1> QED
  BY <1>1, <1>2 DEF RouteRead

\* A file is opened, or is left as it is, or the loading has failed.
LEMMA OtherRoutesRead ==
  ASSUME RoutesRead, \/ file' # "routes"
                     \/ lines' = <<>> /\ entries' = <<>>
                     \/ UNCHANGED <<file, lines, entries>>
  PROVE  RoutesRead'
<1>1. CASE lines' = <<>> /\ entries' = <<>>
  <2>1. Len(lines') = 0 /\ Len(entries') = 0 /\ 1..Len(lines') = {}
    BY <1>1
  <2> QED
    BY <2>1 DEF RoutesRead
<1> QED
  BY <1>1 DEF RoutesRead

LEMMA StepRoutesRead == IInv /\ RoutesRead /\ [Next]_vars => RoutesRead'
<1> SUFFICES ASSUME IInv, RoutesRead, [Next]_vars PROVE RoutesRead'
  OBVIOUS
<1>1. CASE \E l \in RouteLines : RouteRead(l)
  BY <1>1, RouteReadStep
<1>2. CASE BadLine \/ NoFile
  BY <1>2, OtherRoutesRead DEF BadLine, NoFile, Fail
<1>3. CASE ConfigEnds \/ NamesEnd \/ RoutesEnd
  BY <1>3, OtherRoutesRead DEF ConfigEnds, NamesEnd, RoutesEnd, Fail, Open
<1>4. CASE \E l \in FieldLines : Apply(l)
  BY <1>4, OtherRoutesRead DEF Apply, Line
<1>5. CASE \E l \in BlockLines : BlockStarts(l)
  BY <1>5, OtherRoutesRead DEF BlockStarts, Line, Fail
<1>6. CASE \E l \in AddrLines : AddrRead(l)
  BY <1>6, OtherRoutesRead DEF AddrRead, Line, Fail
<1>7. CASE UNCHANGED vars
  BY <1>7, OtherRoutesRead DEF vars
<1> QED
  BY <1>1, <1>2, <1>3, <1>4, <1>5, <1>6, <1>7 DEF Next

LEMMA InitRoutesRead == Init => RoutesRead
BY DEF Init, RoutesRead

\* What RoutesEnd stores is what the lines say.
LEMMA RoutesEndAsWritten ==
  ASSUME IInv, RoutesRead, RoutesEnd, NEW ip
  PROVE  Lookup(ip)' = IF LinesOf(ip) = {} THEN "auto"
                       ELSE LET word == lines[Latest(LinesOf(ip))].word
                            IN IF word = "" THEN "proxy" ELSE word
<1>1. /\ Len(entries) = Len(lines) /\ Len(lines) \in Nat
      /\ \A i \in 1..Len(lines) :
           /\ entries[i].ip = lines[i].ip
           /\ entries[i].act = IF lines[i].word = "" THEN "proxy" ELSE lines[i].word
  <2>1. lines \in Seq(Lines)
    BY DEF IInv, TypeOK
  <2>2. Len(lines) \in Nat
    BY <2>1
  <2>3. file = "routes"
    BY DEF RoutesEnd
  <2> QED
    BY <2>2, <2>3 DEF RoutesRead
<1>2. routes' = RouterInit(entries)
  BY DEF RoutesEnd
<1>3. LinesOf(ip) = {i \in 1..Len(entries) : entries[i].ip = ip}
  BY <1>1 DEF LinesOf
<1>4. ip \in DOMAIN routes' <=> LinesOf(ip) # {}
  BY <1>2, <1>3 DEF RouterInit
<1>5. CASE LinesOf(ip) = {}
  BY <1>4, <1>5 DEF Lookup
<1>6. CASE LinesOf(ip) # {}
  <2>1. LinesOf(ip) \subseteq 1..Len(lines)
    BY DEF LinesOf
  <2>2. Latest(LinesOf(ip)) \in LinesOf(ip)
    BY <1>1, <1>6, <2>1, LatestIn
  <2>3. routes'[ip] = entries[Latest(LinesOf(ip))].act
    BY <1>2, <1>3, <1>4, <1>6 DEF RouterInit
  <2>4. Lookup(ip)' = routes'[ip]
    BY <1>4, <1>6 DEF Lookup
  <2> QED
    BY <1>1, <1>6, <2>1, <2>2, <2>3, <2>4
<1> QED
  BY <1>5, <1>6

\* What the router answers for an address is what the last line about it says, the
\* proxy where the line has no word, and the default where there is no line,
\* whatever the file holds and however long it is (router.go:22-46, 81-137).
THEOREM RoutesLoaded == Spec => RoutesAsWritten
<1>1. IInv /\ RoutesRead /\ [Next]_vars =>
        [file = "routes" /\ file' = "loaded" =>
           \A ip \in IPs :
             Lookup(ip)' = IF LinesOf(ip) = {} THEN "auto"
                           ELSE LET word == lines[Latest(LinesOf(ip))].word
                                IN IF word = "" THEN "proxy" ELSE word]_vars
  <2> SUFFICES ASSUME IInv, RoutesRead, [Next]_vars, file = "routes", file' = "loaded",
                      NEW ip \in IPs
               PROVE  Lookup(ip)' = IF LinesOf(ip) = {} THEN "auto"
                                    ELSE LET word == lines[Latest(LinesOf(ip))].word
                                         IN IF word = "" THEN "proxy" ELSE word
    OBVIOUS
  <2>1. RoutesEnd
    BY DEF Next, vars, BadLine, NoFile, Fail, Apply, Line, ConfigEnds, BlockStarts, AddrRead,
           NamesEnd, RouteRead
  <2> QED
    BY <2>1, RoutesEndAsWritten
<1>2. Init => RoutesRead
  BY InitRoutesRead
<1>3. IInv /\ RoutesRead /\ [Next]_vars => RoutesRead'
  BY StepRoutesRead
<1> QED
  BY <1>1, <1>2, <1>3, Inductive, PTL DEF Spec, RoutesAsWritten
-----------------------------------------------------------------------------
(* Names                                                                   *)

\* What has been read of a names file, with its types.
LEMMA BegunFacts ==
  ASSUME IInv, file = "names"
  PROVE  /\ lines \in Seq(Lines) /\ Len(lines) \in Nat /\ entry \in Blocks
         /\ Begun \in Seq(Blocks) /\ Len(Begun) \in Nat
         /\ \A k \in 1..Len(Begun) : Len(Begun[k].list) \in Nat /\ Begun[k].list \in Seq(Addrs)
         /\ entry.names # {} =>
              /\ Len(Begun) = Len(entries) + 1 /\ Begun[Len(Begun)] = entry
              /\ \A k \in 1..(Len(Begun) - 1) : Begun[k].list # <<>>
<1>1. lines \in Seq(Lines) /\ entry \in Blocks /\ entries \in Seq(Blocks)
      /\ \A i \in 1..Len(entries) : entries[i].list # <<>>
  BY DEF IInv, TypeOK, Reading
<1>2. /\ Append(entries, entry) \in Seq(Blocks) /\ Len(entries) \in Nat
      /\ Len(Append(entries, entry)) = Len(entries) + 1
      /\ Append(entries, entry)[Len(entries) + 1] = entry
      /\ \A i \in 1..Len(entries) : Append(entries, entry)[i] = entries[i]
  BY <1>1, OneMore
<1>3. Begun \in Seq(Blocks)
  BY <1>1, <1>2 DEF Begun
<1>4. Len(Begun) \in Nat /\ Len(lines) \in Nat
  BY <1>1, <1>3
<1>5. ASSUME NEW k \in 1..Len(Begun) PROVE Len(Begun[k].list) \in Nat /\ Begun[k].list \in Seq(Addrs)
  <2>1. Begun[k] \in Blocks
    BY <1>3, ElementOfSeq
  <2> QED
    BY <2>1 DEF Blocks
<1>6. ASSUME entry.names # {}
      PROVE  /\ Len(Begun) = Len(entries) + 1 /\ Begun[Len(Begun)] = entry
             /\ \A k \in 1..(Len(Begun) - 1) : Begun[k].list # <<>>
  <2>1. Begun = Append(entries, entry)
    BY <1>6 DEF Begun
  <2> QED
    BY <1>1, <1>2, <2>1
<1> QED
  BY <1>1, <1>3, <1>4, <1>5, <1>6

\* Each block ends inside of what has been read, and the last one at its end.
LEMMA EndsInside ==
  ASSUME IInv, file = "names", NEW at, Written(at), NEW k \in 1..Len(Begun)
  PROVE  /\ at[k] \in 1..Len(lines) /\ End(at, k) \in Nat /\ End(at, k) <= Len(lines)
         /\ at[k] <= End(at, k)
         /\ k = Len(Begun) => End(at, k) = Len(lines)
<1>1. /\ Len(lines) \in Nat /\ Len(Begun) \in Nat /\ Len(Begun[k].list) \in Nat
  BY BegunFacts
<1>2. at[k] \in 1..Len(lines)
  BY DEF Written, Headed
<1>3. End(at, k) \in Nat /\ at[k] <= End(at, k)
  BY <1>1, <1>2 DEF End
<1>4. k = Len(Begun) => End(at, k) = Len(lines)
  BY DEF Written, Adjoining
<1>5. CASE k < Len(Begun)
  <2> DEFINE m == Len(Begun)
  <2>1. m \in 1..Len(Begun) /\ k < m
    BY <1>1, <1>5
  <2> HIDE DEF m
  <2>2. End(at, k) < at[m]
    BY <2>1 DEF Written, Ordered
  <2>3. at[m] \in 1..Len(lines)
    BY <2>1 DEF Written, Headed
  <2> QED
    BY <1>1, <1>2, <1>3, <1>4, <2>2, <2>3
<1> QED
  BY <1>1, <1>2, <1>3, <1>4, <1>5

\* A line with names begins a block behind the others.
LEMMA BlockWritten ==
  ASSUME NEW l \in BlockLines, IInv, NamesRead, BlockStarts(l), ~Fail
  PROVE  NamesRead'
<1>1. /\ file = "names" /\ file' = "names" /\ lines' = Append(lines, l) /\ l \in Lines
      /\ entries' = Begun /\ entry' = [names |-> l.names, list |-> <<>>]
  BY DEF BlockStarts, Line, Begun, Lines
<1>2. PICK at : Written(at)
  BY <1>1 DEF NamesRead
<1>3. /\ lines \in Seq(Lines) /\ Len(lines) \in Nat /\ Begun \in Seq(Blocks) /\ Len(Begun) \in Nat
      /\ \A k \in 1..Len(Begun) : Len(Begun[k].list) \in Nat
  BY <1>1, BegunFacts
<1>n. PICK n \in Nat, m \in Nat : n = Len(lines) /\ m = Len(Begun)
  BY <1>3
<1>b. PICK b : b = [names |-> l.names, list |-> <<>>]
  OBVIOUS
<1>o. PICK to : to = [k \in 1..(m + 1) |-> IF k <= m THEN at[k] ELSE n + 1]
  OBVIOUS
<1>4. b \in Blocks /\ b.names # {} /\ b.names = l.names /\ b.list = <<>> /\ Len(b.list) = 0
  BY <1>b DEF BlockLines, Blocks
<1>5. Begun' = Append(Begun, b) /\ entry'.names # {}
  BY <1>1, <1>4, <1>b DEF Begun
<1>6. /\ Len(Begun') = m + 1 /\ Begun'[m + 1] = b /\ \A k \in 1..m : Begun'[k] = Begun[k]
  BY <1>3, <1>4, <1>5, <1>n, OneMore
<1>7. /\ Len(lines') = n + 1 /\ lines'[n + 1] = l /\ \A i \in 1..n : lines'[i] = lines[i]
  BY <1>1, <1>3, <1>n, OneMore
<1>t. /\ \A k \in 1..(m + 1) : k \in 1..m \/ k = m + 1
      /\ \A k \in 1..m : k \in 1..(m + 1) /\ k < m + 1 /\ k <= m /\ k \in Nat
      /\ ~(m + 1 <= m) /\ m + 1 \in 1..(m + 1)
  OBVIOUS
<1>8. /\ \A k \in 1..m : to[k] = at[k]
      /\ to[m + 1] = n + 1 /\ DOMAIN to = 1..(m + 1)
  BY <1>o, <1>t
<1>9. \A k \in 1..m : /\ at[k] \in 1..n /\ End(at, k) \in Nat /\ End(at, k) <= n
                      /\ at[k] <= End(at, k) /\ (k = m => End(at, k) = n)
  BY <1>1, <1>2, <1>n, EndsInside
<1>11. /\ \A k \in 1..m : End(to, k)' = End(at, k)
       /\ End(to, m + 1)' = n + 1
  <2>1. ASSUME NEW k \in 1..m PROVE to[k] + Len(Begun'[k].list) = at[k] + Len(Begun[k].list)
    BY <1>6, <1>8, <2>1
  <2>2. to[m + 1] + Len(Begun'[m + 1].list) = n + 1
    <3>1. Len(Begun'[m + 1].list) = 0
      BY <1>4, <1>6, Zenon
    <3>2. to[m + 1] + 0 = n + 1
      BY <1>8
    <3> QED
      BY <3>1, <3>2, Zenon
  <2> QED
    BY <2>1, <2>2 DEF End
<1>12. Headed(to)'
  <2>1. ASSUME NEW k \in 1..(m + 1)
        PROVE  /\ to[k] \in 1..(n + 1) /\ lines'[to[k]] \in BlockLines
               /\ lines'[to[k]].names = Begun'[k].names
    <3>1. CASE k \in 1..m
      <4>1. at[k] \in 1..n /\ lines[at[k]] \in BlockLines /\ lines[at[k]].names = Begun[k].names
        BY <1>2, <1>n, <3>1 DEF Written, Headed
      <4> QED
        BY <1>6, <1>7, <1>8, <3>1, <4>1
    <3>2. CASE k = m + 1
      <4>1. n + 1 \in 1..(n + 1)
        OBVIOUS
      <4> QED
        BY <1>4, <1>6, <1>7, <1>8, <3>2, <4>1
    <3> QED
      BY <1>t, <3>1, <3>2
  <2>2. to \in [1..(m + 1) -> 1..(n + 1)]
    BY <1>o, <2>1
  <2> QED
    BY <1>6, <1>7, <2>1, <2>2 DEF Headed
<1>13. Listed(to)'
  <2>1. ASSUME NEW k \in 1..(m + 1), NEW j \in 1..Len(Begun'[k].list)
        PROVE  lines'[to[k] + j] \in AddrLines /\ lines'[to[k] + j].addr = Begun'[k].list[j]
    <3>1. CASE k \in 1..m
      <4>1. j \in 1..Len(Begun[k].list) /\ Len(Begun[k].list) \in Nat /\ to[k] = at[k]
        BY <1>3, <1>6, <1>8, <1>n, <2>1, <3>1
      <4>2. lines[at[k] + j] \in AddrLines /\ lines[at[k] + j].addr = Begun[k].list[j]
        BY <1>2, <1>n, <3>1, <4>1 DEF Written, Listed
      <4>3. at[k] + j \in 1..n
        BY <1>9, <3>1, <4>1 DEF End
      <4> QED
        BY <1>6, <1>7, <3>1, <4>1, <4>2, <4>3
    <3>2. CASE k = m + 1
      BY <1>4, <1>6, <2>1, <3>2
    <3> QED
      BY <1>t, <3>1, <3>2
  <2> QED
    BY <1>6, <2>1 DEF Listed
<1>14. Adjoining(to)'
  <2>1. ASSUME NEW k \in 1..(m + 1)
        PROVE  /\ k < m + 1 => to[k + 1] = End(to, k)' + 1
               /\ k = m + 1 => End(to, k)' = n + 1
    <3>1. CASE k \in 1..m /\ k # m
      <4>1. k < m /\ k + 1 \in 1..m
        BY <3>1
      <4>2. at[k + 1] = End(at, k) + 1
        BY <1>2, <1>n, <3>1, <4>1 DEF Written, Adjoining
      <4> QED
        BY <1>8, <1>11, <1>t, <3>1, <4>1, <4>2
    <3>2. CASE k = m /\ k \in 1..m
      BY <1>8, <1>9, <1>11, <3>2
    <3>3. CASE k = m + 1
      BY <1>11, <3>3
    <3> QED
      BY <1>t, <3>1, <3>2, <3>3
  <2> QED
    BY <1>6, <1>7, <2>1 DEF Adjoining
<1>15. Ordered(to)'
  <2>1. ASSUME NEW i \in 1..(m + 1), NEW k \in 1..(m + 1), i < k
        PROVE  End(to, i)' < to[k]
    <3>1. i \in 1..m
      BY <2>1
    <3>2. CASE k \in 1..m
      <4>1. End(at, i) < at[k]
        BY <1>2, <1>n, <2>1, <3>1, <3>2 DEF Written, Ordered
      <4> QED
        BY <1>8, <1>11, <3>1, <3>2, <4>1
    <3>3. CASE k = m + 1
      <4>1. End(at, i) \in Nat /\ End(at, i) <= n
        BY <1>9, <3>1
      <4>2. End(at, i) < n + 1
        BY <4>1
      <4> QED
        BY <1>8, <1>11, <3>1, <3>3, <4>2
    <3> QED
      BY <1>t, <3>2, <3>3
  <2> QED
    BY <1>6, <2>1 DEF Ordered
<1>16. Covering(to)'
  <2>1. ASSUME NEW i \in 1..(n + 1)
        PROVE  \E k \in 1..(m + 1) : to[k] <= i /\ i <= End(to, k)'
    <3>1. CASE i \in 1..n
      <4>1. PICK k \in 1..m : at[k] <= i /\ i <= End(at, k)
        BY <1>2, <1>n, <3>1 DEF Written, Covering
      <4> QED
        BY <1>8, <1>11, <1>t, <4>1
    <3>2. CASE i = n + 1
      BY <1>8, <1>11, <1>t, <3>2
    <3> QED
      BY <3>1, <3>2
  <2> QED
    BY <1>6, <1>7, <2>1 DEF Covering
<1>17. Written(to)'
  BY <1>12, <1>13, <1>14, <1>15, <1>16 DEF Written
<1> QED
  BY <1>5, <1>17 DEF NamesRead
\* An address joins the last block.
LEMMA AddrWritten ==
  ASSUME NEW l \in AddrLines, IInv, NamesRead, AddrRead(l), ~Fail
  PROVE  NamesRead'
<1>1. /\ file = "names" /\ file' = "names" /\ lines' = Append(lines, l) /\ l \in Lines
      /\ entries' = entries /\ entry' = [entry EXCEPT !.list = Append(@, l.addr)]
      /\ entry.names # {}
  BY DEF AddrRead, Line, Lines
<1>2. PICK at : Written(at)
  BY <1>1 DEF NamesRead
<1>3. /\ lines \in Seq(Lines) /\ Len(lines) \in Nat /\ Begun \in Seq(Blocks) /\ Len(Begun) \in Nat
      /\ \A k \in 1..Len(Begun) : Len(Begun[k].list) \in Nat
      /\ Len(Begun) = Len(entries) + 1 /\ Begun[Len(Begun)] = entry /\ entry \in Blocks
  BY <1>1, BegunFacts
<1>n. PICK n \in Nat, m \in Nat : n = Len(lines) /\ m = Len(Begun)
  BY <1>3
<1>e. entries \in Seq(Blocks) /\ Len(entries) \in Nat /\ m = Len(entries) + 1 /\ m \in 1..m
  <2>1. entries \in Seq(Blocks)
    BY <1>1 DEF IInv, Reading
  <2>2. Len(entries) \in Nat
    BY <2>1
  <2> QED
    BY <1>3, <1>n, <2>1, <2>2
<1>a. PICK a : a = entry.list
  OBVIOUS
<1>p. PICK p \in Nat : p = Len(a)
  BY <1>3, <1>a DEF Blocks
<1>4. /\ entry' \in Blocks /\ entry'.names = entry.names /\ entry'.list = Append(a, l.addr)
      /\ Len(Append(a, l.addr)) = p + 1 /\ Append(a, l.addr)[p + 1] = l.addr
      /\ \A j \in 1..p : Append(a, l.addr)[j] = a[j]
  <2>1. /\ entry = [names |-> entry.names, list |-> a] /\ entry.names \in SUBSET Names
        /\ a \in Seq(Addrs) /\ l.addr \in Addrs
    BY <1>3, <1>a DEF Blocks, AddrLines
  <2>2. entry' = [names |-> entry.names, list |-> Append(a, l.addr)]
    BY <1>1, <1>a, <2>1
  <2>3. /\ Append(a, l.addr) \in Seq(Addrs) /\ Len(Append(a, l.addr)) = p + 1
        /\ Append(a, l.addr)[p + 1] = l.addr /\ \A j \in 1..p : Append(a, l.addr)[j] = a[j]
    BY <1>p, <2>1, OneMore
  <2> QED
    BY <2>1, <2>2, <2>3 DEF Blocks
<1>5. Begun = Append(entries, entry) /\ Begun' = Append(entries, entry')
  BY <1>1, <1>4 DEF Begun
<1>6. /\ Len(Begun') = m /\ Begun'[m] = entry' /\ Begun[m] = entry
      /\ \A k \in 1..(m - 1) : Begun'[k] = Begun[k]
  <2>1. /\ Len(Append(entries, entry)) = m /\ Append(entries, entry)[m] = entry
        /\ \A k \in 1..(m - 1) : Append(entries, entry)[k] = entries[k]
    BY <1>3, <1>e, OneMore
  <2>2. /\ Len(Append(entries, entry')) = m /\ Append(entries, entry')[m] = entry'
        /\ \A k \in 1..(m - 1) : Append(entries, entry')[k] = entries[k]
    BY <1>4, <1>e, OneMore
  <2> QED
    BY <1>5, <2>1, <2>2
<1>7. /\ Len(lines') = n + 1 /\ lines'[n + 1] = l /\ \A i \in 1..n : lines'[i] = lines[i]
  BY <1>1, <1>3, <1>n, OneMore
<1>t. \A k \in 1..m : k \in 1..(m - 1) \/ k = m
  OBVIOUS
<1>9. \A k \in 1..m : /\ at[k] \in 1..n /\ End(at, k) \in Nat /\ End(at, k) <= n
                      /\ at[k] <= End(at, k) /\ (k = m => End(at, k) = n)
  BY <1>1, <1>2, <1>n, EndsInside
<1>s. \A k \in 1..m : /\ Begun'[k].names = Begun[k].names
                      /\ k # m => Begun'[k] = Begun[k]
  BY <1>4, <1>6, <1>t
<1>g. at[m] + p = n
  BY <1>6, <1>9, <1>a, <1>e, <1>p DEF End
<1>11. /\ \A k \in 1..m : k # m => End(at, k)' = End(at, k)
       /\ End(at, m)' = n + 1
  <2>1. ASSUME NEW k \in 1..m, k # m PROVE at[k] + Len(Begun'[k].list) = at[k] + Len(Begun[k].list)
    BY <1>s, <2>1
  <2>2. at[m] + Len(Begun'[m].list) = n + 1
    <3>1. Len(Begun'[m].list) = p + 1
      BY <1>4, <1>6
    <3>2. at[m] \in Nat
      BY <1>9, <1>e
    <3>3. at[m] + (p + 1) = n + 1
      BY <1>g, <3>2
    <3> QED
      BY <3>1, <3>3
  <2> QED
    BY <2>1, <2>2 DEF End
<1>12. Headed(at)'
  <2>1. ASSUME NEW k \in 1..m
        PROVE  /\ at[k] \in 1..(n + 1) /\ lines'[at[k]] \in BlockLines
               /\ lines'[at[k]].names = Begun'[k].names
    <3>1. at[k] \in 1..n /\ lines[at[k]] \in BlockLines /\ lines[at[k]].names = Begun[k].names
      BY <1>2, <1>n DEF Written, Headed
    <3> QED
      BY <1>7, <1>s, <3>1
  <2>2. at \in [1..m -> 1..(n + 1)]
    <3>1. at = [k \in 1..m |-> at[k]]
      BY <1>2, <1>n DEF Written, Headed
    <3> QED
      BY <2>1, <3>1
  <2> QED
    BY <1>6, <1>7, <2>1, <2>2 DEF Headed
<1>13. Listed(at)'
  <2>1. ASSUME NEW k \in 1..m, NEW j \in 1..Len(Begun'[k].list)
        PROVE  lines'[at[k] + j] \in AddrLines /\ lines'[at[k] + j].addr = Begun'[k].list[j]
    <3>o. ASSUME j \in 1..Len(Begun[k].list), Begun'[k].list[j] = Begun[k].list[j]
          PROVE  lines'[at[k] + j] \in AddrLines /\ lines'[at[k] + j].addr = Begun'[k].list[j]
      <4>1. Len(Begun[k].list) \in Nat
        BY <1>3, <1>n
      <4>2. lines[at[k] + j] \in AddrLines /\ lines[at[k] + j].addr = Begun[k].list[j]
        BY <1>2, <1>n, <3>o DEF Written, Listed
      <4>3. at[k] + j \in 1..n
        <5>1. at[k] \in 1..n /\ at[k] + Len(Begun[k].list) <= n
          BY <1>9 DEF End
        <5>2. j \in Nat /\ 1 <= j /\ j <= Len(Begun[k].list)
          BY <3>o, <4>1
        <5> QED
          BY <4>1, <5>1, <5>2
      <4> QED
        BY <1>7, <3>o, <4>2, <4>3
    <3>1. CASE k # m
      BY <1>s, <2>1, <3>1, <3>o
    <3>2. CASE k = m
      <4>1. Begun'[k].list = Append(a, l.addr) /\ Begun[k].list = a
        BY <1>4, <1>6, <1>a, <3>2
      <4>2. j \in 1..p \/ j = p + 1
        BY <1>4, <2>1, <4>1
      <4>3. CASE j \in 1..p
        BY <1>4, <1>p, <3>o, <4>1, <4>3
      <4>4. CASE j = p + 1
        <5>1. at[k] + j = n + 1
          <6>1. at[m] \in Nat
            BY <1>9, <1>e
          <6> QED
            BY <1>g, <3>2, <4>4, <6>1
        <5> QED
          BY <1>4, <1>7, <4>1, <4>4, <5>1
      <4> QED
        BY <4>2, <4>3, <4>4
    <3> QED
      BY <3>1, <3>2
  <2> QED
    BY <1>6, <2>1 DEF Listed
<1>14. Adjoining(at)'
  <2>1. ASSUME NEW k \in 1..m
        PROVE  /\ k < m => at[k + 1] = End(at, k)' + 1
               /\ k = m => End(at, k)' = n + 1
    <3>1. CASE k # m
      BY <1>2, <1>n, <1>11, <3>1 DEF Written, Adjoining
    <3>2. CASE k = m
      BY <1>11, <3>2
    <3> QED
      BY <3>1, <3>2
  <2> QED
    BY <1>6, <1>7, <2>1 DEF Adjoining
<1>15. Ordered(at)'
  <2>1. ASSUME NEW i \in 1..m, NEW k \in 1..m, i < k PROVE End(at, i)' < at[k]
    <3>1. i # m
      BY <2>1
    <3> QED
      BY <1>2, <1>n, <1>11, <2>1, <3>1 DEF Written, Ordered
  <2> QED
    BY <1>6, <2>1 DEF Ordered
<1>16. Covering(at)'
  <2>1. ASSUME NEW i \in 1..(n + 1)
        PROVE  \E k \in 1..m : at[k] <= i /\ i <= End(at, k)'
    <3>1. CASE i \in 1..n
      <4>1. PICK k \in 1..m : at[k] <= i /\ i <= End(at, k)
        BY <1>2, <1>n, <3>1 DEF Written, Covering
      <4>2. CASE k # m
        BY <1>11, <4>1, <4>2
      <4>3. CASE k = m
        <5>1. i <= n + 1
          OBVIOUS
        <5> QED
          BY <1>11, <4>1, <4>3, <5>1
      <4> QED
        BY <4>2, <4>3
    <3>2. CASE i = n + 1
      <4>1. at[m] <= n + 1
        BY <1>9, <1>e
      <4>2. i <= n + 1
        BY <3>2
      <4> QED
        BY <1>11, <1>e, <3>2, <4>1, <4>2
    <3> QED
      BY <3>1, <3>2
  <2> QED
    BY <1>6, <1>7, <2>1 DEF Covering
<1>17. Written(at)'
  BY <1>12, <1>13, <1>14, <1>15, <1>16 DEF Written
<1> QED
  BY <1>1, <1>4, <1>17 DEF NamesRead
LEMMA FreshNamesRead ==
  entry = NoBlock /\ entries = <<>> /\ lines = <<>> => NamesRead
<1> SUFFICES ASSUME entry = NoBlock, entries = <<>>, lines = <<>> PROVE NamesRead
  OBVIOUS
<1>1. Begun = <<>> /\ Len(Begun) = 0 /\ Len(lines) = 0
  BY DEF Begun, NoBlock
<1>2. 1..Len(Begun) = {} /\ 1..Len(lines) = {}
  BY <1>1
<1> DEFINE at == [k \in {} |-> 0]
<1>3. at \in [1..Len(Begun) -> 1..Len(lines)]
  BY <1>2
<1> HIDE DEF at
<1>4. Written(at)
  BY <1>2, <1>3 DEF Written, Headed, Listed, Adjoining, Ordered, Covering
<1> QED
  BY <1>4 DEF NamesRead

LEMMA StepNamesRead == IInv /\ NamesRead /\ [Next]_vars => NamesRead'
<1> SUFFICES ASSUME IInv, NamesRead, [Next]_vars PROVE NamesRead'
  OBVIOUS
<1>f. CASE file' # "names"
  BY <1>f DEF NamesRead
<1>o. CASE entry' = NoBlock /\ entries' = <<>> /\ lines' = <<>>
  <2>1. (entry = NoBlock /\ entries = <<>> /\ lines = <<>> => NamesRead)'
    BY FreshNamesRead, PTL
  <2> QED
    BY <1>o, <2>1
<1>1. CASE \E l \in BlockLines : BlockStarts(l)
  BY <1>1, <1>f, BlockWritten DEF Fail
<1>2. CASE \E l \in AddrLines : AddrRead(l)
  BY <1>2, <1>f, AddrWritten DEF Fail
<1>3. CASE BadLine \/ NoFile
  BY <1>3, <1>f DEF BadLine, NoFile, Fail
<1>4. CASE ConfigEnds \/ NamesEnd \/ RoutesEnd
  BY <1>4, <1>f, <1>o DEF ConfigEnds, NamesEnd, RoutesEnd, Fail, Open
<1>5. CASE (\E l \in FieldLines : Apply(l)) \/ (\E l \in RouteLines : RouteRead(l))
  BY <1>5, <1>f DEF Apply, RouteRead, Line, Fail
<1>6. CASE UNCHANGED vars
  <2>1. UNCHANGED <<file, lines, entry, entries>>
    BY <1>6 DEF vars
  <2>2. Begun' = Begun
    BY <2>1 DEF Begun
  <2>3. \A at : Written(at) => Written(at)'
    BY <2>1, <2>2 DEF Written, Headed, Listed, Adjoining, Ordered, Covering, End
  <2> QED
    BY <2>1, <2>3 DEF NamesRead
<1> QED
  BY <1>1, <1>2, <1>3, <1>4, <1>5, <1>6 DEF Next

LEMMA InitNamesRead == Init => NamesRead
BY DEF Init, NamesRead

\* Lines that hold names, and lines that do not.
LEMMA KindsOfLines ==
  /\ \A l \in BlockLines : IsBlock(l) /\ l # Bad /\ l.kind # "addr"
  /\ \A l \in AddrLines : ~IsBlock(l) /\ l # Bad /\ l.kind = "addr"
<1>1. ASSUME NEW l \in BlockLines PROVE IsBlock(l) /\ l # Bad /\ l.kind # "addr"
  <2>1. l.kind = "names"
    BY DEF BlockLines
  <2>2. Bad.kind = "bad"
    BY DEF Bad
  <2> QED
    BY <2>1, <2>2 DEF IsBlock
<1>2. ASSUME NEW l \in AddrLines PROVE ~IsBlock(l) /\ l # Bad /\ l.kind = "addr"
  <2>1. l.kind = "addr"
    BY DEF AddrLines
  <2>2. Bad.kind = "bad"
    BY DEF Bad
  <2> QED
    BY <2>1, <2>2 DEF IsBlock
<1> QED
  BY <1>1, <1>2

\* The lines with names are those that the blocks begin at.
LEMMA HeaderAt ==
  ASSUME IInv, file = "names", NEW at, Written(at)
  PROVE  /\ \A k \in 1..Len(Begun) : IsBlock(lines[at[k]])
         /\ \A k \in 1..Len(Begun) : \A j \in 1..Len(Begun[k].list) : ~IsBlock(lines[at[k] + j])
         /\ \A i \in 1..Len(lines) :
              \E k \in 1..Len(Begun) :
                \/ i = at[k]
                \/ \E j \in 1..Len(Begun[k].list) : i = at[k] + j /\ lines[i] \in AddrLines
<1>1. \A k \in 1..Len(Begun) : IsBlock(lines[at[k]])
  BY KindsOfLines DEF Written, Headed
<1>2. \A k \in 1..Len(Begun) : \A j \in 1..Len(Begun[k].list) : ~IsBlock(lines[at[k] + j])
  BY KindsOfLines DEF Written, Listed
<1>3. ASSUME NEW i \in 1..Len(lines)
      PROVE  \E k \in 1..Len(Begun) :
               \/ i = at[k]
               \/ \E j \in 1..Len(Begun[k].list) : i = at[k] + j /\ lines[i] \in AddrLines
  <2>1. PICK k \in 1..Len(Begun) : at[k] <= i /\ i <= End(at, k)
    BY DEF Written, Covering
  <2>2. at[k] \in Nat /\ Len(Begun[k].list) \in Nat
    <3>1. at[k] \in 1..Len(lines) /\ Len(lines) \in Nat
      BY EndsInside, BegunFacts
    <3>2. Len(Begun[k].list) \in Nat
      BY BegunFacts
    <3> QED
      BY <3>1, <3>2
  <2>3. CASE i # at[k]
    <3>1. i - at[k] \in 1..Len(Begun[k].list) /\ i = at[k] + (i - at[k])
      BY <2>1, <2>2, <2>3 DEF End
    <3>2. lines[at[k] + (i - at[k])] \in AddrLines
      BY <3>1 DEF Written, Listed
    <3>3. lines[i] \in AddrLines
      BY <3>1, <3>2
    <3> QED
      BY <3>1, <3>3
  <2> QED
    BY <2>3
<1> QED
  BY <1>1, <1>2, <1>3

\* A file whose blocks all have addresses is well formed.
LEMMA WellFormed ==
  ASSUME IInv, file = "names", NEW at, Written(at)
  PROVE  /\ ~Malformed(lines)
         /\ (\A k \in 1..Len(Begun) : Begun[k].list # <<>>) => ~Unfinished(lines)
<1>1. /\ Len(lines) \in Nat /\ Len(Begun) \in Nat /\ lines \in Seq(Lines)
      /\ \A k \in 1..Len(Begun) : Len(Begun[k].list) \in Nat /\ Begun[k].list \in Seq(Addrs)
      /\ \A k \in 1..(Len(Begun) - 1) : Begun[k].list # <<>>
  <2>1. \A k \in 1..(Len(Begun) - 1) : Begun[k].list # <<>>
    <3>1. CASE entry.names # {}
      BY <3>1, BegunFacts
    <3>2. CASE entry.names = {}
      BY <3>2 DEF Begun, IInv, Reading
    <3> QED
      BY <3>1, <3>2
  <2> QED
    BY <2>1, BegunFacts
<1>2. /\ \A k \in 1..Len(Begun) : IsBlock(lines[at[k]])
      /\ \A i \in 1..Len(lines) :
           \E k \in 1..Len(Begun) :
             \/ i = at[k]
             \/ \E j \in 1..Len(Begun[k].list) : i = at[k] + j /\ lines[i] \in AddrLines
  BY HeaderAt
<1>3. \A k \in 1..Len(Begun) : at[k] \in 1..Len(lines) /\ lines[at[k]] \in BlockLines
  BY DEF Written, Headed
<1>4. ASSUME NEW i \in 1..Len(lines) PROVE lines[i] # Bad
  BY <1>2, <1>3, KindsOfLines
<1>5. ASSUME NEW i \in 1..Len(lines), lines[i].kind = "addr"
      PROVE  \E j \in 1..(i - 1) : IsBlock(lines[j])
  <2>1. PICK k \in 1..Len(Begun) :
          \/ i = at[k]
          \/ \E j \in 1..Len(Begun[k].list) : i = at[k] + j /\ lines[i] \in AddrLines
    BY <1>2
  <2>2. i # at[k]
    BY <1>3, <1>5, KindsOfLines
  <2>3. PICK j \in 1..Len(Begun[k].list) : i = at[k] + j
    BY <2>1, <2>2
  <2>4. at[k] \in 1..(i - 1)
    BY <1>1, <1>3, <2>3
  <2> QED
    BY <1>2, <2>4
<1>6. ASSUME NEW i \in 1..Len(lines), i > 1, IsBlock(lines[i]), IsBlock(lines[i - 1])
      PROVE  FALSE
  <2>1. i - 1 \in 1..Len(lines)
    BY <1>1, <1>6
  <2>2. \A h \in 1..Len(lines) : IsBlock(lines[h]) => \E k \in 1..Len(Begun) : h = at[k]
    BY <1>2, KindsOfLines
  <2>3. PICK k \in 1..Len(Begun), g \in 1..Len(Begun) : i = at[k] /\ i - 1 = at[g]
    BY <1>6, <2>1, <2>2
  <2>4. g < Len(Begun) /\ g + 1 \in 1..Len(Begun) /\ g \in 1..(Len(Begun) - 1) /\ k > g
    <3>1. \A x, y \in 1..Len(Begun) : x < y => at[x] < at[y]
      <4> SUFFICES ASSUME NEW x \in 1..Len(Begun), NEW y \in 1..Len(Begun), x < y
                   PROVE  at[x] < at[y]
        OBVIOUS
      <4>1. End(at, x) < at[y]
        BY DEF Written, Ordered
      <4>2. at[x] <= End(at, x) /\ End(at, x) \in Nat /\ at[x] \in Nat /\ at[y] \in Nat
        BY EndsInside
      <4> QED
        BY <4>1, <4>2
    <3>2. at[g] < at[k] /\ at[g] \in Nat /\ at[k] \in Nat
      BY <1>3, <2>3
    <3>3. ~(k < g) /\ k # g
      BY <3>1, <3>2
    <3> QED
      BY <1>1, <3>3
  <2>5. at[g + 1] = End(at, g) + 1
    BY <2>4 DEF Written, Adjoining
  <2>6. Len(Begun[g].list) \in Nat /\ Len(Begun[g].list) # 0
    BY <1>1, <2>4, EmptySeq
  <2>7. at[g + 1] >= at[g] + 2
    <3>1. at[g] \in Nat
      BY <1>3
    <3> QED
      BY <2>5, <2>6, <3>1 DEF End
  <2>8. at[g + 1] <= at[k]
    <3>1. CASE g + 1 = k
      BY <1>3, <3>1
    <3>2. CASE g + 1 < k
      <4>1. End(at, g + 1) < at[k]
        BY <2>4, <3>2 DEF Written, Ordered
      <4>2. at[g + 1] <= End(at, g + 1) /\ End(at, g + 1) \in Nat /\ at[g + 1] \in Nat
        BY <2>4, EndsInside
      <4> QED
        BY <1>3, <4>1, <4>2
    <3> QED
      BY <2>4, <3>1, <3>2
  <2>9. at[g] \in Nat /\ at[k] \in Nat /\ at[g + 1] \in Nat /\ at[k] = at[g] + 1
    BY <1>3, <2>3, <2>4
  <2> QED
    BY <2>7, <2>8, <2>9
<1>7. ~Malformed(lines)
  BY <1>4, <1>5, <1>6 DEF Malformed
<1>8. ASSUME \A k \in 1..Len(Begun) : Begun[k].list # <<>>, Unfinished(lines) PROVE FALSE
  <2>1. Len(lines) \in 1..Len(lines) /\ IsBlock(lines[Len(lines)])
    BY <1>1, <1>8, EmptySeq DEF Unfinished
  <2>2. PICK k \in 1..Len(Begun) : Len(lines) = at[k]
    BY <1>2, <2>1, KindsOfLines
  <2>3. End(at, k) <= Len(lines)
    BY EndsInside
  <2>4. Len(Begun[k].list) \in Nat /\ Len(Begun[k].list) # 0
    BY <1>1, <1>8, EmptySeq
  <2> QED
    BY <1>1, <2>2, <2>3, <2>4 DEF End
<1> QED
  BY <1>7, <1>8
\* The addresses below the names of a block.
LEMMA BelowBlock ==
  ASSUME IInv, file = "names", NEW at, Written(at), NEW k \in 1..Len(Begun)
  PROVE  Below(at[k]) = Begun[k].list
<1>n. PICK n \in Nat, i \in Nat, p \in Nat :
        n = Len(lines) /\ i = at[k] /\ p = Len(Begun[k].list)
  <2>1. at[k] \in 1..Len(lines) /\ Len(lines) \in Nat /\ Len(Begun[k].list) \in Nat
    BY EndsInside, BegunFacts
  <2> QED
    BY <2>1
<1>1. i \in 1..n /\ i + p <= n /\ Begun[k].list \in Seq(Addrs)
      /\ Len(Begun) \in Nat
  BY <1>n, EndsInside, BegunFacts DEF End
<1>2. \A j \in 1..p : ~IsBlock(lines[i + j]) /\ lines[i + j].addr = Begun[k].list[j]
  BY <1>n, HeaderAt DEF Written, Listed
<1>3. i + p < n => IsBlock(lines[i + p + 1])
  <2> SUFFICES ASSUME i + p < n PROVE IsBlock(lines[i + p + 1])
    OBVIOUS
  <2>1. End(at, k) = i + p
    BY <1>n DEF End
  <2>2. k # Len(Begun)
    BY <1>n, <2>1, EndsInside
  <2>3. k < Len(Begun) /\ k + 1 \in 1..Len(Begun)
    BY <1>1, <2>2
  <2>4. at[k + 1] = i + p + 1
    BY <2>1, <2>3 DEF Written, Adjoining
  <2>5. IsBlock(lines[at[k + 1]])
    BY <2>3, HeaderAt
  <2> QED
    BY <2>4, <2>5
<1> DEFINE S == {m \in 0..(n - i) : \A j \in 1..m : ~IsBlock(lines[i + j])}
<1>4. p \in S
  <2>1. p \in 0..(n - i)
    BY <1>1
  <2> QED
    BY <1>2, <2>1
<1>5. \A m \in S : m <= p
  <2> TAKE m \in S
  <2>1. m \in 0..(n - i) /\ \A j \in 1..m : ~IsBlock(lines[i + j])
    OBVIOUS
  <2>2. CASE m > p
    <3>1. p + 1 \in 1..m /\ i + p < n /\ i + (p + 1) = i + p + 1
      BY <1>1, <2>1, <2>2
    <3>2. ~IsBlock(lines[i + (p + 1)])
      BY <2>1, <3>1
    <3> QED
      BY <1>3, <3>1, <3>2
  <2> QED
    BY <2>1, <2>2
<1>6. S \subseteq Int
  OBVIOUS
<1> HIDE DEF S
<1>7. Latest(S) = p
  BY <1>4, <1>5, <1>6, LatestIs
<1>8. Below(i) = [j \in 1..Latest(S) |-> lines[i + j].addr]
  BY <1>n DEF Below, S
<1>9. Begun[k].list = [j \in 1..p |-> Begun[k].list[j]]
  BY <1>1, <1>n
<1>10. Below(i) = [j \in 1..p |-> Begun[k].list[j]]
  BY <1>2, <1>7, <1>8
<1> QED
  BY <1>9, <1>10, <1>n

\* The table that is made of the blocks is what the lines say.
LEMMA TableAsWritten ==
  ASSUME IInv, NamesRead, file = "names", table' = ResolverInit(Begun), NEW n
  PROVE  Resolve(n)' = IF HeadersOf(n) = {} THEN <<>> ELSE Below(Latest(HeadersOf(n)))
<1>1. PICK at : Written(at)
  BY DEF NamesRead
<1> DEFINE S == {k \in 1..Len(Begun) : n \in Begun[k].names}
<1>2. /\ Len(Begun) \in Nat /\ Len(lines) \in Nat
      /\ \A k \in 1..Len(Begun) :
           /\ at[k] \in 1..Len(lines) /\ IsBlock(lines[at[k]])
           /\ lines[at[k]].names = Begun[k].names
  BY <1>1, BegunFacts, HeaderAt DEF Written, Headed
<1>3. \A i : i \in HeadersOf(n) <=> \E k \in S : i = at[k]
  <2>1. ASSUME NEW i \in HeadersOf(n) PROVE \E k \in S : i = at[k]
    <3>1. i \in 1..Len(lines) /\ IsBlock(lines[i]) /\ n \in lines[i].names
      BY <2>1 DEF HeadersOf
    <3>2. PICK k \in 1..Len(Begun) : i = at[k]
      BY <1>1, <3>1, HeaderAt, KindsOfLines
    <3> QED
      BY <1>2, <3>1, <3>2
  <2>2. ASSUME NEW k \in S PROVE at[k] \in HeadersOf(n)
    BY <1>2 DEF HeadersOf
  <2> QED
    BY <2>1, <2>2
<1>4. n \in DOMAIN table' <=> S # {}
  BY DEF ResolverInit
<1>5. n \in DOMAIN table' => table'[n] = Begun[Latest(S)].list
  BY DEF ResolverInit
<1>6. S \subseteq 1..Len(Begun)
  OBVIOUS
<1> HIDE DEF S
<1>7. CASE S = {}
  <2>1. HeadersOf(n) = {}
    BY <1>3, <1>7
  <2> QED
    BY <1>4, <1>7, <2>1 DEF Resolve
<1>8. CASE S # {}
  <2>1. Latest(S) \in S
    BY <1>2, <1>6, <1>8, LatestIn
  <2>2. \A k \in S : k <= Latest(S)
    BY <1>2, <1>6, <1>8, LatestBounds
  <2>3. PICK k \in S : k = Latest(S)
    BY <2>1
  <2>4. at[k] \in HeadersOf(n) /\ k \in 1..Len(Begun)
    BY <1>3, <1>6, <2>3
  <2>5. \A i \in HeadersOf(n) : i <= at[k]
    <3> SUFFICES ASSUME NEW i \in HeadersOf(n) PROVE i <= at[k]
      OBVIOUS
    <3>1. PICK j \in S : i = at[j]
      BY <1>3
    <3>2. j \in 1..Len(Begun) /\ j <= k
      BY <1>6, <2>2, <2>3, <3>1
    <3>3. at[j] \in Nat /\ at[k] \in Nat
      BY <1>2, <2>4, <3>2
    <3>4. CASE j < k
      <4>1. End(at, j) < at[k]
        BY <1>1, <2>4, <3>2, <3>4 DEF Written, Ordered
      <4>2. at[j] <= End(at, j) /\ End(at, j) \in Nat
        BY <1>1, <3>2, EndsInside
      <4> QED
        BY <3>1, <3>3, <4>1, <4>2
    <3>5. CASE j = k
      BY <3>1, <3>3, <3>5
    <3> QED
      BY <2>4, <3>2, <3>4, <3>5
  <2>6. HeadersOf(n) \subseteq Int
    BY DEF HeadersOf
  <2>7. Latest(HeadersOf(n)) = at[k]
    BY <2>4, <2>5, <2>6, LatestIs
  <2>8. Below(at[k]) = Begun[k].list
    BY <1>1, <2>4, BelowBlock
  <2>9. Resolve(n)' = Begun[k].list
    BY <1>4, <1>5, <1>8, <2>3 DEF Resolve
  <2>10. HeadersOf(n) # {}
    BY <2>4
  <2> QED
    BY <2>7, <2>8, <2>9, <2>10
<1> QED
  BY <1>7, <1>8

\* The ways in which a names file is refused.
LEMMA NamesRefused ==
  ASSUME IInv, NamesRead, [Next]_vars, file = "names", file' = "failed"
  PROVE  lines = <<>> \/ Malformed(lines') \/ (lines' = lines /\ Unfinished(lines))
<1>1. PICK at : Written(at)
  BY DEF NamesRead
<1>2. lines \in Seq(Lines) /\ Len(lines) \in Nat
  BY BegunFacts
<1>3. ASSUME NEW l \in Lines, lines' = Append(lines, l)
      PROVE  /\ Len(lines') = Len(lines) + 1 /\ lines'[Len(lines) + 1] = l
             /\ \A i \in 1..Len(lines) : lines'[i] = lines[i]
             /\ Len(lines) + 1 \in 1..Len(lines')
  BY <1>2, <1>3, OneMore
<1>4. ASSUME entry.names # {}, entry.list = <<>>
      PROVE  Len(lines) \in 1..Len(lines) /\ IsBlock(lines[Len(lines)])
  <2>1. Len(Begun) \in 1..Len(Begun) /\ Begun[Len(Begun)].list = <<>>
    <3>1. Len(Begun) = Len(entries) + 1 /\ Begun[Len(Begun)] = entry /\ Len(Begun) \in Nat
      BY <1>4, BegunFacts
    <3>2. entries \in Seq(Blocks)
      BY DEF IInv, Reading
    <3>3. Len(entries) \in Nat
      BY <3>2
    <3> QED
      BY <1>4, <3>1, <3>3
  <2> DEFINE k == Len(Begun)
  <2>2. End(at, k) = Len(lines) /\ at[k] \in 1..Len(lines)
    BY <1>1, <2>1, EndsInside
  <2>3. at[k] = Len(lines)
    <3>1. Len(Begun[k].list) = 0
      BY <2>1
    <3>2. at[k] + 0 = at[k]
      BY <1>2, <2>2
    <3> QED
      BY <2>2, <3>1, <3>2 DEF End
  <2>4. IsBlock(lines[at[k]])
    BY <1>1, <2>1, HeaderAt
  <2> QED
    BY <2>2, <2>3, <2>4
<1>5. CASE BadLine
  <2>1. lines' = Append(lines, Bad) /\ Bad \in Lines
    BY <1>5 DEF BadLine, Line, Lines
  <2> QED
    BY <1>3, <2>1 DEF Malformed
<1>6. CASE NoFile
  BY <1>6 DEF NoFile
<1>7. ASSUME NEW l \in BlockLines, BlockStarts(l) PROVE Malformed(lines')
  <2>1. lines' = Append(lines, l) /\ l \in Lines /\ entry.names # {} /\ entry.list = <<>>
    BY <1>7 DEF BlockStarts, Line, Lines
  <2> DEFINE i == Len(lines) + 1
  <2>2. i \in 1..Len(lines') /\ lines'[i] = l /\ IsBlock(l)
    BY <1>3, <1>7, <2>1, KindsOfLines
  <2>3. i > 1 /\ i - 1 = Len(lines) /\ Len(lines) \in 1..Len(lines)
    BY <1>2, <1>4, <2>1
  <2>4. IsBlock(lines'[i - 1])
    BY <1>3, <1>4, <2>1, <2>3
  <2> HIDE DEF i
  <2> QED
    BY <2>2, <2>3, <2>4 DEF Malformed
<1>8. ASSUME NEW l \in AddrLines, AddrRead(l) PROVE Malformed(lines')
  <2>1. lines' = Append(lines, l) /\ l \in Lines /\ entry.names = {}
    BY <1>8 DEF AddrRead, Line, Lines
  <2>2. Begun = <<>>
    BY <2>1 DEF Begun, NamesRead
  <2>3. Len(lines) = 0
    <3>1. 1..Len(Begun) = {}
      BY <2>2
    <3>2. \A i \in 1..Len(lines) : FALSE
      BY <1>1, <3>1 DEF Written, Covering
    <3> QED
      BY <1>2, <3>2
  <2>4. 1 \in 1..Len(lines') /\ lines'[1] = l /\ l.kind = "addr"
    BY <1>3, <1>8, <2>1, <2>3, KindsOfLines
  <2>5. \A j \in 1..(1 - 1) : ~IsBlock(lines'[j])
    OBVIOUS
  <2> QED
    BY <2>4, <2>5 DEF Malformed
<1>9. CASE NamesEnd
  <2>1. lines' = lines /\ entry.names # {} /\ entry.list = <<>>
    BY <1>9 DEF NamesEnd, Open, AfterNames
  <2>2. Len(lines) # 0 /\ IsBlock(lines[Len(lines)])
    BY <1>2, <1>4, <2>1
  <2>3. lines # <<>>
    BY <2>2
  <2> QED
    BY <2>1, <2>2, <2>3 DEF Unfinished
<1>10. \/ BadLine \/ NoFile \/ \E l \in BlockLines : BlockStarts(l)
       \/ \E l \in AddrLines : AddrRead(l)
       \/ NamesEnd
  BY DEF Next, vars, Apply, Line, ConfigEnds, RouteRead, RoutesEnd
<1> QED
  BY <1>5, <1>6, <1>7, <1>8, <1>9, <1>10

\* A names file that is not refused.
LEMMA NamesTaken ==
  ASSUME IInv, NamesRead, [Next]_vars, file = "names", file' # "names", file' # "failed"
  PROVE  /\ ~Malformed(lines) /\ ~Unfinished(lines)
         /\ \A n : Resolve(n)' = IF HeadersOf(n) = {} THEN <<>> ELSE Below(Latest(HeadersOf(n)))
<1>1. NamesEnd /\ (entry.names = {} \/ entry.list # <<>>) /\ table' = ResolverInit(Begun)
  BY DEF Next, vars, BadLine, NoFile, Fail, Apply, Line, ConfigEnds, BlockStarts, AddrRead,
         RouteRead, RoutesEnd, NamesEnd, Begun
<1>2. PICK at : Written(at)
  BY DEF NamesRead
<1>3. ASSUME NEW k \in 1..Len(Begun) PROVE Begun[k].list # <<>>
  <2>1. CASE entry.names = {}
    BY <2>1 DEF Begun, IInv, Reading
  <2>2. CASE entry.names # {}
    <3>1. Len(Begun) \in Nat /\ (k = Len(Begun) => Begun[k] = entry)
          /\ \A j \in 1..(Len(Begun) - 1) : Begun[j].list # <<>>
      BY <2>2, BegunFacts
    <3>2. k = Len(Begun) \/ k \in 1..(Len(Begun) - 1)
      BY <3>1
    <3> QED
      BY <1>1, <2>2, <3>1, <3>2
  <2> QED
    BY <2>1, <2>2
<1>4. ~Malformed(lines) /\ ~Unfinished(lines)
  BY <1>2, <1>3, WellFormed
<1> QED
  BY <1>1, <1>4, TableAsWritten

\* A names file is taken for what is written in it, however long it is: the last
\* line with a name says which addresses it has, and a file is refused for a line
\* that the parser cannot use or for names without addresses, and for nothing else
\* (resolver.go:32-83).
THEOREM NamesLoaded == Spec => NamesAsWritten
<1>1. IInv /\ NamesRead /\ [Next]_vars =>
        [file = "names" /\ file' # "names" =>
           IF file' = "failed"
           THEN lines = <<>> \/ Malformed(lines') \/ (lines' = lines /\ Unfinished(lines))
           ELSE /\ ~Malformed(lines) /\ ~Unfinished(lines)
                /\ \A n \in Names :
                     Resolve(n)' = IF HeadersOf(n) = {} THEN <<>>
                                   ELSE Below(Latest(HeadersOf(n)))]_vars
  BY NamesRefused, NamesTaken
<1>2. Init => NamesRead
  BY InitNamesRead
<1>3. IInv /\ NamesRead /\ [Next]_vars => NamesRead'
  BY StepNamesRead
<1> QED
  BY <1>1, <1>2, <1>3, Inductive, PTL DEF Spec, NamesAsWritten
=============================================================================
