----------------------------- MODULE JoinProofs -----------------------------
(***************************************************************************)
(* What joining does to the files of the hosts.                            *)
(***************************************************************************)
EXTENDS Join, NodeInfoProofs

One(nodes) == Len(nodes) = 1

\* What a client program has in hand where it is.
Programs ==
    \A h \in Host :
        /\ pc[h] = "make" => command[h] \in {"start", "join", "join -f"}
        /\ pc[h] # "off" => command[h] # "none"
        /\ pc[h] \in {"register", "wait"} => command[h] = "join"
        /\ command[h] \in {"join", "join -f", "done"} => h \in Client
        /\ pc[h] = "check" => command[h] = "join -f"
        /\ command[h] = "done" => pc[h] \in {"open", "write", "off"}
        /\ pc[h] \in {"open", "write", "check"} /\ command[h] # "done" => One(mem[h])
        /\ pc[h] \in {"register", "wait"} => file[h] # Nothing

\* A server that runs has a file; only node_join_server gets past accept.
Servers ==
    \A s \in Server :
        /\ up[s] => file[s] # Nothing
        /\ srv[s] # "accept" => up[s] /\ s \in OldServer

Request == [client : Host, server : Server, nodes : Lists, open : BOOLEAN, taken : BOOLEAN]

\* TypeOK host by host: the form in which a step can be followed.
Values ==
    /\ \A h \in Host :
        /\ file[h] \in Lists \cup {Nothing} /\ answer[h] \in Lists \cup {Nothing}
        /\ pc[h] \in {"off", "make", "open", "write", "check", "register", "wait"}
        /\ command[h] \in {"none", "start", "join", "join -f", "rewrite", "done"}
        /\ mem[h] \in Lists /\ peer[h] \in Server \cup {Nothing}
    /\ \A s \in Server :
        /\ up[s] \in BOOLEAN /\ srv[s] \in {"accept", "open", "write", "send"}
        /\ list[s] \in Lists
    /\ runs \in 0 .. MaxRuns /\ deaths \in 0 .. MaxDeaths

Messages == \A r \in requests : r \in Request

Functions ==
    /\ file = [h \in Host |-> file[h]] /\ pc = [h \in Host |-> pc[h]]
    /\ command = [h \in Host |-> command[h]] /\ mem = [h \in Host |-> mem[h]]
    /\ peer = [h \in Host |-> peer[h]] /\ answer = [h \in Host |-> answer[h]]
    /\ up = [s \in Server |-> up[s]] /\ srv = [s \in Server |-> srv[s]]
    /\ list = [s \in Server |-> list[s]]

TypeInv == Values /\ Messages /\ Functions /\ Programs /\ Servers

\* No list names a node twice, wherever it is.
UniqueInv ==
    /\ NoDuplicateNode
    /\ \A h \in Host : UniqueIds(mem[h]) /\ (answer[h] = Nothing \/ UniqueIds(answer[h]))
    /\ \A s \in Server : UniqueIds(list[s])
    /\ \A r \in requests : UniqueIds(r.nodes)

Known(nodes) == FactsOf(nodes) \subseteq appeared

\* Every list is made of versions that some host generated.
FactsInv ==
    /\ appeared \subseteq [id : Ids, node_count : Nat]
    /\ \A h \in Host :
        /\ file[h] = Nothing \/ Known(file[h])
        /\ Known(mem[h]) /\ (answer[h] = Nothing \/ Known(answer[h]))
    /\ \A s \in Server : Known(list[s])
    /\ \A r \in requests : Known(r.nodes)

\* No host that runs node_join_server joins another one.
ServersDoNotJoin == OldServer \cap Client = {}

\* Then a host's file has one writer: where a server runs on a host that does
\* not join, no client program does.  And what a client program finds in the file.
OneWriter(h) ==
    /\ h \in Server \ Client /\ up[h] => pc[h] = "off"
    /\ pc[h] \in {"make", "open"} /\ command[h] \in {"start", "join", "join -f"} =>
           file[h] = Nothing
    /\ pc[h] = "check" => file[h] = mem[h]
    /\ pc[h] = "open" /\ command[h] = "rewrite" => HoldsAll(mem[h], file[h])

\* An open request is the one its client waits for, and carries what the client
\* still has in its file; the one a server has taken is in its list.
Pending(r) ==
    /\ r.open /\ pc[r.client] = "wait" /\ peer[r.client] = r.server
    /\ r.nodes = file[r.client] /\ answer[r.client] = Nothing
    /\ r.taken /\ r.server \in OldServer =>
           srv[r.server] # "accept" /\ HoldsAll(list[r.server], r.nodes)

OneEach ==
    \A r1, r2 \in requests :
        /\ r1.client = r2.client => r1 = r2
        /\ r1.taken /\ r2.taken /\ r1.server = r2.server /\ r1.server \in OldServer => r1 = r2

Asks(h) == \E r \in requests : r.client = h

\* What was told the server has, and the client's own file is part of it.
Told(h) ==
    /\ pc[h] = "wait" => answer[h] # Nothing \/ Asks(h)
    /\ answer[h] # Nothing =>
        /\ pc[h] = "wait" /\ peer[h] \in OldServer /\ answer[h] # <<>>
        /\ HoldsAll(answer[h], file[h]) /\ HoldsAll(Content(peer[h]), answer[h])
    /\ command[h] = "done" =>
        /\ peer[h] \in OldServer /\ file[h] # Nothing
        /\ pc[h] = "open" => HoldsAll(mem[h], file[h])
        /\ pc[h] \in {"open", "write"} =>
               mem[h] # <<>> /\ HoldsAll(Content(peer[h]), mem[h])
        /\ pc[h] = "off" => HoldsAll(Content(peer[h]), file[h])

\* The file is empty only while it is written; a server's list is at least its
\* file.
Merging(h) ==
    /\ file[h] = <<>> => pc[h] = "write" \/ (h \in Server /\ srv[h] = "write")
    /\ h \in Server =>
        /\ srv[h] # "accept" => list[h] # <<>>
        /\ srv[h] = "open" => HoldsAll(list[h], file[h])
        /\ srv[h] = "send" => file[h] = list[h]

CalmInv ==
    deaths = 0 =>
        /\ \A h \in Host : OneWriter(h) /\ Told(h) /\ Merging(h)
        /\ \A r \in requests : Pending(r)
        /\ OneEach

JoinInv == TypeInv /\ UniqueInv /\ FactsInv /\ CalmInv
-----------------------------------------------------------------------------
(* Types *)

LEMMA ListFacts ==
    /\ <<>> \in Lists /\ Nothing \notin Lists
    /\ Len(<<>>) = 0
BY JoinAssumption DEF Lists

LEMMA OneIP ==
    ASSUME NEW ip \in IP
    PROVE  <<ip>> \in Seq(IP)
OBVIOUS

\* The addresses of the nodes that programs generate.
LEMMA GeneratedList ==
    ASSUME NEW h \in Host
    PROVE  StartList(h) \in Seq(IP) /\ \A l \in JoinLists(h) : l \in Seq(IP)
<1> DEFINE ips == Interfaces[h]
<1>1. /\ ips \in Seq(Addr) /\ Len(ips) \in Nat /\ Len(ips) >= 1
      /\ ips[1] \in Addr /\ ips[Len(ips)] \in Addr
  <2>1. ips \in Seq(Addr) /\ ips # <<>>
    BY JoinAssumption
  <2> HIDE DEF ips
  <2>2. Len(ips) \in Nat /\ Len(ips) >= 1
    BY <2>1
  <2> QED
    BY <2>1, <2>2
<1>2. \A a \in Addr, t \in {"clientIP", "serverIP"}, v \in {0, 1} :
        [ip |-> a, type |-> t, validity |-> v] \in IP
  BY DEF IP
<1>3. NoLocalIpList \in Seq(IP)
  <2>1. [ip |-> Blank, type |-> Blank, validity |-> 0] \in IP
    BY DEF IP
  <2> QED
    BY <2>1 DEF NoLocalIpList
<1>4. StartList(h) \in Seq(IP)
  <2> DEFINE n == IF Len(ips) > 1 THEN 2 ELSE 1
             e(i) == [ip |-> IF i = 1 THEN ips[1] ELSE ips[Len(ips)], type |-> "clientIP",
                      validity |-> 0]
             s == [i \in 1 .. n |-> e(i)]
             t == <<[ip |-> ips[1], type |-> "serverIP", validity |-> 0]>>
  <2> HIDE DEF ips
  <2>1. n \in Nat /\ \A i \in 1 .. n : e(i) \in IP
    BY <1>1, <1>2
  <2>2. s \in Seq(IP)
    <3> HIDE DEF n, e
    <3> QED
      BY <2>1
  <2>3. t \in Seq(IP)
    BY <1>1, <1>2, OneIP
  <2>4. StartList(h) = s \o t
    BY DEF StartList, ips
  <2> HIDE DEF s, t
  <2> QED
    BY <2>2, <2>3, <2>4
<1>5. ASSUME NEW l \in JoinLists(h)
      PROVE  l \in Seq(IP)
  <2>1. LocalIpList(ips[1]) \in Seq(IP)
    <3> HIDE DEF ips
    <3> QED
      BY <1>1, <1>2, OneIP DEF LocalIpList
  <2>2. PICK rest \in {<<>>, NoLocalIpList} : l = LocalIpList(ips[1]) \o rest
    BY <1>5 DEF JoinLists
  <2>3. rest \in Seq(IP)
    <3>1. <<>> \in Seq(IP)
      OBVIOUS
    <3>2. CASE rest = <<>>
      BY <3>1, <3>2
    <3>3. CASE rest = NoLocalIpList
      BY <1>3, <3>3
    <3> QED
      BY <2>2, <3>2, <3>3
  <2> HIDE DEF ips
  <2> QED
    BY <2>1, <2>2, <2>3
<1> QED
  BY <1>4, <1>5

\* A list of one node.
LEMMA OneNode ==
    ASSUME NEW n \in Node
    PROVE  /\ <<n>> \in Lists /\ Len(<<n>>) = 1 /\ <<n>>[1] = n /\ UniqueIds(<<n>>)
           /\ FactsOf(<<n>>) = {[id |-> n.id, node_count |-> n.node_count]}
<1>1. /\ <<n>> \in Lists /\ Len(<<n>>) = 1 /\ <<n>>[1] = n
      /\ DOMAIN <<n>> = {1}
  BY DEF Lists
<1> QED
  BY <1>1 DEF UniqueIds, FactsOf

\* What a death leaves of a list.
LEMMA TornList ==
    ASSUME NEW nodes \in Lists, NEW t \in Torn(nodes)
    PROVE  /\ t \in Lists
           /\ UniqueIds(nodes) => UniqueIds(t)
           /\ FactsOf(t) \subseteq FactsOf(nodes)
<1>1. PICK k \in 0 .. Len(nodes) : t = SubSeq(nodes, 1, k)
  BY DEF Torn
<1>2. /\ nodes \in Seq(Node)
      /\ t \in Seq(Node) /\ DOMAIN t = 1 .. k
      /\ \A i \in 1 .. k : t[i] = nodes[i] /\ i \in DOMAIN nodes
  BY <1>1 DEF Lists
<1> QED
  BY <1>1, <1>2, PrefixUnique DEF Lists, FactsOf
LEMMA ServersAreHosts ==
    /\ \A s \in Server : s \in Host
    /\ \A h \in Client : h \in Host
BY DEF Host

LEMMA Count ==
    ASSUME NEW max \in Nat, NEW n \in 0 .. max, n < max
    PROVE  n + 1 \in 0 .. max
OBVIOUS

LEMMA Limits == MaxRuns \in Nat /\ MaxDeaths \in Nat
BY JoinAssumption

LEMMA Pointwise == TypeOK <=> Values /\ Messages /\ Functions
<1>1. TypeOK => Values /\ Messages /\ Functions
  BY DEF TypeOK, Values, Messages, Functions, Request
<1>2. Values /\ Messages /\ Functions => TypeOK
  BY DEF TypeOK, Values, Messages, Functions, Request
<1> QED
  BY <1>1, <1>2

LEMMA TypeInit == Init => TypeInv
BY ListFacts, ServersAreHosts, JoinAssumption
   DEF Init, TypeInv, Values, Messages, Functions, Programs, Servers

LEMMA GenerateTypes ==
    ASSUME TypeInv, NEW h \in Host, Generate(h)
    PROVE  TypeInv'
<1>1. PICK id \in Ids, l \in IF command[h] = "start" THEN {StartList(h)} ELSE JoinLists(h) :
        mem' = [mem EXCEPT ![h] = <<[id |-> id, node_count |-> 1, ip_list |-> l]>>]
  BY DEF Generate
<1> DEFINE new == <<[id |-> id, node_count |-> 1, ip_list |-> l]>>
<1>2. l \in Seq(IP) /\ id \in Nat
  BY GeneratedList, JoinAssumption
<1>3. [id |-> id, node_count |-> 1, ip_list |-> l] \in Node
  BY <1>2 DEF Node
<1>4. new \in Lists /\ One(new)
  BY <1>3, OneNode DEF One
<1>5. mem' = [mem EXCEPT ![h] = new]
  BY <1>1
<1> HIDE DEF new
<1> USE <1>4, <1>5 DEF TypeInv, Generate, Goto, serverVars, Functions
<1>6. Values'
  BY DEF Values
<1>7. Messages' /\ Functions'
  BY DEF Messages
<1>8. Programs' /\ Servers'
  BY ServersAreHosts DEF Programs, Servers, Values
<1> QED
  BY <1>6, <1>7, <1>8

LEMMA OpenTypes ==
    ASSUME TypeInv, NEW h \in Host, Open(h)
    PROVE  TypeInv'
<1> USE ListFacts DEF TypeInv, Open, Goto, serverVars, Functions
<1>1. Values'
  BY DEF Values
<1>2. Messages' /\ Functions'
  BY DEF Messages
<1>3. Programs' /\ Servers'
  BY ServersAreHosts DEF Programs, Servers, Values
<1> QED
  BY <1>1, <1>2, <1>3

LEMMA WriteTypes ==
    ASSUME TypeInv, NEW h \in Host, Write(h)
    PROVE  TypeInv'
<1> USE ListFacts DEF TypeInv, Write, Goto, Exit, serverVars, Functions
<1>1. Values'
  BY DEF Values
<1>2. Messages' /\ Functions'
  BY DEF Messages
<1>3. Programs'
  <2>1. /\ file' = [file EXCEPT ![h] = mem[h]] /\ file'[h] # Nothing
        /\ pc[h] = "write"
    BY DEF Values
  <2>2. CASE command[h] \in {"start", "rewrite"} /\ Exit(h)
    BY <2>1, <2>2 DEF Programs, Values
  <2>3. CASE /\ command[h] = "join" /\ Goto(h, "register")
             /\ mem' = [mem EXCEPT ![h] = <<>>] /\ UNCHANGED command
    BY <2>1, <2>3 DEF Programs, Values
  <2>4. CASE /\ command[h] = "join -f" /\ Goto(h, "check")
             /\ UNCHANGED <<command, mem>>
    BY <2>1, <2>4 DEF Programs, Values
  <2>5. CASE /\ command[h] = "done" /\ Goto(h, "off")
             /\ mem' = [mem EXCEPT ![h] = <<>>] /\ UNCHANGED command
    BY <2>1, <2>5 DEF Programs, Values
  <2> QED
    BY <2>2, <2>3, <2>4, <2>5
<1>4. Servers'
  BY ServersAreHosts DEF Servers, Values
<1> QED
  BY <1>1, <1>2, <1>3, <1>4

LEMMA RenewedIs ==
    ASSUME NEW n \in Node
    PROVE  /\ Renewed(n) \in Node /\ Renewed(n).id = n.id
           /\ Renewed(n).node_count = n.node_count + 1
<1>1. NoLocalIpList \in Seq(IP)
  <2>1. [ip |-> Blank, type |-> Blank, validity |-> 0] \in IP
    BY DEF IP
  <2> QED
    BY <2>1, OneIP DEF NoLocalIpList
<1>2. n.id \in Nat /\ n.node_count + 1 \in Nat
  BY DEF Node
<1> DEFINE l == NoLocalIpList
           c == n.node_count + 1
<1> HIDE DEF l, c
<1>3. Renewed(n) = [n EXCEPT !.node_count = c, !.ip_list = l]
  BY DEF Renewed, l, c
<1>4. [n EXCEPT !.node_count = c, !.ip_list = l] \in Node
  BY <1>1, <1>2 DEF Node, l, c
<1>5. Renewed(n).id = n.id /\ Renewed(n).node_count = c
  BY <1>3, <1>2 DEF Node
<1> QED
  BY <1>3, <1>4, <1>5 DEF c

\* What CheckCache changes.
LEMMA CheckCacheIs ==
    ASSUME TypeInv, NEW h \in Host, CheckCache(h)
    PROVE  /\ pc[h] = "check" /\ mem[h] \in Lists /\ One(mem[h]) /\ mem[h][1] \in Node
           /\ <<Renewed(mem[h][1])>> \in Lists /\ One(<<Renewed(mem[h][1])>>)
           /\ \/ Exit(h) /\ UNCHANGED appeared
              \/ /\ mem' = [mem EXCEPT ![h] = <<Renewed(mem[h][1])>>]
                 /\ command' = [command EXCEPT ![h] = "rewrite"]
                 /\ pc' = [pc EXCEPT ![h] = "open"]
                 /\ appeared' = appeared \cup FactsOf(<<Renewed(mem[h][1])>>)
           /\ UNCHANGED <<file, peer, answer, runs, up, srv, list, requests, deaths>>
<1>1. pc[h] = "check" /\ mem[h] \in Lists /\ One(mem[h])
  BY DEF CheckCache, TypeInv, Programs, Values
<1>2. mem[h][1] \in Node
  BY <1>1 DEF One, Lists
<1> DEFINE new == <<Renewed(mem[h][1])>>
<1>3. new \in Lists /\ One(new)
  BY <1>2, RenewedIs, OneNode DEF One
<1> HIDE DEF new
<1>4. \/ Exit(h) /\ UNCHANGED appeared
      \/ /\ mem' = [mem EXCEPT ![h] = new]
         /\ command' = [command EXCEPT ![h] = "rewrite"]
         /\ pc' = [pc EXCEPT ![h] = "open"]
         /\ appeared' = appeared \cup FactsOf(mem'[h])
  BY DEF CheckCache, Goto, new
<1>5. mem' = [mem EXCEPT ![h] = new] => mem'[h] = new
  BY DEF TypeInv, Functions
<1>6. UNCHANGED <<file, peer, answer, runs, up, srv, list, requests, deaths>>
  BY DEF CheckCache, serverVars
<1> QED
  BY <1>1, <1>2, <1>3, <1>4, <1>5, <1>6 DEF new

LEMMA CheckCacheTypes ==
    ASSUME TypeInv, NEW h \in Host, CheckCache(h)
    PROVE  TypeInv'
<1> DEFINE new == <<Renewed(mem[h][1])>>
<1>1. /\ new \in Lists /\ One(new)
      /\ \/ Exit(h)
         \/ /\ mem' = [mem EXCEPT ![h] = new] /\ pc' = [pc EXCEPT ![h] = "open"]
            /\ command' = [command EXCEPT ![h] = "rewrite"]
      /\ UNCHANGED <<file, peer, answer, runs, up, srv, list, requests, deaths>>
  BY CheckCacheIs
<1> HIDE DEF new
<1> USE ListFacts, <1>1 DEF TypeInv, Goto, Exit, Functions
<1>2. Values'
  BY DEF Values
<1>3. Messages' /\ Functions'
  BY DEF Messages
<1>4. Programs'
  <2>1. CASE Exit(h)
    BY <2>1 DEF Programs, Values
  <2>2. CASE mem' = [mem EXCEPT ![h] = new] /\ pc' = [pc EXCEPT ![h] = "open"]
            /\ command' = [command EXCEPT ![h] = "rewrite"]
    BY <2>2 DEF Programs, Values
  <2> QED
    BY <2>1, <2>2
<1>5. Servers'
  BY ServersAreHosts DEF Servers, Values
<1> QED
  BY <1>2, <1>3, <1>4, <1>5

LEMMA TakeAnswerTypes ==
    ASSUME TypeInv, NEW h \in Host, TakeAnswer(h)
    PROVE  TypeInv'
<1> USE ListFacts DEF TypeInv, TakeAnswer, Goto, serverVars, Functions
<1>1. Values'
  BY DEF Values
<1>2. Messages' /\ Functions'
  BY DEF Messages
<1>3. Programs' /\ Servers'
  BY ServersAreHosts DEF Programs, Servers, Values
<1> QED
  BY <1>1, <1>2, <1>3

LEMMA LoseServerTypes ==
    ASSUME TypeInv, NEW h \in Host, LoseServer(h)
    PROVE  TypeInv'
<1>0. PICK nodes \in {file[h], <<>>} : file' = [file EXCEPT ![h] = nodes]
  BY DEF LoseServer
<1>a. nodes \in Lists \cup {Nothing} /\ (file[h] # Nothing => nodes # Nothing)
  BY ListFacts DEF TypeInv, Values
<1>b. Exit(h) /\ UNCHANGED <<peer, answer, runs, up, srv, list, requests, deaths>>
  BY DEF LoseServer, serverVars
<1> USE ListFacts, <1>0, <1>a, <1>b DEF TypeInv, Goto, Exit, Functions
<1>1. Values'
  BY DEF Values
<1>2. Messages' /\ Functions'
  BY DEF Messages
<1>3. Programs' /\ Servers'
  BY ServersAreHosts DEF Programs, Servers, Values
<1> QED
  BY <1>1, <1>2, <1>3

LEMMA DieTypes ==
    ASSUME TypeInv, NEW h \in Host, Die(h)
    PROVE  TypeInv'
<1>1. PICK nodes \in IF pc[h] = "write" THEN Torn(mem[h]) ELSE {file[h]} :
        file' = [file EXCEPT ![h] = nodes]
  BY DEF Die
<1>2. nodes \in Lists \cup {Nothing} /\ (file[h] # Nothing => nodes # Nothing)
  BY TornList, ListFacts DEF TypeInv, Values
<1>3. /\ deaths < MaxDeaths /\ deaths' = deaths + 1
      /\ answer' = [answer EXCEPT ![h] = Nothing] /\ Exit(h)
      /\ requests' = {IF Waiting(r, h) THEN [r EXCEPT !.open = FALSE] ELSE r : r \in requests}
      /\ UNCHANGED <<peer, runs, up, srv, list>>
      /\ deaths' \in 0 .. MaxDeaths
  BY Limits, Count DEF Die, serverVars, TypeInv, Values
<1> USE ListFacts, <1>1, <1>2, <1>3 DEF TypeInv, Goto, Exit, Functions
<1>4. Values'
  BY DEF Values
<1>5. Messages' /\ Functions'
  BY DEF Messages, Request
<1>6. Programs'
  BY DEF Programs, Values
<1>7. Servers'
  BY ServersAreHosts DEF Servers, Values
<1> QED
  BY <1>4, <1>5, <1>6, <1>7

LEMMA RegisterTypes ==
    ASSUME TypeInv, NEW h \in Host, NEW s \in Server, Register(h, s)
    PROVE  TypeInv'
<1> USE ListFacts DEF TypeInv, Register, Goto, serverVars, Functions
<1>1. Values'
  BY DEF Values
<1>2. Functions'
  OBVIOUS
<1>3. [client |-> h, server |-> s, nodes |-> file[h], open |-> TRUE, taken |-> FALSE] \in Request
  BY DEF Request, Values, Programs
<1>4. Messages'
  BY <1>3 DEF Messages
<1>5. Programs' /\ Servers'
  BY ServersAreHosts DEF Programs, Servers, Values
<1> QED
  BY <1>1, <1>2, <1>4, <1>5

LEMMA ConnectFailsTypes ==
    ASSUME TypeInv, NEW h \in Host, NEW s \in Server, ConnectFails(h, s)
    PROVE  TypeInv'
<1> USE ListFacts DEF TypeInv, ConnectFails, Goto, Exit, serverVars, Functions
<1>1. Values'
  BY DEF Values
<1>2. Messages' /\ Functions'
  BY DEF Messages
<1>3. Programs' /\ Servers'
  BY ServersAreHosts DEF Programs, Servers, Values
<1> QED
  BY <1>1, <1>2, <1>3

LEMMA LaunchTypes ==
    ASSUME TypeInv, NEW h \in Host, NEW c \in {"start", "join", "join -f"}, Launch(h, c),
           c = "start" \/ h \in Client
    PROVE  TypeInv'
<1>0. runs' \in 0 .. MaxRuns
  BY Limits, Count DEF Launch, TypeInv, Values
<1> USE ListFacts, <1>0 DEF TypeInv, Launch, Goto, serverVars, Functions
<1>1. Values'
  BY DEF Values
<1>2. Messages' /\ Functions'
  BY DEF Messages
<1>3. Programs'
  BY DEF Programs, Values
<1>4. Servers'
  BY ServersAreHosts DEF Servers, Values
<1> QED
  BY <1>1, <1>2, <1>3, <1>4

LEMMA BootTypes ==
    ASSUME TypeInv, NEW s \in Server, Boot(s)
    PROVE  TypeInv'
<1> USE ListFacts DEF TypeInv, Boot, clientVars, Functions
<1>1. Values'
  BY DEF Values
<1>2. Messages' /\ Functions'
  BY DEF Messages
<1>3. Programs' /\ Servers'
  BY ServersAreHosts DEF Programs, Servers, Values
<1> QED
  BY <1>1, <1>2, <1>3

LEMMA AcceptTypes ==
    ASSUME TypeInv, NEW s \in Server, Accept(s)
    PROVE  TypeInv'
<1>1. PICK r \in requests :
        /\ r.server = s /\ ~r.taken
        /\ \/ /\ ~Dispatches(s)
              /\ requests' = (requests \ {r}) \cup {Taken(r)}
              /\ UNCHANGED <<up, srv, list>>
           \/ /\ Dispatches(s) /\ file[s] # <<>>
              /\ requests' = (requests \ {r}) \cup {Taken(r)}
              /\ list' = [list EXCEPT ![s] = Merge(file[s], r.nodes)]
              /\ srv' = [srv EXCEPT ![s] = "open"]
              /\ UNCHANGED up
           \/ Dispatches(s) /\ file[s] = <<>> /\ Down(s)
  BY DEF Accept
<1>2. r \in Request /\ file[s] \in Lists /\ s \in Host
  BY DEF TypeInv, Messages, Values, Servers, Accept, Host
<1>3. Merge(file[s], r.nodes) \in Lists
  BY <1>2, MergeIs DEF Request, Lists
<1>4. UNCHANGED <<file, pc, command, mem, peer, answer, runs, deaths>>
  BY DEF Accept, clientVars
<1> USE ListFacts, <1>1, <1>2, <1>3, <1>4 DEF TypeInv, Down, Dispatches, Functions
<1>5. Values'
  BY DEF Values
<1>6. Messages' /\ Functions'
  BY DEF Messages, Request, Taken
<1>7. Programs'
  BY DEF Programs
<1>8. Servers'
  <2>1. up[s]
    BY DEF Accept
  <2>2. CASE ~Dispatches(s) /\ UNCHANGED <<up, srv>>
    BY <2>2 DEF Servers
  <2>3. CASE Dispatches(s) /\ srv' = [srv EXCEPT ![s] = "open"] /\ UNCHANGED up
    BY <2>1, <2>3 DEF Servers
  <2>4. CASE Down(s)
    BY <2>4 DEF Servers
  <2> QED
    BY <2>2, <2>3, <2>4
<1> QED
  BY <1>5, <1>6, <1>7, <1>8

LEMMA ServerOpenTypes ==
    ASSUME TypeInv, NEW s \in Server, ServerOpen(s)
    PROVE  TypeInv'
<1> USE ListFacts DEF TypeInv, ServerOpen, clientVars, Functions
<1>1. Values'
  BY DEF Values
<1>2. Messages' /\ Functions'
  BY DEF Messages
<1>3. Programs' /\ Servers'
  BY ServersAreHosts DEF Programs, Servers, Values
<1> QED
  BY <1>1, <1>2, <1>3

LEMMA ServerWriteTypes ==
    ASSUME TypeInv, NEW s \in Server, ServerWrite(s)
    PROVE  TypeInv'
<1> USE ListFacts DEF TypeInv, ServerWrite, clientVars, Functions
<1>1. Values'
  BY DEF Values
<1>2. Messages' /\ Functions'
  BY DEF Messages
<1>3. Programs' /\ Servers'
  BY ServersAreHosts DEF Programs, Servers, Values
<1> QED
  BY <1>1, <1>2, <1>3

LEMMA ReplyTypes ==
    ASSUME TypeInv, NEW s \in Server, Reply(s)
    PROVE  TypeInv'
<1>1. PICK r \in requests :
        /\ r.server = s /\ r.taken
        /\ \/ /\ requests' = requests \ {r}
              /\ answer' = IF r.open THEN [answer EXCEPT ![r.client] = list[s]] ELSE answer
              /\ srv' = [srv EXCEPT ![s] = "accept"]
              /\ list' = [list EXCEPT ![s] = <<>>]
              /\ UNCHANGED up
           \/ ~r.open /\ Down(s) /\ UNCHANGED answer
  BY DEF Reply
<1>2. r \in Request
  BY DEF TypeInv, Messages
<1>3. UNCHANGED <<file, pc, command, mem, peer, runs, deaths>>
  BY DEF Reply
<1> USE ListFacts, <1>1, <1>2, <1>3 DEF TypeInv, Down, Functions
<1>4. Values'
  BY DEF Values, Request
<1>5. Messages' /\ Functions'
  BY DEF Messages, Request
<1>6. Programs'
  BY DEF Programs
<1>7. Servers'
  BY ServersAreHosts DEF Servers, Values
<1> QED
  BY <1>4, <1>5, <1>6, <1>7

LEMMA CrashTypes ==
    ASSUME TypeInv, NEW s \in Server, Crash(s)
    PROVE  TypeInv'
<1>1. PICK nodes \in IF srv[s] = "write" THEN Torn(list[s]) ELSE {file[s]} :
        file' = [file EXCEPT ![s] = nodes]
  BY DEF Crash
<1>2. /\ s \in Host /\ nodes \in Lists \cup {Nothing}
      /\ file[s] # Nothing => nodes # Nothing
  BY TornList, ListFacts DEF TypeInv, Values, Host
<1>3. /\ deaths < MaxDeaths /\ deaths' = deaths + 1 /\ Down(s)
      /\ UNCHANGED <<pc, command, mem, peer, answer, runs>>
      /\ deaths' \in 0 .. MaxDeaths
  BY Limits, Count DEF Crash, clientVars, TypeInv, Values
<1> USE ListFacts, <1>1, <1>2, <1>3 DEF TypeInv, Down, Functions
<1>4. Values'
  BY DEF Values
<1>5. Messages' /\ Functions'
  BY DEF Messages
<1>6. Programs' /\ Servers'
  BY ServersAreHosts DEF Programs, Servers, Values
<1> QED
  BY <1>4, <1>5, <1>6
\* Nothing has happened, or one of the programs has taken a step.
LEMMA Steps ==
    ASSUME [Next]_vars
    PROVE  \/ UNCHANGED vars
           \/ \E h \in Host : \/ Generate(h) \/ Open(h) \/ Write(h) \/ CheckCache(h)
                              \/ TakeAnswer(h) \/ LoseServer(h) \/ Die(h)
           \/ \E h \in Host, s \in Server : Register(h, s) \/ ConnectFails(h, s)
           \/ \E h \in Host, c \in {"start", "join", "join -f"} :
                  Launch(h, c) /\ (c = "start" \/ h \in Client)
           \/ \E s \in Server : \/ Accept(s) \/ ServerOpen(s) \/ ServerWrite(s) \/ Reply(s)
                                \/ Boot(s) \/ Crash(s)
<1>1. CASE UNCHANGED vars
  BY <1>1
<1>2. ASSUME NEW h \in Host, ClientStep(h) \/ Launch(h, "start") \/ Die(h)
      PROVE  \/ Generate(h) \/ Open(h) \/ Write(h) \/ CheckCache(h)
             \/ TakeAnswer(h) \/ LoseServer(h) \/ Die(h) \/ Launch(h, "start")
             \/ \E s \in Server : Register(h, s) \/ ConnectFails(h, s)
  BY <1>2 DEF ClientStep
<1>3. ASSUME NEW h \in Client, Launch(h, "join") \/ Launch(h, "join -f")
      PROVE  h \in Host /\ \E c \in {"join", "join -f"} : Launch(h, c)
  BY <1>3, ServersAreHosts
<1>4. ASSUME NEW s \in Server, ServerStep(s) \/ Boot(s) \/ Crash(s)
      PROVE  \/ Accept(s) \/ ServerOpen(s) \/ ServerWrite(s) \/ Reply(s)
             \/ Boot(s) \/ Crash(s)
  BY <1>4 DEF ServerStep
<1>5. CASE Next
  <2>1. CASE \E h \in Host : ClientStep(h) \/ Launch(h, "start") \/ Die(h)
    BY <2>1, <1>2
  <2>2. CASE \E h \in Client : Launch(h, "join") \/ Launch(h, "join -f")
    BY <2>2, <1>3
  <2>3. CASE \E s \in Server : ServerStep(s) \/ Boot(s) \/ Crash(s)
    BY <2>3, <1>4
  <2> QED
    BY <1>5, <2>1, <2>2, <2>3 DEF Next
<1> QED
  BY <1>1, <1>5

LEMMA StutterTypes == TypeInv /\ UNCHANGED vars => TypeInv'
<1> SUFFICES ASSUME TypeInv, UNCHANGED vars
             PROVE  TypeInv'
  OBVIOUS
<1> USE DEF TypeInv, vars, clientVars, serverVars
<1>1. Values' /\ Messages' /\ Functions'
  BY DEF Values, Messages, Functions
<1>2. Programs' /\ Servers'
  BY DEF Programs, Servers
<1> QED
  BY <1>1, <1>2

LEMMA TypeStep == TypeInv /\ [Next]_vars => TypeInv'
BY Steps, StutterTypes, GenerateTypes, OpenTypes, WriteTypes, CheckCacheTypes,
   TakeAnswerTypes, LoseServerTypes, DieTypes, RegisterTypes, ConnectFailsTypes,
   LaunchTypes, AcceptTypes, ServerOpenTypes, ServerWriteTypes, ReplyTypes,
   BootTypes, CrashTypes

LEMMA TypeAlways == Spec => []TypeInv
BY TypeInit, TypeStep, PTL DEF Spec

\* Every variable of the join model stays in its type, on any hosts, whoever
\* joins whom and whichever processes die.
THEOREM TypeCorrect == Spec => []TypeOK
<1>1. TypeInv => TypeOK
  BY Pointwise DEF TypeInv
<1> QED
  BY <1>1, TypeAlways, PTL

-----------------------------------------------------------------------------
(* Nobody lists a node twice, and nobody lists a node that was never made. *)

LEMMA Empty == UniqueIds(<<>>) /\ Known(<<>>)
BY DEF UniqueIds, Known, FactsOf

LEMMA UniqueInit == Init => UniqueInv
BY Empty, ServersAreHosts DEF Init, UniqueInv, NoDuplicateNode

LEMMA UniqueStep == TypeInv /\ UniqueInv /\ [Next]_vars => UniqueInv'
<1> SUFFICES ASSUME TypeInv, UniqueInv, [Next]_vars
             PROVE  UniqueInv'
  OBVIOUS
<1> USE Empty DEF UniqueInv, NoDuplicateNode, TypeInv, Functions, Goto, Exit
<1>1. CASE UNCHANGED vars
  BY <1>1 DEF vars, clientVars, serverVars
<1>2. ASSUME NEW h \in Host, Generate(h)
      PROVE  UniqueInv'
  <2>1. PICK id \in Ids, l \in IF command[h] = "start" THEN {StartList(h)} ELSE JoinLists(h) :
          mem' = [mem EXCEPT ![h] = <<[id |-> id, node_count |-> 1, ip_list |-> l]>>]
    BY <1>2 DEF Generate
  <2> DEFINE new == <<[id |-> id, node_count |-> 1, ip_list |-> l]>>
  <2>2. UniqueIds(new)
    BY DEF UniqueIds
  <2>3. mem' = [mem EXCEPT ![h] = new]
    BY <2>1
  <2> HIDE DEF new
  <2> QED
    BY <1>2, <2>2, <2>3 DEF Generate, serverVars
<1>3. ASSUME NEW h \in Host, Open(h)
      PROVE  UniqueInv'
  BY <1>3 DEF Open, serverVars
<1>4. ASSUME NEW h \in Host, Write(h)
      PROVE  UniqueInv'
  BY <1>4 DEF Write, serverVars
<1>5. ASSUME NEW h \in Host, CheckCache(h)
      PROVE  UniqueInv'
  <2> DEFINE new == <<Renewed(mem[h][1])>>
  <2>1. UniqueIds(new)
    BY DEF UniqueIds
  <2>2. \/ mem' = [mem EXCEPT ![h] = <<>>]
        \/ mem' = [mem EXCEPT ![h] = new]
    BY <1>5, CheckCacheIs
  <2>3. UNCHANGED <<file, answer, list, requests>>
    BY <1>5, CheckCacheIs
  <2> HIDE DEF new
  <2> QED
    BY <2>1, <2>2, <2>3
<1>6. ASSUME NEW h \in Host, TakeAnswer(h)
      PROVE  UniqueInv'
  BY <1>6 DEF TakeAnswer, serverVars
<1>7. ASSUME NEW h \in Host, LoseServer(h)
      PROVE  UniqueInv'
  BY <1>7 DEF LoseServer, serverVars
<1>8. ASSUME NEW h \in Host, Die(h)
      PROVE  UniqueInv'
  <2>1. PICK nodes \in IF pc[h] = "write" THEN Torn(mem[h]) ELSE {file[h]} :
          file' = [file EXCEPT ![h] = nodes]
    BY <1>8 DEF Die
  <2>2. nodes = Nothing \/ UniqueIds(nodes)
    <3>1. /\ mem[h] \in Lists /\ UniqueIds(mem[h])
          /\ file[h] = Nothing \/ UniqueIds(file[h])
      BY DEF Values
    <3> HIDE DEF UniqueInv, TypeInv
    <3> QED
      BY <3>1, TornList
  <2>3. /\ requests' = {IF Waiting(r, h) THEN [r EXCEPT !.open = FALSE] ELSE r : r \in requests}
        /\ answer' = [answer EXCEPT ![h] = Nothing] /\ Exit(h) /\ UNCHANGED list
    BY <1>8 DEF Die, serverVars
  <2>4. \A r \in requests' : UniqueIds(r.nodes)
    BY <2>3 DEF Messages, Request
  <2> QED
    BY <2>1, <2>2, <2>3, <2>4
<1>9. ASSUME NEW h \in Host, NEW s \in Server, Register(h, s)
      PROVE  UniqueInv'
  <2>1. UniqueIds(file[h])
    BY <1>9 DEF Register, Programs
  <2> QED
    BY <2>1, <1>9 DEF Register, serverVars
<1>10. ASSUME NEW h \in Host, NEW s \in Server, ConnectFails(h, s)
      PROVE  UniqueInv'
  BY <1>10 DEF ConnectFails, serverVars
<1>11. ASSUME NEW h \in Host, NEW c \in {"start", "join", "join -f"}, Launch(h, c)
      PROVE  UniqueInv'
  BY <1>11 DEF Launch, serverVars
<1>12. ASSUME NEW s \in Server, Accept(s)
      PROVE  UniqueInv'
  <2>1. PICK r \in requests :
          \/ /\ requests' = (requests \ {r}) \cup {Taken(r)}
             /\ UNCHANGED list \/ list' = [list EXCEPT ![s] = Merge(file[s], r.nodes)]
          \/ Down(s)
    BY <1>12 DEF Accept
  <2>2. r \in Request /\ file[s] \in Lists /\ s \in Host /\ UniqueIds(file[s])
    BY <1>12, ServersAreHosts, ListFacts DEF Messages, Values, Servers, Accept
  <2>3. UniqueIds(Merge(file[s], r.nodes))
    BY <2>2, MergeIs DEF Request, Lists
  <2>4. UniqueIds(Taken(r).nodes)
    BY <2>2 DEF Request, Taken
  <2>5. UNCHANGED <<file, mem, answer>>
    BY <1>12 DEF Accept, clientVars
  <2> QED
    BY <2>1, <2>3, <2>4, <2>5 DEF Down
<1>13. ASSUME NEW s \in Server, ServerOpen(s)
      PROVE  UniqueInv'
  BY <1>13 DEF ServerOpen, clientVars
<1>14. ASSUME NEW s \in Server, ServerWrite(s)
      PROVE  UniqueInv'
  BY <1>14, ServersAreHosts DEF ServerWrite, clientVars
<1>15. ASSUME NEW s \in Server, Reply(s)
      PROVE  UniqueInv'
  <2>1. PICK r \in requests :
          \/ /\ requests' = requests \ {r}
             /\ answer' = IF r.open THEN [answer EXCEPT ![r.client] = list[s]] ELSE answer
             /\ list' = [list EXCEPT ![s] = <<>>]
          \/ Down(s) /\ UNCHANGED answer
    BY <1>15 DEF Reply
  <2>2. UNCHANGED <<file, mem>>
    BY <1>15 DEF Reply
  <2> QED
    BY <2>1, <2>2 DEF Down
<1>16. ASSUME NEW s \in Server, Boot(s)
      PROVE  UniqueInv'
  BY <1>16 DEF Boot, clientVars
<1>17. ASSUME NEW s \in Server, Crash(s)
      PROVE  UniqueInv'
  <2>1. PICK nodes \in IF srv[s] = "write" THEN Torn(list[s]) ELSE {file[s]} :
          file' = [file EXCEPT ![s] = nodes]
    BY <1>17 DEF Crash
  <2>2. nodes = Nothing \/ UniqueIds(nodes)
    <3>1. /\ list[s] \in Lists /\ UniqueIds(list[s])
          /\ file[s] = Nothing \/ UniqueIds(file[s])
      BY ServersAreHosts DEF Values
    <3> HIDE DEF UniqueInv, TypeInv
    <3> QED
      BY <3>1, TornList
  <2>3. Down(s) /\ UNCHANGED <<mem, answer>>
    BY <1>17 DEF Crash, clientVars
  <2> QED
    BY <2>1, <2>2, <2>3 DEF Down
<1> QED
  <2>1. CASE \E h \in Host : \/ Generate(h) \/ Open(h) \/ Write(h) \/ CheckCache(h)
                             \/ TakeAnswer(h) \/ LoseServer(h) \/ Die(h)
    BY <2>1, <1>2, <1>3, <1>4, <1>5, <1>6, <1>7, <1>8
  <2>2. CASE \E h \in Host, s \in Server : Register(h, s) \/ ConnectFails(h, s)
    BY <2>2, <1>9, <1>10
  <2>3. CASE \E s \in Server : \/ Accept(s) \/ ServerOpen(s) \/ ServerWrite(s) \/ Reply(s)
                               \/ Boot(s) \/ Crash(s)
    BY <2>3, <1>12, <1>13, <1>14, <1>15, <1>16, <1>17
  <2> HIDE DEF UniqueInv
  <2> QED
    BY <1>1, <1>11, <2>1, <2>2, <2>3, Steps

LEMMA UniqueAlways == Spec => []UniqueInv
BY UniqueInit, UniqueStep, TypeAlways, PTL DEF Spec

\* No node_info.txt ever names a node twice: however many registrations were
\* merged into it (node_merge on the server), whichever answer replaced it
\* (register_node), and wherever a death has cut it while it was written.
THEOREM NoDuplicateNodeCorrect == Spec => []NoDuplicateNode
<1>1. UniqueInv => NoDuplicateNode
  BY DEF UniqueInv
<1> QED
  BY <1>1, UniqueAlways, PTL

\* Where there is one node there is one fact.
LEMMA OneFact ==
    ASSUME NEW nodes \in Lists, One(nodes)
    PROVE  [id |-> nodes[1].id, node_count |-> nodes[1].node_count] \in FactsOf(nodes)
BY DEF One, Lists, FactsOf

LEMMA MergedFacts ==
    ASSUME NEW nodes \in Lists, NEW others \in Lists
    PROVE  FactsOf(Merge(nodes, others)) \subseteq FactsOf(nodes) \cup FactsOf(others)
<1>1. \A i \in DOMAIN Merge(nodes, others) :
          Contains(nodes, Merge(nodes, others)[i]) \/ Contains(others, Merge(nodes, others)[i])
  BY MergeIs DEF Lists
<1> QED
  BY <1>1 DEF FactsOf, Contains

LEMMA FactsInit == Init => FactsInv
BY Empty, ServersAreHosts DEF Init, FactsInv, Known

LEMMA FactsStep == TypeInv /\ FactsInv /\ [Next]_vars => FactsInv' /\ appeared \subseteq appeared'
<1> DEFINE Goal == FactsInv' /\ appeared \subseteq appeared'
<1> SUFFICES ASSUME TypeInv, FactsInv, [Next]_vars
             PROVE  Goal
  OBVIOUS
<1> USE Empty DEF FactsInv, Known, TypeInv, Functions, Goto, Exit
<1>1. CASE UNCHANGED vars
  BY <1>1 DEF vars, clientVars, serverVars
<1>2. ASSUME NEW h \in Host, Generate(h)
      PROVE  Goal
  <2>1. PICK id \in Ids, l \in IF command[h] = "start" THEN {StartList(h)} ELSE JoinLists(h) :
          /\ mem' = [mem EXCEPT ![h] = <<[id |-> id, node_count |-> 1, ip_list |-> l]>>]
          /\ appeared' = appeared \cup {[id |-> id, node_count |-> 1]}
    BY <1>2 DEF Generate
  <2> DEFINE new == <<[id |-> id, node_count |-> 1, ip_list |-> l]>>
  <2>2. FactsOf(new) = {[id |-> id, node_count |-> 1]}
    BY DEF FactsOf
  <2>3. mem' = [mem EXCEPT ![h] = new]
    BY <2>1
  <2>4. [id |-> id, node_count |-> 1] \in [id : Ids, node_count : Nat]
    OBVIOUS
  <2>5. UNCHANGED <<file, answer, list, requests>>
    BY <1>2 DEF Generate, serverVars
  <2> HIDE DEF new
  <2> QED
    BY <2>1, <2>2, <2>3, <2>4, <2>5
<1>3. ASSUME NEW h \in Host, Open(h)
      PROVE  Goal
  BY <1>3 DEF Open, serverVars
<1>4. ASSUME NEW h \in Host, Write(h)
      PROVE  Goal
  BY <1>4 DEF Write, serverVars
<1>5. ASSUME NEW h \in Host, CheckCache(h)
      PROVE  Goal
  <2> DEFINE new == <<Renewed(mem[h][1])>>
  <2>1. /\ mem[h] \in Lists /\ One(mem[h]) /\ mem[h][1] \in Node
        /\ \/ mem' = [mem EXCEPT ![h] = <<>>] /\ UNCHANGED appeared
           \/ mem' = [mem EXCEPT ![h] = new] /\ appeared' = appeared \cup FactsOf(new)
        /\ UNCHANGED <<file, answer, list, requests>>
    BY <1>5, CheckCacheIs
  <2>2. FactsOf(new) \subseteq [id : Ids, node_count : Nat]
    <3>1. mem[h][1].id \in Ids
      BY <2>1, OneFact
    <3>2. FactsOf(new) = {[id |-> mem[h][1].id, node_count |-> mem[h][1].node_count + 1]}
      BY <2>1, RenewedIs, OneNode
    <3>3. mem[h][1].node_count + 1 \in Nat
      BY <2>1 DEF Node
    <3> HIDE DEF new, FactsInv, TypeInv
    <3> QED
      BY <3>1, <3>2, <3>3
  <2> HIDE DEF new
  <2> QED
    BY <2>1, <2>2
<1>6. ASSUME NEW h \in Host, TakeAnswer(h)
      PROVE  Goal
  BY <1>6 DEF TakeAnswer, serverVars
<1>7. ASSUME NEW h \in Host, LoseServer(h)
      PROVE  Goal
  BY <1>7 DEF LoseServer, serverVars
<1>8. ASSUME NEW h \in Host, Die(h)
      PROVE  Goal
  <2>1. PICK nodes \in IF pc[h] = "write" THEN Torn(mem[h]) ELSE {file[h]} :
          file' = [file EXCEPT ![h] = nodes]
    BY <1>8 DEF Die
  <2>2. nodes = Nothing \/ Known(nodes)
    <3>1. /\ mem[h] \in Lists /\ Known(mem[h])
          /\ file[h] = Nothing \/ Known(file[h])
      BY DEF Values
    <3> HIDE DEF FactsInv, TypeInv
    <3> QED
      BY <3>1, TornList
  <2>3. /\ requests' = {IF Waiting(r, h) THEN [r EXCEPT !.open = FALSE] ELSE r : r \in requests}
        /\ answer' = [answer EXCEPT ![h] = Nothing] /\ Exit(h) /\ UNCHANGED <<list, appeared>>
    BY <1>8 DEF Die, serverVars
  <2>4. \A r \in requests' : Known(r.nodes)
    BY <2>3 DEF Messages, Request
  <2> QED
    BY <2>1, <2>2, <2>3, <2>4
<1>9. ASSUME NEW h \in Host, NEW s \in Server, Register(h, s)
      PROVE  Goal
  <2>1. Known(file[h])
    BY <1>9 DEF Register, Programs
  <2> QED
    BY <2>1, <1>9 DEF Register, serverVars
<1>10. ASSUME NEW h \in Host, NEW s \in Server, ConnectFails(h, s)
      PROVE  Goal
  BY <1>10 DEF ConnectFails, serverVars
<1>11. ASSUME NEW h \in Host, NEW c \in {"start", "join", "join -f"}, Launch(h, c)
      PROVE  Goal
  BY <1>11 DEF Launch, serverVars
<1>12. ASSUME NEW s \in Server, Accept(s)
      PROVE  Goal
  <2>1. PICK r \in requests :
          \/ /\ requests' = (requests \ {r}) \cup {Taken(r)}
             /\ UNCHANGED list \/ list' = [list EXCEPT ![s] = Merge(file[s], r.nodes)]
          \/ Down(s)
    BY <1>12 DEF Accept
  <2>2. r \in Request /\ file[s] \in Lists /\ Known(file[s]) /\ Known(r.nodes)
    BY <1>12, ServersAreHosts, ListFacts DEF Messages, Values, Servers, Accept
  <2>3. Known(Merge(file[s], r.nodes))
    BY <2>2, MergedFacts DEF Request
  <2>4. Known(Taken(r).nodes)
    BY <2>2 DEF Request, Taken
  <2>5. UNCHANGED <<file, mem, answer, appeared>>
    BY <1>12 DEF Accept, clientVars
  <2> QED
    BY <2>1, <2>3, <2>4, <2>5 DEF Down
<1>13. ASSUME NEW s \in Server, ServerOpen(s)
      PROVE  Goal
  BY <1>13 DEF ServerOpen, clientVars
<1>14. ASSUME NEW s \in Server, ServerWrite(s)
      PROVE  Goal
  BY <1>14, ServersAreHosts DEF ServerWrite, clientVars
<1>15. ASSUME NEW s \in Server, Reply(s)
      PROVE  Goal
  <2>1. PICK r \in requests :
          \/ /\ requests' = requests \ {r}
             /\ answer' = IF r.open THEN [answer EXCEPT ![r.client] = list[s]] ELSE answer
             /\ list' = [list EXCEPT ![s] = <<>>]
          \/ Down(s) /\ UNCHANGED answer
    BY <1>15 DEF Reply
  <2>2. UNCHANGED <<file, mem, appeared>>
    BY <1>15 DEF Reply
  <2> QED
    BY <2>1, <2>2 DEF Down
<1>16. ASSUME NEW s \in Server, Boot(s)
      PROVE  Goal
  BY <1>16 DEF Boot, clientVars
<1>17. ASSUME NEW s \in Server, Crash(s)
      PROVE  Goal
  <2>1. PICK nodes \in IF srv[s] = "write" THEN Torn(list[s]) ELSE {file[s]} :
          file' = [file EXCEPT ![s] = nodes]
    BY <1>17 DEF Crash
  <2>2. nodes = Nothing \/ Known(nodes)
    <3>1. /\ list[s] \in Lists /\ Known(list[s])
          /\ file[s] = Nothing \/ Known(file[s])
      BY ServersAreHosts DEF Values
    <3> HIDE DEF FactsInv, TypeInv
    <3> QED
      BY <3>1, TornList
  <2>3. Down(s) /\ UNCHANGED <<mem, answer, appeared>>
    BY <1>17 DEF Crash, clientVars
  <2> QED
    BY <2>1, <2>2, <2>3 DEF Down
<1> QED
  <2> HIDE DEF Goal
  <2>1. CASE \E h \in Host : \/ Generate(h) \/ Open(h) \/ Write(h) \/ CheckCache(h)
                             \/ TakeAnswer(h) \/ LoseServer(h) \/ Die(h)
    BY <2>1, <1>2, <1>3, <1>4, <1>5, <1>6, <1>7, <1>8
  <2>2. CASE \E h \in Host, s \in Server : Register(h, s) \/ ConnectFails(h, s)
    BY <2>2, <1>9, <1>10
  <2>3. CASE \E s \in Server : \/ Accept(s) \/ ServerOpen(s) \/ ServerWrite(s) \/ Reply(s)
                               \/ Boot(s) \/ Crash(s)
    BY <2>3, <1>12, <1>13, <1>14, <1>15, <1>16, <1>17
  <2> QED
    BY <1>1, <1>11, <2>1, <2>2, <2>3, Steps

-----------------------------------------------------------------------------
(* While no process dies. *)

LEMMA HoldsSelf ==
    ASSUME NEW nodes \in Lists
    PROVE  HoldsAll(nodes, nodes)
<1>1. \A i \in DOMAIN nodes : nodes[i].node_count \in Int
  BY EntryType DEF Lists
<1> QED
  BY <1>1 DEF HoldsAll, Holds

LEMMA HoldsAlso ==
    ASSUME NEW a \in Lists, NEW b \in Lists, NEW c \in Lists, HoldsAll(a, b), HoldsAll(b, c)
    PROVE  HoldsAll(a, c)
<1>1. /\ \A i \in DOMAIN a : a[i].node_count \in Int
      /\ \A i \in DOMAIN b : b[i].node_count \in Int
      /\ \A i \in DOMAIN c : c[i].node_count \in Int
  BY EntryType DEF Lists
<1> QED
  BY <1>1 DEF HoldsAll, Holds

LEMMA HoldsNothing ==
    ASSUME NEW a
    PROVE  HoldsAll(a, <<>>)
BY DEF HoldsAll

LEMMA HoldsMerge ==
    ASSUME NEW a \in Lists, NEW b \in Lists
    PROVE  /\ HoldsAll(Merge(a, b), a) /\ HoldsAll(Merge(a, b), b)
           /\ a # <<>> => Merge(a, b) # <<>>
BY MergeIs DEF Lists

LEMMA HoldsRenewed ==
    ASSUME NEW nodes \in Lists, One(nodes)
    PROVE  HoldsAll(<<Renewed(nodes[1])>>, nodes)
<1>1. nodes[1] \in Node /\ DOMAIN nodes = {1}
  BY DEF One, Lists
<1> DEFINE r == Renewed(nodes[1])
<1>2. r.id = nodes[1].id /\ r.node_count >= nodes[1].node_count
  BY <1>1, RenewedIs DEF Node
<1>3. DOMAIN <<r>> = {1} /\ <<r>>[1] = r
  OBVIOUS
<1> HIDE DEF r
<1>4. HoldsAll(<<r>>, nodes)
  BY <1>1, <1>2, <1>3 DEF HoldsAll, Holds
<1> QED
  BY <1>4 DEF r

Calm == deaths = 0 /\ TypeInv /\ CalmInv /\ ServersDoNotJoin

\* The hosts on which a server is at work on the file.
LEMMA Alone ==
    ASSUME Calm
    PROVE  /\ \A s \in Server : srv[s] # "accept" =>
                /\ s \in OldServer /\ s \notin Client /\ s \in Host /\ up[s]
                /\ pc[s] = "off" /\ command[s] # "done"
           /\ \A s \in OldServer : s \in Server /\ s \in Host /\ s \notin Client
           /\ \A s \in OldServer : up[s] => pc[s] = "off"
BY ServersAreHosts, JoinAssumption
   DEF Calm, TypeInv, Servers, Programs, CalmInv, OneWriter, ServersDoNotJoin

LEMMA ContentType ==
    ASSUME Values, NEW h \in Host
    PROVE  Content(h) \in Lists
BY ListFacts DEF Values, Content

\* No step of a program takes anything from what a host has.
Grows ==
    \A h \in Host : Content(h)' \in Lists /\ HoldsAll(Content(h)', Content(h))

LEMMA Same ==
    ASSUME Calm, NEW h \in Host, Content(h)' = Content(h)
    PROVE  Content(h)' \in Lists /\ HoldsAll(Content(h)', Content(h))
BY ContentType, HoldsSelf DEF Calm, TypeInv

LEMMA Kept ==
    ASSUME Calm, Grows, NEW h \in Host, NEW nodes \in Lists, HoldsAll(Content(h), nodes)
    PROVE  HoldsAll(Content(h)', nodes)
BY ContentType, HoldsAlso DEF Calm, TypeInv, Grows

\* A host that a step has nothing to do with.
Idle(h) ==
    /\ pc'[h] = pc[h] /\ command'[h] = command[h] /\ mem'[h] = mem[h]
    /\ file'[h] = file[h]
    /\ h \in Server => up'[h] = up[h] /\ srv'[h] = srv[h] /\ list'[h] = list[h]

Quiet(h) == Idle(h) /\ peer'[h] = peer[h] /\ answer'[h] = answer[h] /\ Asks(h)' = Asks(h)

LEMMA IdleContent ==
    ASSUME NEW h \in Host, Idle(h)
    PROVE  Content(h)' = Content(h)
BY DEF Idle, Content

LEMMA QuietHost ==
    ASSUME Calm, Grows, NEW h \in Host, Quiet(h)
    PROVE  OneWriter(h)' /\ Told(h)' /\ Merging(h)'
<1>1. OneWriter(h)' /\ Merging(h)'
  BY DEF Calm, CalmInv, OneWriter, Merging, Quiet, Idle
<1>2. Told(h)'
  <2>1. Told(h) /\ (answer[h] = Nothing \/ answer[h] \in Lists) /\ mem[h] \in Lists
        /\ (file[h] = Nothing \/ file[h] \in Lists)
    BY DEF Calm, CalmInv, TypeInv, Values
  <2>2. peer[h] \in OldServer => peer[h] \in Host
    BY Alone
  <2>3. \A p \in Host, nodes \in Lists :
            HoldsAll(Content(p), nodes) => HoldsAll(Content(p)', nodes)
    BY Kept
  <2>4. peer'[h] = peer[h] => \A nodes \in Lists : peer[h] \in Host =>
            (HoldsAll(Content(peer[h]), nodes) => HoldsAll(Content(peer[h])', nodes))
    BY <2>3
  <2> QED
    BY <2>1, <2>2, <2>4 DEF Told, Quiet, Idle
<1> QED
  BY <1>1, <1>2

\* What remains to be shown of a step.
CalmNext ==
    /\ Grows /\ OneEach' /\ \A r \in requests' : Pending(r)'
    /\ \A h \in Host : OneWriter(h)' /\ Told(h)' /\ Merging(h)'

LEMMA GrowsBut ==
    ASSUME Calm, NEW h \in Host, \A g \in Host \ {h} : Idle(g),
           Content(h)' \in Lists, HoldsAll(Content(h)', Content(h))
    PROVE  Grows
BY IdleContent, Same DEF Grows

LEMMA QuietBut ==
    ASSUME Calm, NEW h \in Host, Grows, \A g \in Host \ {h} : Quiet(g),
           OneWriter(h)', Told(h)', Merging(h)', OneEach', \A r \in requests' : Pending(r)'
    PROVE  CalmNext
BY QuietHost DEF CalmNext

LEMMA StillHas ==
    ASSUME Calm, Grows
    PROVE  \A p \in OldServer, nodes \in Lists :
               HoldsAll(Content(p), nodes) => HoldsAll(Content(p)', nodes)
BY Kept, Alone

LEMMA GenerateCalm ==
    ASSUME Calm, NEW h \in Host, Generate(h)
    PROVE  CalmNext
<1>1. /\ pc[h] = "make" /\ command[h] \in {"start", "join", "join -f"}
      /\ pc' = [pc EXCEPT ![h] = "open"]
      /\ \A g \in Host \ {h} : mem'[g] = mem[g]
      /\ UNCHANGED <<file, command, peer, answer, runs, up, srv, list, requests, deaths>>
  BY DEF Generate, Goto, serverVars, Calm, TypeInv, Programs, Functions
<1> DEFINE Old == /\ OneWriter(h) /\ Told(h) /\ Merging(h) /\ OneEach
                  /\ \A r \in requests : Pending(r)
<1>2. Old
  BY DEF Calm, CalmInv
<1>3. pc'[h] = "open" /\ \A g \in Host \ {h} : pc'[g] = pc[g]
  BY <1>1 DEF Calm, TypeInv, Functions
<1>4. \A g \in Host \ {h} : Quiet(g)
  BY <1>1, <1>3 DEF Quiet, Idle, Asks
<1>5. Content(h)' = Content(h)
  BY <1>1, <1>3, Alone DEF Content
<1>6. Grows
  BY <1>4, <1>5, Same, GrowsBut DEF Quiet
<1>7. OneEach' /\ \A r \in requests' : Pending(r)'
  BY <1>1, <1>2, <1>3 DEF OneEach, Pending, Calm, TypeInv, Messages, Request
<1>8. OneWriter(h)' /\ Merging(h)'
  BY <1>1, <1>2, <1>3 DEF OneWriter, Merging
<1>9. Told(h)'
  BY <1>1, <1>2, <1>3 DEF Told, Asks
<1> QED
  BY <1>4, <1>6, <1>7, <1>8, <1>9, QuietBut

LEMMA OpenCalm ==
    ASSUME Calm, NEW h \in Host, Open(h)
    PROVE  CalmNext
<1>1. /\ pc[h] = "open" /\ command[h] # "none"
      /\ pc' = [pc EXCEPT ![h] = "write"] /\ file' = [file EXCEPT ![h] = <<>>]
      /\ UNCHANGED <<command, mem, peer, answer, runs, up, srv, list, requests, deaths>>
  BY DEF Open, Goto, serverVars, Calm, TypeInv, Programs
<1> DEFINE Old == /\ OneWriter(h) /\ Told(h) /\ Merging(h) /\ OneEach
                  /\ \A r \in requests : Pending(r)
<1>2. Old
  BY DEF Calm, CalmInv
<1>3. /\ pc'[h] = "write" /\ file'[h] = <<>>
      /\ \A g \in Host \ {h} : pc'[g] = pc[g] /\ file'[g] = file[g]
  BY <1>1 DEF Calm, TypeInv, Functions
<1>4. \A g \in Host \ {h} : Quiet(g)
  BY <1>1, <1>3 DEF Quiet, Idle, Asks
<1>5. Content(h)' = mem[h] /\ mem[h] \in Lists
  BY <1>1, <1>3, Alone DEF Content, Calm, TypeInv, Values
<1>6. HoldsAll(mem[h], Content(h))
  <2>1. Content(h) = IF file[h] = Nothing THEN <<>> ELSE file[h]
    BY <1>1, Alone DEF Content
  <2>2. command[h] \in {"start", "join", "join -f", "rewrite", "done"}
    BY <1>1 DEF Calm, TypeInv, Values
  <2>3. CASE file[h] = Nothing
    BY <2>1, <2>3, HoldsNothing
  <2>4. CASE file[h] # Nothing
    BY <1>1, <1>2, <2>1, <2>2, <2>4 DEF OneWriter, Told
  <2> QED
    BY <2>3, <2>4
<1>7. Grows
  BY <1>4, <1>5, <1>6, GrowsBut DEF Quiet
<1>8. OneEach' /\ \A r \in requests' : Pending(r)'
  BY <1>1, <1>2, <1>3 DEF OneEach, Pending, Calm, TypeInv, Messages, Request
<1>9. OneWriter(h)' /\ Merging(h)'
  BY <1>1, <1>2, <1>3, Alone DEF OneWriter, Merging
<1>10. Told(h)'
  <2>1. peer[h] \in OldServer /\ HoldsAll(Content(peer[h]), mem[h]) =>
            HoldsAll(Content(peer[h])', mem[h])
    BY <1>1, <1>5, <1>7, StillHas
  <2> QED
    BY <1>1, <1>2, <1>3, <2>1, ListFacts DEF Told, Asks
<1> QED
  BY <1>4, <1>7, <1>8, <1>9, <1>10, QuietBut

LEMMA WriteCalm ==
    ASSUME Calm, NEW h \in Host, Write(h)
    PROVE  CalmNext
<1> DEFINE Old == /\ OneWriter(h) /\ Told(h) /\ Merging(h) /\ OneEach
                  /\ \A r \in requests : Pending(r)
<1>1. Old
  BY DEF Calm, CalmInv
<1>2. /\ pc[h] = "write" /\ mem[h] \in Lists /\ mem[h] # <<>> /\ mem[h] # Nothing
      /\ answer[h] = Nothing
  <2>1. pc[h] = "write" /\ command[h] # "none" /\ mem[h] \in Lists
    BY ListFacts DEF Write, Calm, TypeInv, Programs, Values
  <2>2. command[h] # "done" => mem[h] # <<>>
    <3>1. command[h] # "done" => One(mem[h])
      BY <2>1 DEF Calm, TypeInv, Programs
    <3> QED
      BY <3>1, ListFacts DEF One
  <2> QED
    BY <1>1, <2>1, <2>2, ListFacts DEF Told
<1>3. /\ file' = [file EXCEPT ![h] = mem[h]]
      /\ UNCHANGED <<peer, answer, runs, up, srv, list, requests, deaths>>
      /\ \E c : pc' = [pc EXCEPT ![h] = c] /\ c \in {"off", "register", "check"}
      /\ command[h] = "done" <=> command'[h] = "done"
      /\ command[h] = "done" => pc'[h] = "off"
      /\ pc'[h] = "check" => mem'[h] = mem[h]
      /\ \A g \in Host \ {h} : mem'[g] = mem[g] /\ command'[g] = command[g]
  <2> USE DEF Calm, TypeInv, Functions
  <2>1. /\ file' = [file EXCEPT ![h] = mem[h]]
        /\ UNCHANGED <<peer, answer, runs, up, srv, list, requests, deaths>>
    BY DEF Write, serverVars
  <2>2. CASE command[h] \in {"start", "rewrite"} /\ Exit(h)
    BY <2>1, <2>2 DEF Exit, Goto
  <2>3. CASE /\ command[h] = "join" /\ Goto(h, "register")
             /\ mem' = [mem EXCEPT ![h] = <<>>] /\ UNCHANGED command
    BY <2>1, <2>3 DEF Goto
  <2>4. CASE /\ command[h] = "join -f" /\ Goto(h, "check")
             /\ UNCHANGED <<command, mem>>
    BY <2>1, <2>4 DEF Goto
  <2>5. CASE /\ command[h] = "done" /\ Goto(h, "off")
             /\ mem' = [mem EXCEPT ![h] = <<>>] /\ UNCHANGED command
    BY <2>1, <2>5 DEF Goto
  <2> QED
    BY <2>2, <2>3, <2>4, <2>5 DEF Write
<1>4. /\ pc'[h] \in {"off", "register", "check"} /\ file'[h] = mem[h]
      /\ \A g \in Host \ {h} : pc'[g] = pc[g] /\ file'[g] = file[g]
  BY <1>3 DEF Calm, TypeInv, Functions
<1>5. \A g \in Host \ {h} : Quiet(g)
  BY <1>3, <1>4 DEF Quiet, Idle, Asks
<1>6. Content(h)' = Content(h)
  BY <1>2, <1>3, <1>4, Alone DEF Content
<1>7. Grows
  BY <1>5, <1>6, Same, GrowsBut DEF Quiet
<1>8. OneEach' /\ \A r \in requests' : Pending(r)'
  BY <1>1, <1>2, <1>3, <1>4 DEF OneEach, Pending, Calm, TypeInv, Messages, Request
<1>9. OneWriter(h)' /\ Merging(h)'
  BY <1>1, <1>2, <1>3, <1>4, Alone DEF OneWriter, Merging
<1>10. Told(h)'
  <2>1. peer[h] \in OldServer /\ HoldsAll(Content(peer[h]), mem[h]) =>
            HoldsAll(Content(peer[h])', mem[h])
    BY <1>2, <1>3, <1>7, StillHas
  <2> QED
    BY <1>1, <1>2, <1>3, <1>4, <2>1 DEF Told, Asks
<1> QED
  BY <1>5, <1>7, <1>8, <1>9, <1>10, QuietBut

LEMMA CheckCacheCalm ==
    ASSUME Calm, NEW h \in Host, CheckCache(h)
    PROVE  CalmNext
<1> DEFINE Old == /\ OneWriter(h) /\ Told(h) /\ Merging(h) /\ OneEach
                  /\ \A r \in requests : Pending(r)
           new == <<Renewed(mem[h][1])>>
<1>1. Old
  BY DEF Calm, CalmInv
<1>2. /\ pc[h] = "check" /\ mem[h] \in Lists /\ One(mem[h])
      /\ \/ Exit(h)
         \/ /\ mem' = [mem EXCEPT ![h] = new] /\ pc' = [pc EXCEPT ![h] = "open"]
            /\ command' = [command EXCEPT ![h] = "rewrite"]
      /\ UNCHANGED <<file, peer, answer, runs, up, srv, list, requests, deaths>>
  BY CheckCacheIs DEF Calm
<1>3. HoldsAll(new, file[h])
  BY <1>1, <1>2, HoldsRenewed DEF OneWriter
<1> HIDE DEF new
<1>4. /\ \/ pc'[h] = "off" /\ command'[h] = "none"
         \/ pc'[h] = "open" /\ command'[h] = "rewrite" /\ mem'[h] = new
      /\ \A g \in Host \ {h} :
            pc'[g] = pc[g] /\ command'[g] = command[g] /\ mem'[g] = mem[g]
  BY <1>2 DEF Calm, TypeInv, Functions, Exit, Goto
<1>5. \A g \in Host \ {h} : Quiet(g)
  BY <1>2, <1>4 DEF Quiet, Idle, Asks
<1>6. Content(h)' = Content(h)
  BY <1>2, <1>4, Alone DEF Content
<1>7. Grows
  BY <1>5, <1>6, Same, GrowsBut DEF Quiet
<1>8. OneEach' /\ \A r \in requests' : Pending(r)'
  BY <1>1, <1>2, <1>4 DEF OneEach, Pending, Calm, TypeInv, Messages, Request
<1>9. OneWriter(h)' /\ Merging(h)'
  BY <1>1, <1>2, <1>3, <1>4, Alone DEF OneWriter, Merging
<1>10. Told(h)'
  BY <1>1, <1>2, <1>4 DEF Told, Asks
<1> QED
  BY <1>5, <1>7, <1>8, <1>9, <1>10, QuietBut

LEMMA TakeAnswerCalm ==
    ASSUME Calm, NEW h \in Host, TakeAnswer(h)
    PROVE  CalmNext
<1> DEFINE Old == /\ OneWriter(h) /\ Told(h) /\ Merging(h) /\ OneEach
                  /\ \A r \in requests : Pending(r)
<1>1. Old
  BY DEF Calm, CalmInv
<1>2. /\ pc[h] = "wait" /\ answer[h] # Nothing /\ answer[h] \in Lists /\ file[h] # Nothing
      /\ mem' = [mem EXCEPT ![h] = answer[h]]
      /\ answer' = [answer EXCEPT ![h] = Nothing]
      /\ command' = [command EXCEPT ![h] = "done"] /\ pc' = [pc EXCEPT ![h] = "open"]
      /\ UNCHANGED <<file, peer, runs, up, srv, list, requests, deaths>>
  BY DEF TakeAnswer, Goto, serverVars, Calm, TypeInv, Programs, Values
<1>3. /\ pc'[h] = "open" /\ command'[h] = "done" /\ mem'[h] = answer[h] /\ answer'[h] = Nothing
      /\ \A g \in Host \ {h} : /\ pc'[g] = pc[g] /\ command'[g] = command[g]
                               /\ mem'[g] = mem[g] /\ answer'[g] = answer[g]
  BY <1>2 DEF Calm, TypeInv, Functions
<1>4. \A g \in Host \ {h} : Quiet(g)
  BY <1>2, <1>3 DEF Quiet, Idle, Asks
<1>5. Content(h)' = Content(h)
  BY <1>2, <1>3, Alone DEF Content
<1>6. Grows
  BY <1>4, <1>5, Same, GrowsBut DEF Quiet
<1>7. OneEach' /\ \A r \in requests' : Pending(r)'
  BY <1>1, <1>2, <1>3 DEF OneEach, Pending, Calm, TypeInv, Messages, Request
<1>8. OneWriter(h)' /\ Merging(h)'
  BY <1>1, <1>2, <1>3, Alone DEF OneWriter, Merging
<1>9. Told(h)'
  <2>1. HoldsAll(Content(peer[h]), answer[h]) => HoldsAll(Content(peer[h])', answer[h])
    BY <1>1, <1>2, <1>6, StillHas DEF Told
  <2> QED
    BY <1>1, <1>2, <1>3, <2>1 DEF Told, Asks
<1> QED
  BY <1>4, <1>6, <1>7, <1>8, <1>9, QuietBut

\* While no process dies no client loses its server.
LEMMA NobodyLost ==
    ASSUME Calm, NEW h \in Host
    PROVE  ~LoseServer(h)
BY DEF Calm, CalmInv, LoseServer, Told, Asks, Pending, Waiting

LEMMA RegisterCalm ==
    ASSUME Calm, NEW h \in Host, NEW s \in Server, Register(h, s)
    PROVE  CalmNext
<1> DEFINE Old == /\ OneWriter(h) /\ Told(h) /\ Merging(h) /\ OneEach
                  /\ \A r \in requests : Pending(r)
           new == [client |-> h, server |-> s, nodes |-> file[h], open |-> TRUE, taken |-> FALSE]
<1>1. Old
  BY DEF Calm, CalmInv
<1>2. /\ pc[h] = "register" /\ command[h] = "join" /\ answer[h] = Nothing
      /\ peer' = [peer EXCEPT ![h] = s] /\ requests' = requests \cup {new}
      /\ pc' = [pc EXCEPT ![h] = "wait"]
      /\ UNCHANGED <<file, command, mem, answer, runs, up, srv, list, deaths>>
  BY <1>1 DEF Register, Goto, serverVars, Calm, TypeInv, Programs, Told
<1>3. new.client = h /\ new.server = s /\ new.nodes = file[h] /\ new.open /\ ~new.taken
  OBVIOUS
<1> HIDE DEF new
<1>4. /\ pc'[h] = "wait" /\ peer'[h] = s
      /\ \A g \in Host \ {h} : pc'[g] = pc[g] /\ peer'[g] = peer[g]
  BY <1>2 DEF Calm, TypeInv, Functions
<1>5. \A g \in Host \ {h} : Quiet(g)
  BY <1>2, <1>3, <1>4 DEF Quiet, Idle, Asks
<1>6. Content(h)' = Content(h)
  BY <1>2, <1>4, Alone DEF Content
<1>7. Grows
  BY <1>5, <1>6, Same, GrowsBut DEF Quiet
<1>8. \A r \in requests : r.client # h /\ r.client \in Host
  BY <1>1, <1>2 DEF Pending, Calm, TypeInv, Messages, Request
<1>9. OneEach'
  BY <1>1, <1>2, <1>3, <1>8 DEF OneEach
<1>10. \A r \in requests' : Pending(r)'
  BY <1>1, <1>2, <1>3, <1>4, <1>8 DEF Pending
<1>11. OneWriter(h)' /\ Merging(h)'
  BY <1>1, <1>2, <1>4, Alone DEF OneWriter, Merging
<1>12. Told(h)'
  BY <1>1, <1>2, <1>3, <1>4 DEF Told, Asks
<1> QED
  BY <1>5, <1>7, <1>9, <1>10, <1>11, <1>12, QuietBut

LEMMA ConnectFailsCalm ==
    ASSUME Calm, NEW h \in Host, NEW s \in Server, ConnectFails(h, s)
    PROVE  CalmNext
<1> DEFINE Old == /\ OneWriter(h) /\ Told(h) /\ Merging(h) /\ OneEach
                  /\ \A r \in requests : Pending(r)
<1>1. Old
  BY DEF Calm, CalmInv
<1>2. /\ pc[h] = "register" /\ Exit(h)
      /\ UNCHANGED <<file, peer, answer, runs, up, srv, list, requests, deaths>>
  BY DEF ConnectFails, serverVars
<1>3. /\ pc'[h] = "off" /\ command'[h] = "none"
      /\ \A g \in Host \ {h} : pc'[g] = pc[g] /\ command'[g] = command[g] /\ mem'[g] = mem[g]
  BY <1>2 DEF Calm, TypeInv, Functions, Exit, Goto
<1>4. \A g \in Host \ {h} : Quiet(g)
  BY <1>2, <1>3 DEF Quiet, Idle, Asks
<1>5. Content(h)' = Content(h)
  BY <1>2, <1>3, Alone DEF Content
<1>6. Grows
  BY <1>4, <1>5, Same, GrowsBut DEF Quiet
<1>7. OneEach' /\ \A r \in requests' : Pending(r)'
  BY <1>1, <1>2, <1>3 DEF OneEach, Pending, Calm, TypeInv, Messages, Request
<1>8. OneWriter(h)' /\ Merging(h)'
  BY <1>1, <1>2, <1>3, Alone DEF OneWriter, Merging
<1>9. Told(h)'
  BY <1>1, <1>2, <1>3 DEF Told, Asks
<1> QED
  BY <1>4, <1>6, <1>7, <1>8, <1>9, QuietBut

LEMMA LaunchCalm ==
    ASSUME Calm, NEW h \in Host, NEW c \in {"start", "join", "join -f"}, Launch(h, c),
           c = "start" \/ h \in Client
    PROVE  CalmNext
<1> DEFINE Old == /\ OneWriter(h) /\ Told(h) /\ Merging(h) /\ OneEach
                  /\ \A r \in requests : Pending(r)
<1>1. Old
  BY DEF Calm, CalmInv
<1>2. /\ pc[h] = "off" /\ command' = [command EXCEPT ![h] = c]
      /\ peer' = [peer EXCEPT ![h] = Nothing]
      /\ \/ file[h] = Nothing /\ pc' = [pc EXCEPT ![h] = "make"]
         \/ c = "join" /\ pc' = [pc EXCEPT ![h] = "register"]
      /\ UNCHANGED <<file, mem, answer, up, srv, list, requests, deaths>>
  BY DEF Launch, Goto, serverVars
<1>3. /\ command'[h] = c
      /\ \/ file[h] = Nothing /\ pc'[h] = "make"
         \/ c = "join" /\ pc'[h] = "register"
      /\ \A g \in Host \ {h} : pc'[g] = pc[g] /\ command'[g] = command[g] /\ peer'[g] = peer[g]
  BY <1>2 DEF Calm, TypeInv, Functions
<1>4. \A g \in Host \ {h} : Quiet(g)
  BY <1>2, <1>3 DEF Quiet, Idle, Asks
<1>5. Content(h)' = Content(h)
  BY <1>2, <1>3 DEF Content
<1>6. Grows
  BY <1>4, <1>5, Same, GrowsBut DEF Quiet
<1>7. OneEach' /\ \A r \in requests' : Pending(r)'
  BY <1>1, <1>2, <1>3 DEF OneEach, Pending, Calm, TypeInv, Messages, Request
<1>8. OneWriter(h)'
  <2>1. h \in Server \ Client => (up[h] => file[h] # Nothing /\ c = "start")
    BY DEF Calm, TypeInv, Servers
  <2> QED
    BY <1>1, <1>2, <1>3, <2>1 DEF OneWriter
<1>9. Merging(h)'
  BY <1>1, <1>2, <1>3 DEF Merging
<1>10. Told(h)'
  BY <1>1, <1>2, <1>3 DEF Told, Asks
<1> QED
  BY <1>4, <1>6, <1>7, <1>8, <1>9, <1>10, QuietBut

LEMMA AcceptCalm ==
    ASSUME Calm, NEW s \in Server, Accept(s)
    PROVE  CalmNext
<1> DEFINE Old == /\ OneWriter(s) /\ Told(s) /\ Merging(s) /\ OneEach
                  /\ \A q \in requests : Pending(q)
<1>1. s \in Host /\ Old
  BY ServersAreHosts DEF Calm, CalmInv
<1>2. /\ up[s] /\ srv[s] = "accept" /\ file[s] \in Lists
      /\ UNCHANGED <<file, pc, command, mem, peer, answer, deaths>>
  BY <1>1 DEF Accept, clientVars, Calm, TypeInv, Servers, Values
<1>3. Dispatches(s) => s \in OldServer /\ pc[s] = "off" /\ file[s] # <<>>
  BY <1>1, <1>2, Alone DEF Dispatches, Merging
<1>4. PICK r \in requests :
        /\ r.server = s /\ ~r.taken /\ requests' = (requests \ {r}) \cup {Taken(r)}
        /\ \/ ~Dispatches(s) /\ UNCHANGED <<up, srv, list>>
           \/ /\ Dispatches(s)
              /\ list' = [list EXCEPT ![s] = Merge(file[s], r.nodes)]
              /\ srv' = [srv EXCEPT ![s] = "open"]
              /\ UNCHANGED up
  BY <1>3 DEF Accept
<1> DEFINE new == Merge(file[s], r.nodes)
<1>5. /\ new \in Lists /\ (file[s] # <<>> => new # <<>>)
      /\ HoldsAll(new, file[s]) /\ HoldsAll(new, r.nodes)
  BY <1>2, HoldsMerge, MergeIs DEF Calm, TypeInv, Messages, Request, Lists
<1>6. /\ Taken(r).client = r.client /\ Taken(r).server = s /\ Taken(r).nodes = r.nodes
      /\ Taken(r).open = r.open /\ Taken(r).taken
  BY <1>4 DEF Calm, TypeInv, Messages, Request, Taken
<1>7. /\ \A g \in Server \ {s} : srv'[g] = srv[g] /\ list'[g] = list[g]
      /\ UNCHANGED up
      /\ \/ ~Dispatches(s) /\ srv'[s] = "accept" /\ list'[s] = list[s]
         \/ Dispatches(s) /\ srv'[s] = "open" /\ list'[s] = new
  BY <1>2, <1>4 DEF Calm, TypeInv, Functions
<1> HIDE DEF new
<1>8. \A g \in Host : Asks(g)' = Asks(g)
  BY <1>4, <1>6 DEF Asks
<1>9. \A g \in Host \ {s} : Quiet(g)
  BY <1>2, <1>7, <1>8 DEF Quiet, Idle
<1>10. Content(s)' = Content(s)
  BY <1>2, <1>7 DEF Content
<1>11. Grows
  BY <1>1, <1>9, <1>10, Same, GrowsBut DEF Quiet
<1>12. OneEach'
  <2>1. \A q \in requests : s \in OldServer /\ q.server = s => ~q.taken
    BY <1>1, <1>2 DEF Pending
  <2> QED
    BY <1>1, <1>4, <1>6, <2>1 DEF OneEach
<1>13. \A q \in requests' : Pending(q)'
  <2>1. Pending(Taken(r))'
    <3>1. Pending(r)
      BY <1>1, <1>4
    <3> QED
      BY <1>2, <1>4, <1>5, <1>6, <1>7, <3>1 DEF Pending, Dispatches
  <2>2. ASSUME NEW q \in requests
        PROVE  Pending(q)'
    <3>1. Pending(q) /\ q.server \in Server
      BY <1>1 DEF Calm, TypeInv, Messages, Request
    <3>2. q.server = s => ~(q.taken /\ s \in OldServer)
      BY <1>2, <3>1 DEF Pending
    <3> QED
      BY <1>2, <1>7, <3>1, <3>2 DEF Pending
  <2> QED
    BY <1>4, <2>1, <2>2
<1>14. OneWriter(s)' /\ Merging(s)'
  BY <1>1, <1>2, <1>3, <1>5, <1>7 DEF OneWriter, Merging
<1>15. Told(s)'
  <2>1. /\ answer[s] = Nothing \/ answer[s] \in Lists
        /\ mem[s] \in Lists /\ (file[s] = Nothing \/ file[s] \in Lists)
    BY <1>1 DEF Calm, TypeInv, Values
  <2>2. \A nodes \in Lists : peer[s] \in OldServer /\ HoldsAll(Content(peer[s]), nodes) =>
            HoldsAll(Content(peer[s])', nodes)
    BY <1>2, <1>11, StillHas
  <2> QED
    BY <1>1, <1>2, <1>8, <2>1, <2>2 DEF Told
<1> QED
  BY <1>1, <1>9, <1>11, <1>12, <1>13, <1>14, <1>15, QuietBut

LEMMA ServerOpenCalm ==
    ASSUME Calm, NEW s \in Server, ServerOpen(s)
    PROVE  CalmNext
<1> DEFINE Old == /\ OneWriter(s) /\ Told(s) /\ Merging(s) /\ OneEach
                  /\ \A q \in requests : Pending(q)
<1>1. s \in Host /\ Old
  BY ServersAreHosts DEF Calm, CalmInv
<1>2. /\ srv[s] = "open" /\ pc[s] = "off" /\ command[s] # "done" /\ list[s] \in Lists
      /\ file' = [file EXCEPT ![s] = <<>>] /\ srv' = [srv EXCEPT ![s] = "write"]
      /\ UNCHANGED <<pc, command, mem, peer, answer, up, list, requests, deaths>>
  BY Alone DEF ServerOpen, clientVars, Calm, TypeInv, Values
<1>3. /\ file'[s] = <<>> /\ srv'[s] = "write"
      /\ \A g \in Host \ {s} : file'[g] = file[g]
      /\ \A g \in Server \ {s} : srv'[g] = srv[g]
  BY <1>1, <1>2 DEF Calm, TypeInv, Functions
<1>4. \A g \in Host \ {s} : Quiet(g)
  BY <1>2, <1>3 DEF Quiet, Idle, Asks
<1>5. Content(s)' = list[s] /\ Content(s) = IF file[s] = Nothing THEN <<>> ELSE file[s]
  BY <1>2, <1>3 DEF Content
<1>6. Grows
  <2>1. HoldsAll(list[s], Content(s))
    BY <1>1, <1>2, <1>5, HoldsNothing DEF Merging
  <2> QED
    BY <1>1, <1>2, <1>4, <1>5, <2>1, GrowsBut DEF Quiet
<1>7. OneEach' /\ \A q \in requests' : Pending(q)'
  BY <1>1, <1>2, <1>3 DEF OneEach, Pending, Calm, TypeInv, Messages, Request
<1>8. OneWriter(s)' /\ Merging(s)'
  BY <1>1, <1>2, <1>3 DEF OneWriter, Merging
<1>9. Told(s)'
  BY <1>1, <1>2, <1>3 DEF Told
<1> QED
  BY <1>1, <1>4, <1>6, <1>7, <1>8, <1>9, QuietBut

LEMMA ServerWriteCalm ==
    ASSUME Calm, NEW s \in Server, ServerWrite(s)
    PROVE  CalmNext
<1> DEFINE Old == /\ OneWriter(s) /\ Told(s) /\ Merging(s) /\ OneEach
                  /\ \A q \in requests : Pending(q)
<1>1. s \in Host /\ Old
  BY ServersAreHosts DEF Calm, CalmInv
<1>2. /\ srv[s] = "write" /\ pc[s] = "off" /\ command[s] # "done" /\ list[s] \in Lists
      /\ file' = [file EXCEPT ![s] = list[s]] /\ srv' = [srv EXCEPT ![s] = "send"]
      /\ UNCHANGED <<pc, command, mem, peer, answer, up, list, requests, deaths>>
  BY Alone DEF ServerWrite, clientVars, Calm, TypeInv, Values
<1>3. /\ file'[s] = list[s] /\ srv'[s] = "send"
      /\ \A g \in Host \ {s} : file'[g] = file[g]
      /\ \A g \in Server \ {s} : srv'[g] = srv[g]
  BY <1>1, <1>2 DEF Calm, TypeInv, Functions
<1>4. \A g \in Host \ {s} : Quiet(g)
  BY <1>2, <1>3 DEF Quiet, Idle, Asks
<1>5. Content(s)' = Content(s)
  BY <1>2, <1>3, ListFacts DEF Content
<1>6. Grows
  BY <1>1, <1>4, <1>5, Same, GrowsBut DEF Quiet
<1>7. OneEach' /\ \A q \in requests' : Pending(q)'
  BY <1>1, <1>2, <1>3 DEF OneEach, Pending, Calm, TypeInv, Messages, Request
<1>8. OneWriter(s)' /\ Merging(s)'
  BY <1>1, <1>2, <1>3 DEF OneWriter, Merging
<1>9. Told(s)'
  BY <1>1, <1>2, <1>3 DEF Told
<1> QED
  BY <1>1, <1>4, <1>6, <1>7, <1>8, <1>9, QuietBut

LEMMA ReplyCalm ==
    ASSUME Calm, NEW s \in Server, Reply(s)
    PROVE  CalmNext
<1>1. /\ \A q \in requests : Pending(q)
      /\ OneEach /\ \A g \in Host : OneWriter(g) /\ Told(g) /\ Merging(g)
  BY DEF Calm, CalmInv
<1>2. PICK r \in requests :
        /\ r.server = s /\ r.taken /\ requests' = requests \ {r}
        /\ answer' = [answer EXCEPT ![r.client] = list[s]]
        /\ srv' = [srv EXCEPT ![s] = "accept"] /\ list' = [list EXCEPT ![s] = <<>>]
        /\ UNCHANGED up
  BY <1>1 DEF Reply, Pending
<1> DEFINE c == r.client
<1>3. /\ srv[s] = "send" /\ s \in OldServer /\ s \in Host /\ pc[s] = "off" /\ command[s] # "done"
      /\ UNCHANGED <<file, pc, command, mem, peer, deaths>>
      /\ c \in Host /\ r.nodes \in Lists /\ list[s] \in Lists
  BY Alone DEF Reply, Calm, TypeInv, Messages, Request, Values
<1>4. /\ pc[c] = "wait" /\ peer[c] = s /\ r.nodes = file[c] /\ answer[c] = Nothing
      /\ HoldsAll(list[s], file[c]) /\ list[s] # <<>> /\ file[s] = list[s] /\ c # s
  BY <1>1, <1>2, <1>3 DEF Pending, Merging
<1> HIDE DEF c
<1>5. /\ answer'[c] = list[s] /\ srv'[s] = "accept"
      /\ \A g \in Host \ {c} : answer'[g] = answer[g]
      /\ \A g \in Server \ {s} : srv'[g] = srv[g] /\ list'[g] = list[g]
  BY <1>2, <1>3 DEF Calm, TypeInv, Functions, c
<1>6. \A g \in Host \ {c} : Asks(g)' = Asks(g)
  BY <1>2 DEF Asks, c
<1>7. \A g \in Host \ {s, c} : Quiet(g)
  BY <1>2, <1>3, <1>5, <1>6 DEF Quiet, Idle
<1>8. Grows
  <2>1. \A g \in Host \ {s} : Idle(g)
    BY <1>2, <1>3, <1>5 DEF Idle
  <2>2. Content(s)' = Content(s) /\ Content(s) = list[s]
    BY <1>3, <1>4, <1>5, ListFacts DEF Content
  <2> QED
    BY <1>3, <2>1, <2>2, Same, GrowsBut
<1>9. OneEach'
  BY <1>1, <1>2 DEF OneEach
<1>10. ASSUME NEW q \in requests'
       PROVE  Pending(q)'
  <2>1. q \in requests /\ q # r /\ Pending(q) /\ q.server \in Server /\ q.client \in Host
    BY <1>1, <1>2 DEF Calm, TypeInv, Messages, Request
  <2>2. q.client # c /\ ~(q.taken /\ q.server = s)
    BY <1>1, <1>2, <1>3, <2>1 DEF OneEach, c
  <2> QED
    BY <1>2, <1>3, <1>5, <2>1, <2>2 DEF Pending
<1>11. OneWriter(s)' /\ Merging(s)' /\ OneWriter(c)' /\ Merging(c)'
  <2>1. OneWriter(s)' /\ OneWriter(c)'
    BY <1>1, <1>2, <1>3, <1>4 DEF OneWriter
  <2>2. Merging(s)'
    BY <1>1, <1>3, <1>4, <1>5 DEF Merging
  <2>3. Merging(c)'
    BY <1>1, <1>3, <1>4, <1>5 DEF Merging
  <2> QED
    BY <2>1, <2>2, <2>3
<1>12. Told(s)'
  BY <1>1, <1>3, <1>4, <1>5 DEF Told
<1>13. Told(c)'
  <2>1. Content(s)' = list[s]
    BY <1>3, <1>4, <1>5, ListFacts DEF Content
  <2>2. HoldsAll(Content(s)', list[s])
    BY <1>3, <2>1, HoldsSelf
  <2>3. command[c] # "done"
    BY <1>3, <1>4 DEF Calm, TypeInv, Programs
  <2>4. HoldsAll(Content(peer[c])', list[s])
    BY <1>3, <1>4, <2>2
  <2>5. pc'[c] = "wait" /\ peer'[c] \in OldServer /\ command'[c] # "done"
    BY <1>3, <1>4, <2>3
  <2>6. HoldsAll(answer'[c], file'[c]) /\ answer'[c] # <<>> /\ answer'[c] # Nothing
    BY <1>3, <1>4, <1>5, ListFacts
  <2>7. HoldsAll(Content(peer[c])', answer'[c])
    BY <1>5, <2>4
  <2> QED
    BY <2>5, <2>6, <2>7 DEF Told
<1> QED
  BY <1>7, <1>8, <1>9, <1>10, <1>11, <1>12, <1>13, QuietHost DEF CalmNext

LEMMA BootCalm ==
    ASSUME Calm, NEW s \in Server, Boot(s)
    PROVE  CalmNext
<1> DEFINE Old == /\ OneWriter(s) /\ Told(s) /\ Merging(s) /\ OneEach
                  /\ \A q \in requests : Pending(q)
<1>1. s \in Host /\ Old
  BY ServersAreHosts DEF Calm, CalmInv
<1>2. /\ pc[s] = "off" /\ up' = [up EXCEPT ![s] = TRUE]
      /\ UNCHANGED <<file, pc, command, mem, peer, answer, srv, list, requests, deaths>>
  BY DEF Boot, clientVars
<1>3. \A g \in Server \ {s} : up'[g] = up[g]
  BY <1>2 DEF Calm, TypeInv, Functions
<1>4. \A g \in Host \ {s} : Quiet(g)
  BY <1>2, <1>3 DEF Quiet, Idle, Asks
<1>5. Content(s)' = Content(s)
  BY <1>2 DEF Content
<1>6. Grows
  BY <1>1, <1>4, <1>5, Same, GrowsBut DEF Quiet
<1>7. OneEach' /\ \A q \in requests' : Pending(q)'
  BY <1>1, <1>2 DEF OneEach, Pending
<1>8. OneWriter(s)' /\ Merging(s)'
  BY <1>1, <1>2 DEF OneWriter, Merging
<1>9. Told(s)'
  <2>1. /\ answer[s] = Nothing \/ answer[s] \in Lists
        /\ mem[s] \in Lists /\ (file[s] = Nothing \/ file[s] \in Lists)
    BY <1>1 DEF Calm, TypeInv, Values
  <2>2. \A nodes \in Lists : peer[s] \in OldServer /\ HoldsAll(Content(peer[s]), nodes) =>
            HoldsAll(Content(peer[s])', nodes)
    BY <1>2, <1>6, StillHas
  <2> QED
    BY <1>1, <1>2, <2>1, <2>2 DEF Told, Asks
<1> QED
  BY <1>1, <1>4, <1>6, <1>7, <1>8, <1>9, QuietBut

LEMMA StutterCalm ==
    ASSUME Calm, UNCHANGED vars
    PROVE  CalmNext
<1> USE DEF vars, clientVars, serverVars
<1>1. \A h \in Host : Quiet(h) /\ Content(h)' = Content(h)
  BY DEF Quiet, Idle, Asks, Content
<1>2. Grows
  BY <1>1, Same DEF Grows
<1>3. OneEach' /\ \A r \in requests' : Pending(r)'
  BY DEF Calm, CalmInv, OneEach, Pending
<1> QED
  BY <1>1, <1>2, <1>3, QuietHost DEF CalmNext

LEMMA CalmStep ==
    ASSUME Calm, [Next]_vars, deaths' = 0
    PROVE  CalmNext
<1>1. \A h \in Host : ~Die(h)
  BY DEF Die, Calm
<1>2. \A s \in Server : ~Crash(s)
  BY DEF Crash, Calm
<1>3. CASE \E h \in Host : \/ Generate(h) \/ Open(h) \/ Write(h) \/ CheckCache(h)
                           \/ TakeAnswer(h) \/ LoseServer(h) \/ Die(h)
  BY <1>1, <1>3, GenerateCalm, OpenCalm, WriteCalm, CheckCacheCalm, TakeAnswerCalm, NobodyLost
<1>4. CASE \E h \in Host, s \in Server : Register(h, s) \/ ConnectFails(h, s)
  BY <1>4, RegisterCalm, ConnectFailsCalm
<1>5. CASE \E s \in Server : \/ Accept(s) \/ ServerOpen(s) \/ ServerWrite(s) \/ Reply(s)
                             \/ Boot(s) \/ Crash(s)
  BY <1>2, <1>5, AcceptCalm, ServerOpenCalm, ServerWriteCalm, ReplyCalm, BootCalm
<1> QED
  BY <1>3, <1>4, <1>5, Steps, StutterCalm, LaunchCalm

\* Deaths are counted and never forgotten.
LEMMA DeathsGrow ==
    ASSUME TypeInv, [Next]_vars, deaths' = 0
    PROVE  deaths = 0
<1>1. deaths \in Nat
  <2>1. deaths \in 0 .. MaxDeaths
    BY DEF TypeInv, Values
  <2> QED
    BY <2>1, Limits
<1>2. deaths' = deaths \/ deaths' = deaths + 1
  <2> USE DEF vars, clientVars, serverVars
  <2>1. CASE \E h \in Host : \/ Generate(h) \/ Open(h) \/ Write(h) \/ CheckCache(h)
                             \/ TakeAnswer(h) \/ LoseServer(h) \/ Die(h)
    BY <2>1 DEF Generate, Open, Write, CheckCache, TakeAnswer, LoseServer, Die
  <2>2. CASE \E h \in Host, s \in Server : Register(h, s) \/ ConnectFails(h, s)
    BY <2>2 DEF Register, ConnectFails
  <2>3. CASE \E h \in Host, c \in {"start", "join", "join -f"} :
                 Launch(h, c) /\ (c = "start" \/ h \in Client)
    BY <2>3 DEF Launch
  <2>4. CASE \E s \in Server : \/ Accept(s) \/ ServerOpen(s) \/ ServerWrite(s) \/ Reply(s)
                               \/ Boot(s) \/ Crash(s)
    BY <2>4 DEF Accept, ServerOpen, ServerWrite, Reply, Boot, Crash
  <2>5. CASE UNCHANGED vars
    BY <2>5
  <2> QED
    BY <2>1, <2>2, <2>3, <2>4, <2>5, Steps
<1> QED
  BY <1>1, <1>2

LEMMA CalmInit == Init => CalmInv
BY ListFacts, ServersAreHosts
   DEF Init, CalmInv, OneEach, OneWriter, Told, Merging

LEMMA CalmAlways ==
    ASSUME ServersDoNotJoin
    PROVE  Spec => []CalmInv
<1>1. TypeInv /\ CalmInv /\ [Next]_vars => CalmInv'
  <2> SUFFICES ASSUME TypeInv, CalmInv, [Next]_vars, deaths' = 0
               PROVE  CalmInv'
    BY DEF CalmInv
  <2>1. CalmNext
    BY DeathsGrow, CalmStep DEF Calm
  <2> QED
    BY <2>1 DEF CalmNext, CalmInv
<1> QED
  BY <1>1, CalmInit, TypeAlways, PTL DEF Spec

\* As long as no process has died, what a client was told by node_join_server is
\* in that server's list for ever, in this or a later version, the client's own
\* node with it: no later registration takes it away.  The hypothesis excludes a
\* server that joins another one (see JoinForgetsNothing for what happens then).
THEOREM ToldIsKeptCorrect ==
    ASSUME ServersDoNotJoin
    PROVE  Spec => []ToldIsKept
<1>1. TypeInv /\ CalmInv => ToldIsKept
  <2> SUFFICES ASSUME TypeInv, CalmInv, NEW h \in Host, deaths = 0, command[h] = "done"
               PROVE  HoldsAll(Content(peer[h]), Content(h))
    BY DEF ToldIsKept
  <2>1. Calm
    BY DEF Calm
  <2>2. /\ Told(h) /\ pc[h] \in {"open", "write", "off"} /\ h \in Client
        /\ ~(h \in Server /\ srv[h] = "write")
    BY <2>1, Alone DEF CalmInv, TypeInv, Programs
  <2>3. peer[h] \in Host
    BY <2>1, <2>2, Alone DEF Told
  <2>4. /\ Content(peer[h]) \in Lists /\ mem[h] \in Lists /\ file[h] \in Lists
    BY <2>2, <2>3, ContentType DEF TypeInv, Values, Told
  <2>5. CASE pc[h] = "write"
    BY <2>2, <2>5 DEF Content, Told
  <2>6. CASE pc[h] = "off"
    BY <2>2, <2>6 DEF Content, Told
  <2>7. CASE pc[h] = "open"
    <3>1. Content(h) = file[h]
      BY <2>2, <2>7 DEF Content, Told
    <3>2. HoldsAll(Content(peer[h]), mem[h]) /\ HoldsAll(mem[h], file[h])
      BY <2>2, <2>7 DEF Told
    <3> QED
      BY <2>4, <3>1, <3>2, HoldsAlso
  <2> QED
    BY <2>2, <2>5, <2>6, <2>7
<1> QED
  BY <1>1, TypeAlways, CalmAlways, PTL

-----------------------------------------------------------------------------
(* The files keep the promise of Knowledge. *)

\* Only one host's file or list changes in a step.
OneHost == \E h \in Host : \A g \in Host \ {h} : Content(g)' = Content(g)

LEMMA OneHostOf ==
    ASSUME NEW h \in Host, \A g \in Host \ {h} : Idle(g)
    PROVE  OneHost
BY IdleContent DEF OneHost

LEMMA Changes ==
    ASSUME TypeInv, [Next]_vars
    PROVE  \/ UNCHANGED deaths /\ \A g \in Host : Content(g)' = Content(g)
           \/ OneHost /\ UNCHANGED appeared
<1> USE DEF TypeInv, Functions, Goto, Exit
<1>1. CASE UNCHANGED vars
  BY <1>1 DEF vars, clientVars, serverVars, Content
<1>2. ASSUME NEW h \in Host, Generate(h)
      PROVE  UNCHANGED deaths /\ \A g \in Host : Content(g)' = Content(g)
  <2>1. /\ pc[h] = "make" /\ pc' = [pc EXCEPT ![h] = "open"]
        /\ \A k \in Host \ {h} : mem'[k] = mem[k]
        /\ UNCHANGED <<file, srv, list, deaths>>
    BY <1>2 DEF Generate, serverVars
  <2> QED
    BY <2>1 DEF Content
<1>3. ASSUME NEW h \in Host, CheckCache(h)
      PROVE  UNCHANGED deaths /\ \A g \in Host : Content(g)' = Content(g)
  <2> DEFINE new == <<Renewed(mem[h][1])>>
  <2>1. /\ pc[h] = "check" /\ UNCHANGED <<file, srv, list, deaths>>
        /\ Exit(h) \/ (mem' = [mem EXCEPT ![h] = new] /\ pc' = [pc EXCEPT ![h] = "open"])
    BY <1>3, CheckCacheIs
  <2> HIDE DEF new
  <2>2. /\ \A k \in Host \ {h} : pc'[k] = pc[k] /\ mem'[k] = mem[k]
        /\ pc'[h] \in {"open", "off"}
    BY <2>1
  <2> QED
    BY <2>1, <2>2 DEF Content
<1>4. ASSUME NEW h \in Host,
             Open(h) \/ Write(h) \/ TakeAnswer(h) \/ LoseServer(h) \/ Die(h)
      PROVE  OneHost /\ UNCHANGED appeared
  <2>1. \A g \in Host \ {h} : Idle(g)
    BY <1>4 DEF Idle, Open, Write, TakeAnswer, LoseServer, Die, serverVars
  <2>2. UNCHANGED appeared
    BY <1>4 DEF Open, Write, TakeAnswer, LoseServer, Die
  <2> QED
    BY <2>1, <2>2, OneHostOf
<1>5. ASSUME NEW h \in Host, NEW s \in Server, Register(h, s) \/ ConnectFails(h, s)
      PROVE  OneHost /\ UNCHANGED appeared
  <2>1. \A g \in Host \ {h} : Idle(g)
    BY <1>5 DEF Idle, Register, ConnectFails, serverVars
  <2>2. UNCHANGED appeared
    BY <1>5 DEF Register, ConnectFails
  <2> QED
    BY <2>1, <2>2, OneHostOf
<1>6. ASSUME NEW h \in Host, NEW c \in {"start", "join", "join -f"}, Launch(h, c)
      PROVE  OneHost /\ UNCHANGED appeared
  <2>1. \A g \in Host \ {h} : Idle(g)
    BY <1>6 DEF Idle, Launch, serverVars
  <2> QED
    BY <1>6, <2>1, OneHostOf DEF Launch
<1>7. ASSUME NEW s \in Server, \/ Accept(s) \/ ServerOpen(s) \/ ServerWrite(s) \/ Reply(s)
                               \/ Boot(s) \/ Crash(s)
      PROVE  OneHost /\ UNCHANGED appeared
  <2>1. \A g \in Host \ {s} : Idle(g)
    <3>1. CASE Accept(s)
      BY <3>1 DEF Idle, Accept, Down, clientVars
    <3>2. CASE ServerOpen(s) \/ ServerWrite(s) \/ Boot(s)
      BY <3>2 DEF Idle, ServerOpen, ServerWrite, Boot, clientVars
    <3>3. CASE Reply(s)
      BY <3>3 DEF Idle, Reply, Down
    <3>4. CASE Crash(s)
      BY <3>4 DEF Idle, Crash, Down, clientVars
    <3> QED
      BY <1>7, <3>1, <3>2, <3>3, <3>4
  <2>2. UNCHANGED appeared
    BY <1>7 DEF Accept, ServerOpen, ServerWrite, Reply, Boot, Crash
  <2> QED
    BY <2>1, <2>2, OneHostOf, ServersAreHosts
<1> QED
  <2>1. CASE \E h \in Host : \/ Generate(h) \/ Open(h) \/ Write(h) \/ CheckCache(h)
                             \/ TakeAnswer(h) \/ LoseServer(h) \/ Die(h)
    BY <2>1, <1>2, <1>3, <1>4
  <2> QED
    BY <1>1, <1>5, <1>6, <1>7, <2>1, Steps

LEMMA ContentKnown ==
    ASSUME FactsInv', NEW h \in Host
    PROVE  FactsOf(Content(h)') \subseteq appeared'
<1>1. FactsOf(<<>>) = {}
  BY DEF FactsOf
<1> QED
  BY <1>1 DEF FactsInv, Content, Known

LEMMA Covers ==
    ASSUME NEW a \in Lists, NEW b \in Lists, HoldsAll(a, b)
    PROVE  K!CoveredBy(FactsOf(b), FactsOf(a))
<1> SUFFICES ASSUME NEW f \in FactsOf(b)
             PROVE  \E g \in FactsOf(a) : g.id = f.id /\ g.node_count >= f.node_count
  BY DEF K!CoveredBy
<1>1. PICK i \in DOMAIN b : f = [id |-> b[i].id, node_count |-> b[i].node_count]
  BY DEF FactsOf
<1>2. PICK j \in DOMAIN a : a[j].id = b[i].id /\ a[j].node_count >= b[i].node_count
  BY DEF HoldsAll, Holds
<1>3. [id |-> a[j].id, node_count |-> a[j].node_count] \in FactsOf(a)
  BY DEF FactsOf
<1> QED
  BY <1>1, <1>2, <1>3

LEMMA RemembersStep ==
    ASSUME TypeInv, FactsInv, FactsInv', CalmInv, ServersDoNotJoin, [Next]_vars
    PROVE  K!Next
<1> DEFINE facts(h) == FactsOf(Content(h))
           known == [h \in Host |-> facts(h)]
<1>1. appeared \subseteq appeared' /\ appeared' \subseteq [id : Ids, node_count : Nat]
  BY FactsStep DEF FactsInv
<1>2. CASE UNCHANGED deaths /\ \A g \in Host : Content(g)' = Content(g)
  <2>1. UNCHANGED known
    BY <1>2
  <2>2. UNCHANGED (deaths = 0)
    BY <1>2
  <2>3. K!Appear
    BY <1>1, <2>1, <2>2 DEF K!Appear
  <2> QED
    BY <2>3 DEF K!Next
<1>3. CASE OneHost /\ UNCHANGED appeared
  <2>1. PICK h \in Host : \A g \in Host \ {h} : Content(g)' = Content(g)
    BY <1>3 DEF OneHost
  <2>2. K!Rewrites(h)
    <3>1. known'[h] \subseteq appeared
      BY <1>3, ContentKnown
    <3>2. known' = [known EXCEPT ![h] = known'[h]]
      <4>1. \A g \in Host \ {h} : facts(g)' = facts(g)
        BY <2>1
      <4> HIDE DEF facts
      <4> QED
        BY <4>1
    <3> QED
      BY <3>1, <3>2 DEF K!Rewrites
  <2>3. CASE deaths' = 0
    <3>1. deaths = 0
      BY <2>3, DeathsGrow
    <3>2. Grows
      BY <2>3, <3>1, CalmStep DEF Calm, CalmNext
    <3>3. Content(h) \in Lists /\ Content(h)' \in Lists /\ HoldsAll(Content(h)', Content(h))
      BY <3>2, ContentType DEF Grows, TypeInv
    <3>4. K!CoveredBy(FactsOf(Content(h)), FactsOf(Content(h)'))
      BY <3>3, Covers
    <3>5. K!CoveredBy(known[h], known'[h])
      BY <3>4
    <3>6. UNCHANGED (deaths = 0)
      BY <2>3, <3>1
    <3>7. K!Learn(h)
      BY <1>3, <2>2, <3>5, <3>6 DEF K!Learn
    <3> QED
      BY <3>7 DEF K!Next
  <2>4. CASE deaths' # 0
    <3>1. K!Forget(h)
      BY <1>3, <2>2, <2>4 DEF K!Forget
    <3> QED
      BY <3>1 DEF K!Next
  <2> QED
    BY <2>3, <2>4
<1> QED
  BY <1>2, <1>3, Changes

\* Joining keeps the promise of Knowledge: what a host's file lists only ever
\* grows, by versions of nodes that some host generated, until a process has died.
THEOREM RemembersCorrect ==
    ASSUME ServersDoNotJoin
    PROVE  Spec => Remembers
<1>1. Init => K!Init
  BY ListFacts DEF Init, K!Init, Content, FactsOf
<1>2. Spec => []FactsInv
  BY FactsInit, FactsStep, TypeAlways, PTL DEF Spec
<1>3. TypeInv /\ FactsInv /\ FactsInv' /\ CalmInv /\ [Next]_vars => [K!Next]_(K!vars)
  BY RemembersStep
<1> QED
  BY <1>1, <1>2, <1>3, TypeAlways, CalmAlways, PTL DEF Spec, Remembers, K!Spec
=============================================================================
