------------------------------ MODULE Transfer ------------------------------
(***************************************************************************)
(* How a list travels: Util/message.c between two processes, over TCP, and *)
(* the text of NodeInfo/node_info.c it is written in, on the connection    *)
(* and in the file.  A client (register_node of node_join.c, or a probe    *)
(* that sends a bandwidth test) and the server of node_join_server.c,      *)
(* which answers everything; either may be killed at any moment.           *)
(*                                                                         *)
(* TCP delivers bytes, in pieces of any size.  What is counted here are    *)
(* the size, the type and the lines of a message; the last line a recv     *)
(* gives may be cut.  Of a node the id, the count and the addresses are    *)
(* kept.  What to answer is any list.                                      *)
(***************************************************************************)
EXTENDS Integers, SequencesExt

CONSTANTS
    Addr,              \* the address strings of struct IP
    Lists,             \* what is written and sent: lists of nodes
    MaxBehind,         \* lines of an earlier message the stack still holds
    MaxConnections, MaxDeaths

\* Numbers and addresses cut short, and memory that nobody wrote.
NoNumber == 0
NoAddress == ""

ASSUME TransferAssumption ==
    /\ Lists \subseteq Seq([id : Nat \ {NoNumber}, node_count : Nat \ {NoNumber},
                            ip_list : Seq(Addr) \ {<<>>}])
    /\ MaxBehind \in Nat /\ MaxConnections \in Nat /\ MaxDeaths \in Nat

Side == {"client", "server"}
Other(s) == IF s = "client" THEN "server" ELSE "client"

VARIABLES
    pc,            \* of the client and of the server's thread
    wire,          \* what was sent to a side and it has not received
    ended,         \* whether the peer's end is "open", "closed" or "reset"
    frame,         \* what recv_msg's part of the stack holds: size, type
    buf,           \* lines of the last message, as recv_msg handed it over
    how,           \* how it came: "whole", "short" or "mixed"
    out,           \* the message a side sends
    file,          \* lines of the client's node_info.txt
    connections, deaths,
    sent,          \* history: the nodes that the message to a side was made of
    written, torn  \* history: the nodes the file was written from; was it cut

vars == <<pc, wire, ended, frame, buf, how, out, file, connections, deaths, sent,
          written, torn>>

-----------------------------------------------------------------------------
\* The text.

\* A slip: the start of the addresses is not marked.
NodeLinesUnmarked(n) ==
    <<<<"id", n.id>>, <<"node_count", n.node_count>>>>
    \o FlattenSeq([i \in DOMAIN n.ip_list |-> <<<<"ip", n.ip_list[i]>>, <<"validity", 0>>>>])
    \o <<<<"ip_list_ends", 0>>, <<"end_node", 0>>>>

\* A node's lines; NODE, reliable, ip_type and s_count are left out.
NodeLines(n) ==
    <<<<"id", n.id>>, <<"node_count", n.node_count>>, <<"ip_list", 0>>>>
    \o FlattenSeq([i \in DOMAIN n.ip_list |-> <<<<"ip", n.ip_list[i]>>, <<"validity", 0>>>>])
    \o <<<<"ip_list_ends", 0>>, <<"end_node", 0>>>>

Encode == [nodes \in Lists |-> FlattenSeq([i \in DOMAIN nodes |-> NodeLines(nodes[i])])]

Junk == <<"junk", 0>>      \* a line no parser knows
Nul  == <<"nul", 0>>       \* the byte register_node sends behind the last line

\* What may be left of a line: its beginning, with less of its value, or too
\* little to be known.  The end of a list's addresses then looks like the start.
CutLines(line) ==
    {Junk} \cup CASE line[1] \in {"id", "node_count"} -> {<<line[1], NoNumber>>}
                  [] line[1] = "ip"                   -> {<<"ip", NoAddress>>}
                  [] line[1] = "ip_list_ends"         -> {<<"ip_list", 0>>}
                  [] line[1] = "end_node"             -> {line}
                  [] OTHER                            -> {}

\* The first k lines, and perhaps a part of the next.
CutAfter(lines, k) ==
    {SubSeq(lines, 1, k)}
        \cup {Append(SubSeq(lines, 1, k), c) : c \in CutLines(lines[k + 1])}

Cuts(lines) == UNION {CutAfter(lines, k) : k \in 0 .. Len(lines) - 1}

Text == Addr \cup {NoAddress}

\* The parsers' local variables.  header is ip_header: "none" before any list,
\* when it is NULL and so is ip_new; "cell" while the cell under construction,
\* ip_new, is behind it; "last" when ip_list_ends has cut that cell off; "past",
\* NULL again, once it has run off the list.
Parser ==
    [nodes : Seq([id : Nat, node_count : Nat, ip_list : Seq(Text)]),
     id : Nat, node_count : Nat, begun : BOOLEAN, full : Seq(Text), ip_new : Text,
     header : {"none", "cell", "last", "past"}, crashed : BOOLEAN]

Unparsed ==
    [nodes |-> <<>>, id |-> NoNumber, node_count |-> NoNumber, begun |-> FALSE,
     full |-> <<>>, ip_new |-> NoAddress, header |-> "none", crashed |-> FALSE]

\* The list that node_new->ip_list starts.
ListAt(s) ==
    IF ~s.begun THEN <<>>
    ELSE IF s.header = "cell" \/ s.full = <<>> THEN Append(s.full, s.ip_new)
    ELSE s.full

\* Whether a line goes to a cell there is none of.
FollowsNull(s, line) ==
    \/ line[1] = "ip" /\ s.header = "none"
    \/ line[1] \in {"validity", "ip_list_ends"} /\ s.header \in {"none", "past"}

\* One turn of the loop of either parser.
ParseLine(s, line) ==
    IF s.crashed \/ FollowsNull(s, line) THEN [s EXCEPT !.crashed = TRUE]
    ELSE CASE line[1] = "id"         -> [s EXCEPT !.id = line[2]]
           [] line[1] = "node_count" -> [s EXCEPT !.node_count = line[2]]
           [] line[1] = "ip_list"    ->
                 [s EXCEPT !.begun = TRUE, !.full = <<>>, !.ip_new = NoAddress,
                           !.header = "cell"]
           [] line[1] = "ip"         -> [s EXCEPT !.ip_new = line[2]]
           [] line[1] = "validity"   ->
                 IF s.header = "last" THEN [s EXCEPT !.header = "past"]
                 ELSE [s EXCEPT !.full = Append(@, s.ip_new), !.ip_new = NoAddress]
           [] line[1] = "ip_list_ends" -> [s EXCEPT !.header = "last"]
           [] line[1] = "end_node"   ->
                 [s EXCEPT !.nodes = Append(@, [id |-> s.id, node_count |-> s.node_count,
                                                ip_list |-> ListAt(s)]),
                           !.id = NoNumber, !.node_count = NoNumber, !.begun = FALSE]
           [] line[1] \in {"junk", "nul"} -> s

Parse(lines) ==
    LET turn(i) == [s \in Parser |-> ParseLine(s, lines[i])]
        after[i \in 0 .. Len(lines)] == IF i = 0 THEN Unparsed ELSE turn(i)[after[i - 1]]
    IN  after[Len(lines)]

\* A slip: the node under construction is returned, too.
DecodeAll(lines) ==
    LET s == Parse(lines)
    IN  Append(s.nodes, [id |-> s.id, node_count |-> s.node_count, ip_list |-> ListAt(s)])

\* The nodes a parser returns: those whose end it saw.
Decode(lines) == Parse(lines).nodes

-----------------------------------------------------------------------------
\* The connection.

Blank == [size |-> 0, type |-> "none"]

NoMessage == [size |-> 0, type |-> "none", body |-> <<>>]

Init ==
    /\ pc = [client |-> "off", server |-> "accept"]
    /\ wire = [s \in Side |-> <<>>] /\ ended = [s \in Side |-> "closed"]
    /\ frame = [s \in Side |-> Blank]
    /\ buf = [s \in Side |-> <<>>] /\ how = [s \in Side |-> "whole"]
    /\ out = [s \in Side |-> NoMessage]
    /\ written \in Lists /\ file = Encode[written] /\ torn = FALSE
    /\ sent = [s \in Side |-> <<>>]
    /\ connections = 0 /\ deaths = 0

Goto(s, label) == pc' = [pc EXCEPT ![s] = label]

fileVars == <<file, written, torn>>
counters == <<connections, deaths>>

\* A slip: the NUL is not counted.
ConnectUncounted ==
    /\ pc["client"] = "off" /\ pc["server"] = "accept" /\ connections < MaxConnections
    /\ connections' = connections + 1
    /\ out' = [out EXCEPT !["client"] =
                 [size |-> Len(file), type |-> "Register", body |-> Append(file, Nul)]]
    /\ sent' = [sent EXCEPT !["server"] = written]
    /\ wire' = [s \in Side |-> <<>>] /\ ended' = [s \in Side |-> "open"]
    /\ frame' = [frame EXCEPT !["client"] = Blank]
    /\ pc' = [client |-> "send size", server |-> "size"]
    /\ UNCHANGED <<buf, how, fileVars, deaths>>

\* The message is not used any more.
Forget(s) == buf' = [buf EXCEPT ![s] = <<>>] /\ how' = [how EXCEPT ![s] = "whole"]

\* read_file_to_buf counts a NUL behind the text.
Connect ==
    /\ pc["client"] = "off" /\ pc["server"] = "accept" /\ connections < MaxConnections
    /\ connections' = connections + 1
    /\ \/ /\ out' = [out EXCEPT !["client"] =
                       [size |-> Len(file) + 1, type |-> "Register", body |-> Append(file, Nul)]]
          /\ sent' = [sent EXCEPT !["server"] = written]
       \/ /\ out' = [out EXCEPT !["client"] =
                       [size |-> 1, type |-> "width_test", body |-> <<Junk>>]]
          /\ sent' = [sent EXCEPT !["server"] = <<>>]
    /\ wire' = [s \in Side |-> <<>>] /\ ended' = [s \in Side |-> "open"]
    /\ frame' = [frame EXCEPT !["client"] = Blank]
    /\ pc' = [client |-> "send size", server |-> "size"]
    /\ UNCHANGED <<buf, how, fileVars, deaths>>

\* What one call of send leaves with the peer: nothing when the peer is gone,
\* which the first call does not notice.
Put(s, units) ==
    wire' = IF ended[s] = "open" THEN [wire EXCEPT ![Other(s)] = @ \o units] ELSE wire

\* send_msg_over_socket and send_file_over_socket: three calls.
Send(s) ==
    /\ ended[s] # "reset"
    /\ \/ /\ pc[s] = "send size" /\ Put(s, <<<<"size", out[s].size>>>>)
          /\ Goto(s, "send type")
       \/ /\ pc[s] = "send type" /\ Put(s, <<<<"type", out[s].type>>>>)
          /\ Goto(s, "send body")
       \/ /\ pc[s] = "send body" /\ Put(s, out[s].body)
          /\ Goto(s, IF s = "client" THEN "size" ELSE "accept")
    /\ UNCHANGED <<ended, frame, buf, how, out, fileVars, counters, sent>>

\* recv returns the size or the type, or 0 when the peer is gone: then the
\* stack keeps what it held.
RecvSize(s) ==
    /\ pc[s] = "size"
    /\ \/ /\ wire[s] # <<>>
          /\ frame' = [frame EXCEPT ![s].size = Head(wire[s])[2]]
          /\ wire' = [wire EXCEPT ![s] = Tail(@)]
       \/ /\ wire[s] = <<>> /\ ended[s] = "closed"
          /\ UNCHANGED <<frame, wire>>
    /\ Goto(s, "type")
    /\ UNCHANGED <<ended, buf, how, out, fileVars, counters, sent>>

RecvType(s) ==
    /\ pc[s] = "type"
    /\ \/ /\ wire[s] # <<>>
          /\ frame' = [frame EXCEPT ![s].type = Head(wire[s])[2]]
          /\ wire' = [wire EXCEPT ![s] = Tail(@)]
       \/ /\ wire[s] = <<>> /\ ended[s] = "closed"
          /\ UNCHANGED <<frame, wire>>
    /\ Goto(s, IF frame'[s].type = "width_test" THEN "file" ELSE "body")
    /\ UNCHANGED <<ended, buf, how, out, fileVars, counters, sent>>

\* What lies behind a short message in tempbuf: no line, or the end of an earlier
\* one, if the thread has had any.  The client is a new process each time.
Endings == {e \in UNION {Suffixes(Encode[l]) : l \in Lists} : Len(e) <= MaxBehind}

Behind(s) == IF s = "server" /\ connections > 1 THEN Endings ELSE {<<>>}

\* As much as recv is asked for.
Offered(s) == SubSeq(wire[s], 1, Min({frame[s].size, Len(wire[s])}))

\* One recv for the whole body; what it leaves on the connection nobody reads.
RecvBody(s) ==
    /\ pc[s] = "body"
    /\ \/ /\ wire[s] # <<>>
          /\ buf' = [buf EXCEPT ![s] = Offered(s)] /\ how' = [how EXCEPT ![s] = "whole"]
       \/ /\ wire[s] # <<>> \/ ended[s] = "closed"
          /\ \E first \in IF wire[s] = <<>> THEN {<<>>} ELSE Cuts(Offered(s)) \ {<<>>},
                rest \in Behind(s) :
               /\ buf' = [buf EXCEPT ![s] = first \o rest]
               /\ how' = [how EXCEPT ![s] = IF rest = <<>> THEN "short" ELSE "mixed"]
    /\ wire' = [wire EXCEPT ![s] = <<>>]
    /\ Goto(s, "handle")
    /\ UNCHANGED <<ended, frame, out, fileVars, counters, sent>>

\* recv_file_over_socket: the message becomes a width_test_return.
RecvFile(s) ==
    /\ pc[s] = "file" /\ (wire[s] # <<>> \/ ended[s] = "closed")
    /\ buf' = [buf EXCEPT ![s] = <<Junk>>]
    /\ how' = [how EXCEPT ![s] = IF wire[s] = <<>> THEN "short" ELSE "whole"]
    /\ wire' = [wire EXCEPT ![s] = <<>>]
    /\ Goto(s, "handle")
    /\ UNCHANGED <<ended, frame, out, fileVars, counters, sent>>

\* recv or send fails: the server goes on with the next connection, the client
\* exits.  (A server that sends on a reset connection dies of SIGPIPE.)
Fails(s) ==
    /\ ended[s] = "reset" /\ pc[s] \in {"size", "type", "body", "file"}
    /\ pc' = [pc EXCEPT ![s] = IF s = "client" THEN "off" ELSE "accept"]
    /\ ended' = [ended EXCEPT ![Other(s)] = "closed"]
    /\ UNCHANGED <<wire, frame, buf, how, out, fileVars, counters, sent>>

-----------------------------------------------------------------------------
\* The two programs around it.

\* A slip, and what server.c does: a bandwidth test gets no answer.
HandleRegister ==
    /\ pc["server"] = "handle" /\ ~Parse(buf["server"]).crashed
    /\ \E l \in Lists :
        /\ out' = [out EXCEPT !["server"] =
                     [size |-> Len(Encode[l]), type |-> "R_Register", body |-> Encode[l]]]
        /\ sent' = [sent EXCEPT !["client"] = l]
    /\ Goto("server", IF frame["server"].type = "Register" THEN "send size" ELSE "accept")
    /\ Forget("server")
    /\ UNCHANGED <<wire, ended, frame, fileVars, counters>>

\* The server parses the message, and answers with a list; what it puts into it
\* is Server's and Join's matter.
Handle ==
    /\ pc["server"] = "handle" /\ ~Parse(buf["server"]).crashed
    /\ \E l \in Lists :
        /\ out' = [out EXCEPT !["server"] =
                     [size |-> Len(Encode[l]), type |-> "R_Register", body |-> Encode[l]]]
        /\ sent' = [sent EXCEPT !["client"] = l]
    /\ Forget("server")
    /\ Goto("server", "send size")
    /\ UNCHANGED <<wire, ended, frame, fileVars, counters>>

\* write_buf_to_file, with all but the last byte of the answer, which ends a
\* line.  What recv left out is filled up with what the stack held.
OpenFile ==
    /\ pc["client"] = "handle" /\ out["client"].type = "Register"
    /\ file' = <<>> /\ written' = sent["client"] /\ torn' = TRUE
    /\ Goto("client", "write")
    /\ UNCHANGED <<wire, ended, frame, buf, how, out, counters, sent>>

\* A slip: a line less.
WriteFileShort ==
    /\ pc["client"] = "write"
    /\ file' = IF buf["client"] = <<>> THEN <<>> ELSE Front(buf["client"])
    /\ torn' = (how["client"] # "whole")
    /\ UNCHANGED written
    /\ Goto("client", "off")
    /\ ended' = [ended EXCEPT !["server"] = "closed"]
    /\ Forget("client")
    /\ UNCHANGED <<wire, frame, out, counters, sent>>

WriteFile ==
    /\ pc["client"] = "write"
    /\ file' = buf["client"] /\ torn' = (how["client"] # "whole")
    /\ UNCHANGED written
    /\ Goto("client", "off")
    /\ ended' = [ended EXCEPT !["server"] = "closed"]
    /\ Forget("client")
    /\ UNCHANGED <<wire, frame, out, counters, sent>>

\* The probe has its answer.
EndProbe ==
    /\ pc["client"] = "handle" /\ out["client"].type = "width_test"
    /\ Goto("client", "off")
    /\ ended' = [ended EXCEPT !["server"] = "closed"]
    /\ Forget("client")
    /\ UNCHANGED <<wire, frame, out, fileVars, counters, sent>>

\* A process is killed, or crashes: its peer finds the connection closed, or
\* reset; the file is cut if it was being written.
Kill(s) ==
    /\ pc[s] \notin {"off", "dead"} /\ deaths < MaxDeaths
    /\ deaths' = deaths + 1
    /\ Goto(s, IF s = "client" THEN "off" ELSE "dead")
    /\ \/ ended' = [ended EXCEPT ![Other(s)] = "closed"] /\ UNCHANGED wire
       \/ ended' = [ended EXCEPT ![Other(s)] = "reset"]
          /\ wire' = [wire EXCEPT ![Other(s)] = <<>>]
    /\ file' \in IF s = "client" /\ pc[s] = "write" THEN Cuts(buf[s]) ELSE {file}
    /\ Forget(s)
    /\ UNCHANGED <<frame, out, written, torn, connections, sent>>

\* The peer's death ends a process that sends, and what the parser meets may
\* end the server.
Dies(s) ==
    /\ \/ ended[s] # "open" /\ pc[s] \in {"send size", "send type", "send body"}
       \/ s = "server" /\ pc[s] = "handle" /\ Parse(buf[s]).crashed
    /\ Goto(s, IF s = "client" THEN "off" ELSE "dead")
    /\ ended' = [ended EXCEPT ![Other(s)] = "closed"]
    /\ Forget(s)
    /\ UNCHANGED <<wire, frame, out, fileVars, counters, sent>>

\* The server is started again, with a new stack.
Boot ==
    /\ pc["server"] = "dead"
    /\ Goto("server", "accept")
    /\ frame' = [frame EXCEPT !["server"] = Blank]
    /\ UNCHANGED <<wire, ended, buf, how, out, fileVars, counters, sent>>

Step(s) == Send(s) \/ RecvSize(s) \/ RecvType(s) \/ RecvBody(s) \/ RecvFile(s)
               \/ Fails(s) \/ Dies(s)

ServerStep == Step("server") \/ Handle
ClientStep == Step("client") \/ OpenFile \/ WriteFile \/ EndProbe

Next ==
    \/ Connect \/ ClientStep \/ ServerStep \/ Boot
    \/ \E s \in Side : Kill(s)

Spec == Init /\ [][Next]_vars

\* Both programs run on; users and operators owe nothing.
FairSpec == Spec /\ WF_vars(ClientStep) /\ WF_vars(ServerStep)

-----------------------------------------------------------------------------
(* Properties *)

Receiving == {"size", "type", "body", "file"}

Labels == Receiving \cup {"off", "accept", "dead", "handle", "write", "send size",
                          "send type", "send body"}

Line == {"id", "node_count", "ip_list", "ip", "validity", "ip_list_ends", "end_node",
         "junk", "nul"}

\* Every variable stays in its type; the size a message announces is that of
\* what follows.
TypeOK ==
    /\ \A s \in Side :
        /\ pc[s] \in Labels
        /\ ended[s] \in {"open", "closed", "reset"}
        /\ how[s] \in {"whole", "short", "mixed"}
        /\ out[s].size = Len(out[s].body)
        /\ frame[s].size \in Nat
        /\ \A i \in DOMAIN buf[s] : buf[s][i][1] \in Line
    /\ \A i \in DOMAIN file : file[i][1] \in Line
    /\ torn \in BOOLEAN

\* What a recv_msg hands over is parsed to the nodes that were sent; to the
\* first of them if the message came short; never to a half of one.  (Not if the
\* stack held something of an earlier message behind a short one.)
NothingHalf ==
    \A s \in Side : pc[s] = "handle" /\ how[s] # "mixed" =>
        /\ IsPrefix(Decode(buf[s]), sent[s])
        /\ how[s] = "whole" /\ ~(s = "server" /\ torn) => Decode(buf[s]) = sent[s]

\* Wherever the client was killed, the file holds whole nodes, the first ones of
\* the answer it was written from: all of them if it was not cut.
FileHoldsWholeNodes ==
    /\ IsPrefix(Decode(file), written)
    /\ ~torn => Decode(file) = written

\* A parser dies of a message only if it came short behind another one.
ParserSurvives ==
    \A s \in Side : how[s] # "mixed" => ~Parse(buf[s]).crashed

Waits(s) == pc[s] \in Receiving /\ wire[s] = <<>> /\ ended[s] = "open"

\* Whoever waits in recv has a peer that is at work on its message and does not
\* wait itself: the two never wait for each other, and nobody for a peer that has
\* turned to something else.
NobodyWaitsInVain ==
    \A s \in Side : Waits(s) =>
        pc[Other(s)] \notin {"off", "accept", "dead"} /\ ~Waits(Other(s))

\* Nobody waits for a message for good: it comes, in pieces or whole, or its
\* sender is gone, which recv takes for an empty one.
RecvReturns == \A s \in Side : pc[s] \in Receiving ~> pc[s] \notin Receiving
=============================================================================
