------------------------------- MODULE Punch -------------------------------
(***************************************************************************)
(* PunchTest: udp_client.c and udp_server.c over UDP.                      *)
(*                                                                         *)
(* A client of type 2 sweeps the ports of its peer's address until a       *)
(* datagram with the text it waits for arrives, then stops and sends       *)
(* heartbeats.  A client of type 1 keeps calling a server.  The server     *)
(* answers whoever sends.  A client's threads share threadflag, heartbeat  *)
(* and si_other, the sender of the last datagram, without a lock.          *)
(*                                                                         *)
(* The network loses, reorders and (MaxCopies times) duplicates datagrams, *)
(* strangers send some and users start clients again (MaxTroubles times in *)
(* all).  A datagram for a port nobody holds, or for a stranger, vanishes. *)
(* Strings are sequences; a sender puts WIRE of their characters on the    *)
(* wire and strcmp sees those.  The printing thread count_time is left out.*)
(***************************************************************************)
EXTENDS Integers, Sequences

CONSTANTS
    Client, Server, Stranger,   \* hosts
    type, SRV_IP, send_string, recv_string,     \* argv of each client
    Party,        \* sets of clients that users start, one of them in a behaviour
    Listen_PORT, respond_string,                \* argv of each server
    PORT,         \* 65535
    NatPort,      \* the ports its NAT may give each client
    FixedPort,    \* 9930
    WIRE,         \* 6, the length of every datagram
    Reachable,    \* clients that datagrams of strangers reach
    Noise,        \* what strangers send
    Restartable,  \* clients that users start again
    MaxTroubles, MaxCopies

Host == Client \cup Server \cup Stranger

Address == [host : Host, port : 0 .. PORT]

ASSUME PunchAssumption ==
    /\ Client \cap Server = {} /\ Stranger \cap (Client \cup Server) = {}
    /\ PORT \in Nat /\ FixedPort \in 1 .. PORT /\ WIRE \in Nat
    /\ NatPort \in [Client -> SUBSET (1 .. PORT)]
    /\ type \in [Client -> {1, 2}]
    /\ SRV_IP \in [Client -> Client \cup Server]
    /\ Listen_PORT \in [Server -> 1 .. PORT]
    /\ Party \subseteq SUBSET Client
    /\ Reachable \subseteq Client /\ Restartable \subseteq Client
    /\ \A c \in Client : type[c] = 1 => recv_string[c] = <<>>   \* never set
    /\ MaxTroubles \in Nat /\ MaxCopies \in Nat

VARIABLES
    net,                   \* datagrams on their way
    port,                  \* the port each client's socket has at its NAT
    test_port, cnt,        \* test_other.sin_port; the sweep's counter
    punch, rx,             \* where thread_punching, thread_receive_pack are
    threadflag, heartbeat, si_other,
    troubles, copies,      \* how often strangers and users, and the network, acted
    late                   \* history: datagrams punched with threadflag set

threads == <<test_port, cnt, punch, rx, threadflag, heartbeat, si_other, late>>
budget  == <<troubles, copies>>
vars    == <<net, port, threads, budget>>

AddressOf(h) ==
    [host |-> h, port |-> CASE h \in Client -> port[h]
                            [] h \in Server -> Listen_PORT[h]
                            [] OTHER        -> 0]

\* What is left of a string after sendto(..., 6, ...) and strcmp.
Cut(string) == SubSeq(string, 1, IF Len(string) < WIRE THEN Len(string) ELSE WIRE)

Send(from, to, string) ==
    net' = IF to.host \notin Stranger /\ to = AddressOf(to.host)
           THEN net \cup {[src |-> AddressOf(from), dst |-> to, text |-> Cut(string)]}
           ELSE net

-----------------------------------------------------------------------------
Running(c) == punch[c] # "off"

\* main and init_program of the clients of one party; the others stay off.
Init ==
    /\ net = {}
    /\ port \in [Client -> 1 .. PORT] /\ \A c \in Client : port[c] \in NatPort[c]
    /\ \E party \in Party :
        /\ punch = [c \in Client |-> IF c \in party THEN "sleep" ELSE "off"]
        /\ rx = [c \in Client |-> IF c \in party THEN "recv" ELSE "off"]
    /\ test_port = [c \in Client |-> PORT]
    /\ cnt = [c \in Client |-> 0]
    /\ threadflag = [c \in Client |-> 0]
    /\ heartbeat = [c \in Client |-> 0]
    /\ si_other = [c \in Client |-> [host |-> SRV_IP[c], port |-> PORT]]
    /\ troubles = 0 /\ copies = 0
    /\ late = [c \in Client |-> 0]

\* The user starts client c again; its NAT may give it another port.
Restart(c) ==
    /\ c \in Restartable /\ Running(c)
    /\ troubles < MaxTroubles /\ troubles' = troubles + 1
    /\ \E p \in NatPort[c] :
        /\ port' = [port EXCEPT ![c] = p]
        /\ net' = {d \in net : d.dst.host = c => d.dst.port = p}
    /\ test_port' = [test_port EXCEPT ![c] = PORT]
    /\ cnt' = [cnt EXCEPT ![c] = 0]
    /\ punch' = [punch EXCEPT ![c] = "sleep"]
    /\ rx' = [rx EXCEPT ![c] = "recv"]
    /\ threadflag' = [threadflag EXCEPT ![c] = 0]
    /\ heartbeat' = [heartbeat EXCEPT ![c] = 0]
    /\ si_other' = [si_other EXCEPT ![c] = [host |-> SRV_IP[c], port |-> PORT]]
    /\ late' = [late EXCEPT ![c] = 0]
    /\ UNCHANGED copies

-----------------------------------------------------------------------------
\* thread_punching.

\* Slips: the sweep wraps around one port early, one port late.
NextCountEarly(n) == (n + 1) % (PORT - 1)
NextCountLate(n)  == (n + 1) % (PORT + 1)

\* cnt = (cnt + 1) % 65535
NextCount(n) == (n + 1) % PORT

\* sendto, then the port of the next datagram.
Punch(c) ==
    /\ punch[c] = "sleep"
    /\ Send(c, [host |-> SRV_IP[c], port |-> test_port[c]], send_string[c])
    /\ IF type[c] = 1
       THEN test_port' = [test_port EXCEPT ![c] = FixedPort] /\ UNCHANGED cnt
       ELSE /\ test_port' = [test_port EXCEPT ![c] = PORT - cnt[c]]
            /\ cnt' = [cnt EXCEPT ![c] = NextCount(@)]
    /\ punch' = [punch EXCEPT ![c] = "check"]
    /\ late' = [late EXCEPT ![c] = IF threadflag[c] = 1 /\ @ < 2 THEN @ + 1 ELSE @]
    /\ UNCHANGED <<port, rx, threadflag, heartbeat, si_other, budget>>

\* A slip: heartbeat is looked at, which is set last.
CheckFlagOfHeartbeat(c) ==
    /\ punch[c] = "check"
    /\ punch' = [punch EXCEPT ![c] = IF heartbeat[c] = 1 THEN "exited" ELSE "sleep"]
    /\ UNCHANGED <<net, port, test_port, cnt, rx, threadflag, heartbeat, si_other,
                   budget, late>>

\* The loop ends once a datagram was accepted.
CheckFlag(c) ==
    /\ punch[c] = "check"
    /\ punch' = [punch EXCEPT ![c] = IF threadflag[c] = 1 THEN "exited" ELSE "sleep"]
    /\ UNCHANGED <<net, port, test_port, cnt, rx, threadflag, heartbeat, si_other,
                   budget, late>>

-----------------------------------------------------------------------------
\* thread_receive_pack and thread_heartbeat.

\* The datagram d leaves the network, or a copy of it stays.
Take(d) ==
    \/ net' = net \ {d} /\ UNCHANGED copies
    \/ copies < MaxCopies /\ copies' = copies + 1 /\ UNCHANGED net

\* A slip: the receiver's own address is noted.
ReceiveOwnAddress(c, h) ==
    /\ rx[c] = "recv"
    /\ \E d \in net :
        /\ d.dst = AddressOf(c) /\ d.src.host = h
        /\ Take(d)
        /\ si_other' = [si_other EXCEPT ![c] = d.dst]
        /\ rx' = [rx EXCEPT ![c] = IF d.text = recv_string[c] THEN "accept" ELSE "recv"]
    /\ UNCHANGED <<port, test_port, cnt, punch, threadflag, heartbeat, troubles, late>>

\* A slip: the sender is noted only until a datagram was accepted.
ReceiveKeepsFirst(c, h) ==
    /\ rx[c] = "recv"
    /\ \E d \in net :
        /\ d.dst = AddressOf(c) /\ d.src.host = h
        /\ Take(d)
        /\ si_other' = [si_other EXCEPT ![c] = IF threadflag[c] = 1 THEN @ ELSE d.src]
        /\ rx' = [rx EXCEPT ![c] = IF d.text = recv_string[c] THEN "accept" ELSE "recv"]
    /\ UNCHANGED <<port, test_port, cnt, punch, threadflag, heartbeat, troubles, late>>

\* recvfrom writes si_other before the text is looked at.
Receive(c, h) ==
    /\ rx[c] = "recv"
    /\ \E d \in net :
        /\ d.dst = AddressOf(c) /\ d.src.host = h
        /\ Take(d)
        /\ si_other' = [si_other EXCEPT ![c] = d.src]
        /\ rx' = [rx EXCEPT ![c] = IF d.text = recv_string[c] THEN "accept" ELSE "recv"]
    /\ UNCHANGED <<port, test_port, cnt, punch, threadflag, heartbeat, troubles, late>>

SetThreadflag(c) ==
    /\ rx[c] = "accept"
    /\ threadflag' = [threadflag EXCEPT ![c] = 1]
    /\ rx' = [rx EXCEPT ![c] = "accepted"]
    /\ UNCHANGED <<net, port, test_port, cnt, punch, heartbeat, si_other, budget,
                   late>>

SetHeartbeat(c) ==
    /\ rx[c] = "accepted"
    /\ heartbeat' = [heartbeat EXCEPT ![c] = 1]
    /\ rx' = [rx EXCEPT ![c] = "recv"]
    /\ UNCHANGED <<net, port, test_port, cnt, punch, threadflag, si_other, budget,
                   late>>

\* To the sender of the last datagram, whoever that was.
Beat(c) ==
    /\ heartbeat[c] = 1
    /\ Send(c, si_other[c], send_string[c])
    /\ UNCHANGED <<port, threads, budget>>

-----------------------------------------------------------------------------
\* A slip: the answer goes to the port the server listens at.
ServeToOwnPort(s, h) ==
    /\ \E d \in net :
        /\ d.dst = AddressOf(s) /\ d.src.host = h
        /\ net' = (net \ {d}) \cup
                    {[src |-> d.dst, dst |-> [d.src EXCEPT !.port = d.dst.port],
                      text |-> Cut(respond_string[s])]}
    /\ UNCHANGED <<port, threads, budget>>

\* udp_server's thread_receive_pack: its threadflag is never set.
Serve(s, h) ==
    /\ \E d \in net :
        /\ d.dst = AddressOf(s) /\ d.src.host = h
        /\ net' = (net \ {d}) \cup
                    (IF d.src = AddressOf(h)
                     THEN {[src |-> d.dst, dst |-> d.src, text |-> Cut(respond_string[s])]}
                     ELSE {})
    /\ UNCHANGED <<port, threads, budget>>

-----------------------------------------------------------------------------
Lose ==
    /\ \E d \in net : net' = net \ {d}
    /\ UNCHANGED <<port, threads, budget>>

Disturb(x, c) ==
    /\ Running(c)
    /\ troubles < MaxTroubles /\ troubles' = troubles + 1
    /\ Send(x, AddressOf(c), Noise)
    /\ UNCHANGED <<port, threads, copies>>

Punching(c)  == Punch(c) \/ CheckFlag(c)
Accepting(c) == SetThreadflag(c) \/ SetHeartbeat(c)

Next ==
    \/ \E c \in Client : Punching(c) \/ Accepting(c) \/ Beat(c) \/ Restart(c)
    \/ \E c \in Client, h \in Host : Receive(c, h)
    \/ \E s \in Server, h \in Client : Serve(s, h)
    \/ \E x \in Stranger, c \in Reachable : Disturb(x, c)
    \/ Lose

Spec == Init /\ [][Next]_vars

Sweeper == {c \in Client : type[c] = 2}
Caller  == {c \in Client : SRV_IP[c] \in Server}

\* Every thread is scheduled, and a host that keeps sending to whom it was told to
\* call, or to whom it answers, is heard there in the end.  A client of type 1
\* accepts nothing and sends no heartbeats.
FairSpec ==
    /\ Spec
    /\ \A c \in Client : WF_vars(Punching(c)) /\ SF_vars(Receive(c, SRV_IP[c]))
    /\ \A c \in Sweeper : WF_vars(Accepting(c)) /\ WF_vars(Beat(c))
    /\ \A c \in Caller : SF_vars(Serve(SRV_IP[c], c))

-----------------------------------------------------------------------------
(* Properties *)

\* Every variable stays in its type; in particular the sweep never leaves the
\* ports 1 .. PORT.
TypeOK ==
    /\ \A d \in net : d.src \in Address /\ d.dst \in Address
    /\ port \in [Client -> 1 .. PORT]
    /\ test_port \in [Client -> 1 .. PORT]
    /\ cnt \in [Client -> 0 .. PORT - 1]
    /\ punch \in [Client -> {"off", "sleep", "check", "exited"}]
    /\ rx \in [Client -> {"off", "recv", "accept", "accepted"}]
    /\ threadflag \in [Client -> {0, 1}] /\ heartbeat \in [Client -> {0, 1}]
    /\ si_other \in [Client -> Address]
    /\ troubles \in 0 .. MaxTroubles /\ copies \in 0 .. MaxCopies
    /\ late \in [Client -> 0 .. 2]

\* Once a datagram was accepted at most one more is punched, however the
\* receiving thread's two assignments meet the punching thread's check.
FewPunchesAfterSuccess == \A c \in Client : late[c] <= 1

\* A client that no stranger reaches, and whose peer and nobody else calls it,
\* only ever sends heartbeats to that peer's host.
HeartbeatsStayWithPeer ==
    \A c \in Client \ Reachable :
        (\A d \in Client \ {SRV_IP[c]} : SRV_IP[d] # c)
            => si_other[c].host = SRV_IP[c]

\* After the last restart every client that sweeps is accepted and stays so:
\* the sweep finds its peer's port, whatever is lost.
SweepersConnect ==
    <>[](\A c \in Sweeper : Running(c) => heartbeat[c] = 1)

\* And again and again they all send their heartbeats to their peers' ports at
\* once: a stranger who diverts one side is forgotten with the next heartbeat of
\* the other side, and a peer that was started again is followed to its new port.
LinkHeals ==
    []<>(\A c \in Sweeper : Running(c) => si_other[c] = AddressOf(SRV_IP[c]))

\* A client of type 1, started again or not, is answered by the server it was told
\* to call.
CallersAreAnswered ==
    []<>(\A c \in Client \ Sweeper : Running(c) => si_other[c] = AddressOf(SRV_IP[c]))
=============================================================================
