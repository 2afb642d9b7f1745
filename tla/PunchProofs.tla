----------------------------- MODULE PunchProofs -----------------------------
(***************************************************************************)
(* Invariance proofs for Punch, for any set of hosts and any range of      *)
(* ports.                                                                  *)
(***************************************************************************)
EXTENDS Punch, TLAPS

\* Two facts of arithmetic: the sweep stays among the ports.
LEMMA SweepRange ==
    ASSUME NEW n \in 0 .. PORT - 1
    PROVE  NextCount(n) \in 0 .. PORT - 1 /\ PORT - n \in 1 .. PORT
<1>1. PORT \in Nat /\ PORT > 0
  BY PunchAssumption
<1>2. n + 1 \in Nat
  BY <1>1
<1>3. (n + 1) % PORT \in 0 .. PORT - 1
  BY <1>1, <1>2
<1> QED
  BY <1>1, <1>3 DEF NextCount

LEMMA AddressType ==
    ASSUME TypeOK, NEW h \in Host
    PROVE  AddressOf(h) \in Address /\ AddressOf(h).host = h
<1> DEFINE p == CASE h \in Client -> port[h]
                  [] h \in Server -> Listen_PORT[h]
                  [] OTHER        -> 0
<1>1. p \in 0 .. PORT
  <2>1. CASE h \in Client
    <3>1. p = port[h]
      BY <2>1, PunchAssumption
    <3> QED
      BY <2>1, <3>1, PunchAssumption DEF TypeOK
  <2>2. CASE h \in Server /\ h \notin Client
    <3>1. p = Listen_PORT[h]
      BY <2>2
    <3> QED
      BY <2>2, <3>1, PunchAssumption
  <2>3. CASE h \notin Client /\ h \notin Server
    <3>1. p = 0
      BY <2>3
    <3> QED
      BY <3>1, PunchAssumption
  <2> QED
    BY <2>1, <2>2, <2>3
<1> HIDE DEF p
<1>2. AddressOf(h) = [host |-> h, port |-> p]
  BY DEF AddressOf, p
<1> QED
  BY <1>1, <1>2 DEF Address

Datagrams(n) == \A d \in n : d.src \in Address /\ d.dst \in Address

\* A new datagram has addresses, and comes from where it was sent.
LEMMA SendOK ==
    ASSUME TypeOK, NEW from \in Host, NEW to \in Address, NEW string,
           Send(from, to, string)
    PROVE  /\ Datagrams(net')
           /\ \A d \in net' : d \in net \/ (d.src.host = from /\ d.dst = to)
<1> DEFINE new == [src |-> AddressOf(from), dst |-> to, text |-> Cut(string)]
<1>1. net' = net \/ net' = net \cup {new}
  BY DEF Send
<1>2. new.src \in Address /\ new.src.host = from /\ new.dst = to
  BY AddressType
<1> HIDE DEF new
<1> QED
  BY <1>1, <1>2 DEF Datagrams, TypeOK

\* What the network may do with the datagrams it has.
LEMMA FewerOK ==
    ASSUME TypeOK, net' \subseteq net
    PROVE  Datagrams(net')
BY DEF TypeOK, Datagrams

\* An answer of a server.
LEMMA ServeOK ==
    ASSUME TypeOK, NEW s \in Server, NEW h \in Client, Serve(s, h)
    PROVE  /\ Datagrams(net')
           /\ \A d \in net' : d \in net \/ \E e \in net :
                 e.dst.host = s /\ d.src = e.dst /\ d.dst = e.src
<1>1. PICK e \in net :
        /\ e.dst = AddressOf(s) /\ e.src.host = h
        /\ net' = (net \ {e}) \cup
                    (IF e.src = AddressOf(h)
                     THEN {[src |-> e.dst, dst |-> e.src, text |-> Cut(respond_string[s])]}
                     ELSE {})
  BY DEF Serve
<1>2. e.dst.host = s
  BY <1>1, AddressType DEF Host
<1> DEFINE new == [src |-> e.dst, dst |-> e.src, text |-> Cut(respond_string[s])]
<1>3. new.src = e.dst /\ new.dst = e.src
  OBVIOUS
<1>4. \A d \in net' : d \in net \/ d = new
  BY <1>1
<1> HIDE DEF new
<1> QED
  BY <1>2, <1>3, <1>4 DEF TypeOK, Datagrams

-----------------------------------------------------------------------------
(* Type correctness *)

LEMMA TypeInit == Init => TypeOK
<1> SUFFICES ASSUME Init
             PROVE  TypeOK
  OBVIOUS
<1>1. PORT \in 1 .. PORT /\ 0 \in 0 .. PORT - 1 /\ PORT \in 0 .. PORT
  BY PunchAssumption
<1>2. \A c \in Client : [host |-> SRV_IP[c], port |-> PORT] \in Address
  BY <1>1, PunchAssumption DEF Address, Host
<1>3. troubles \in 0 .. MaxTroubles /\ copies \in 0 .. MaxCopies
  BY PunchAssumption DEF Init
<1> QED
  BY <1>1, <1>2, <1>3 DEF Init, TypeOK

LEMMA TypeStep == TypeOK /\ [Next]_vars => TypeOK'
<1> SUFFICES ASSUME TypeOK, [Next]_vars
             PROVE  TypeOK'
  OBVIOUS
<1>1. ASSUME NEW c \in Client, Punch(c)
      PROVE  TypeOK'
  <2>1. [host |-> SRV_IP[c], port |-> test_port[c]] \in Address
    <3>1. test_port[c] \in 0 .. PORT
      BY PunchAssumption DEF TypeOK
    <3> QED
      BY <3>1, PunchAssumption DEF Address, Host
  <2>2. Datagrams(net')
    BY <1>1, <2>1, SendOK DEF Punch, Host
  <2>3. test_port' \in [Client -> 1 .. PORT] /\ cnt' \in [Client -> 0 .. PORT - 1]
    <3>1. cnt[c] \in 0 .. PORT - 1
      BY DEF TypeOK
    <3>2. NextCount(cnt[c]) \in 0 .. PORT - 1 /\ PORT - cnt[c] \in 1 .. PORT
      BY <3>1, SweepRange
    <3>3. CASE type[c] = 1
      <4>1. test_port' = [test_port EXCEPT ![c] = FixedPort] /\ cnt' = cnt
        BY <1>1, <3>3 DEF Punch
      <4>2. FixedPort \in 1 .. PORT
        BY PunchAssumption
      <4> QED
        BY <4>1, <4>2 DEF TypeOK
    <3>4. CASE type[c] # 1
      <4>1. test_port' = [test_port EXCEPT ![c] = PORT - cnt[c]]
            /\ cnt' = [cnt EXCEPT ![c] = NextCount(cnt[c])]
        BY <1>1, <3>4 DEF Punch
      <4>2. test_port' \in [Client -> 1 .. PORT]
        BY <3>2, <4>1 DEF TypeOK
      <4>3. cnt' \in [Client -> 0 .. PORT - 1]
        BY <3>2, <4>1 DEF TypeOK
      <4> QED
        BY <4>2, <4>3
    <3> QED
      BY <3>3, <3>4
  <2>4. late' \in [Client -> 0 .. 2]
    <3>1. late[c] \in 0 .. 2
      BY DEF TypeOK
    <3>2. (IF threadflag[c] = 1 /\ late[c] < 2 THEN late[c] + 1 ELSE late[c]) \in 0 .. 2
      BY <3>1
    <3> QED
      BY <1>1, <3>2 DEF Punch, TypeOK
  <2>5. punch' \in [Client -> {"off", "sleep", "check", "exited"}]
    BY <1>1 DEF Punch, TypeOK
  <2> QED
    BY <1>1, <2>2, <2>3, <2>4, <2>5 DEF Punch, TypeOK, Datagrams, budget
<1>2. ASSUME NEW c \in Client, CheckFlag(c)
      PROVE  TypeOK'
  BY <1>2 DEF CheckFlag, TypeOK, budget
<1>3. ASSUME NEW c \in Client, SetThreadflag(c) \/ SetHeartbeat(c)
      PROVE  TypeOK'
  BY <1>3 DEF SetThreadflag, SetHeartbeat, TypeOK, budget
<1>4. ASSUME NEW c \in Client, Beat(c)
      PROVE  TypeOK'
  <2>1. si_other[c] \in Address
    BY DEF TypeOK
  <2>2. Datagrams(net')
    BY <1>4, <2>1, SendOK DEF Beat, Host
  <2> QED
    BY <1>4, <2>2 DEF Beat, TypeOK, Datagrams, threads, budget
<1>5. ASSUME NEW c \in Client, Restart(c)
      PROVE  TypeOK'
  <2>1. PORT \in 1 .. PORT /\ 0 \in 0 .. PORT - 1 /\ PORT \in 0 .. PORT
    BY PunchAssumption
  <2>2. [host |-> SRV_IP[c], port |-> PORT] \in Address
    BY <2>1, PunchAssumption DEF Address, Host
  <2>3. troubles' \in 0 .. MaxTroubles
    BY <1>5, PunchAssumption DEF Restart, TypeOK
  <2>4. port' \in [Client -> 1 .. PORT] /\ net' \subseteq net
    <3>1. PICK p \in NatPort[c] : /\ port' = [port EXCEPT ![c] = p]
                                 /\ net' = {d \in net : d.dst.host = c => d.dst.port = p}
      BY <1>5 DEF Restart
    <3>2. p \in 1 .. PORT
      BY PunchAssumption
    <3> QED
      BY <3>1, <3>2 DEF TypeOK
  <2>5. Datagrams(net')
    BY <2>4, FewerOK
  <2> QED
    BY <1>5, <2>1, <2>2, <2>3, <2>4, <2>5 DEF Restart, TypeOK, Datagrams
<1>6. ASSUME NEW c \in Client, NEW h \in Host, Receive(c, h)
      PROVE  TypeOK'
  <2>1. PICK d \in net : /\ Take(d)
                         /\ si_other' = [si_other EXCEPT ![c] = d.src]
                         /\ rx' = [rx EXCEPT ![c] = IF d.text = recv_string[c]
                                                    THEN "accept" ELSE "recv"]
    BY <1>6 DEF Receive
  <2>2. net' \subseteq net
    BY <2>1 DEF Take
  <2>3. copies' \in 0 .. MaxCopies
    BY <2>1, PunchAssumption DEF Take, TypeOK
  <2>4. si_other' \in [Client -> Address]
    BY <2>1 DEF TypeOK
  <2>5. Datagrams(net')
    BY <2>2, FewerOK
  <2>6. rx' \in [Client -> {"off", "recv", "accept", "accepted"}]
    BY <2>1 DEF TypeOK
  <2> QED
    BY <1>6, <2>3, <2>4, <2>5, <2>6 DEF Receive, TypeOK, Datagrams
<1>7. ASSUME NEW s \in Server, NEW h \in Client, Serve(s, h)
      PROVE  TypeOK'
  <2>1. Datagrams(net')
    BY <1>7, ServeOK
  <2> QED
    BY <1>7, <2>1 DEF Serve, TypeOK, Datagrams, threads, budget
<1>8. ASSUME NEW x \in Stranger, NEW c \in Reachable, Disturb(x, c)
      PROVE  TypeOK'
  <2>1. AddressOf(c) \in Address
    BY AddressType, PunchAssumption DEF Host
  <2>2. Datagrams(net')
    BY <1>8, <2>1, SendOK DEF Disturb, Host
  <2>3. troubles' \in 0 .. MaxTroubles
    BY <1>8, PunchAssumption DEF Disturb, TypeOK
  <2> QED
    BY <1>8, <2>2, <2>3 DEF Disturb, TypeOK, Datagrams, threads
<1>9. CASE Lose
  <2>1. net' \subseteq net
    BY <1>9 DEF Lose
  <2>2. Datagrams(net')
    BY <2>1, FewerOK
  <2> QED
    BY <1>9, <2>2 DEF Lose, TypeOK, Datagrams, threads, budget
<1>10. CASE UNCHANGED vars
  BY <1>10 DEF vars, threads, budget, TypeOK
<1> QED
  BY <1>1, <1>2, <1>3, <1>4, <1>5, <1>6, <1>7, <1>8, <1>9, <1>10 DEF Next, Punching, Accepting

\* Whatever the network does, every variable stays in its type and the sweep
\* among the ports 1 .. PORT.
THEOREM TypeCorrect == Spec => []TypeOK
BY TypeInit, TypeStep, PTL DEF Spec

-----------------------------------------------------------------------------
(* The end of the sweep *)

\* A datagram is late only while the flag is set, and the check after it ends
\* the sweep.
LateInv ==
    \A c \in Client :
        /\ threadflag[c] = 0 => late[c] = 0
        /\ late[c] <= 1
        /\ late[c] = 1 => punch[c] \in {"check", "exited"}

LEMMA LateInit == Init => LateInv
<1> SUFFICES ASSUME Init
             PROVE  LateInv
  OBVIOUS
<1>1. \A c \in Client : late[c] = 0
  BY DEF Init
<1>2. 0 <= 1 /\ 0 # 1
  OBVIOUS
<1> QED
  BY <1>1, <1>2 DEF LateInv

LEMMA LateStep == TypeOK /\ LateInv /\ [Next]_vars => LateInv'
<1> SUFFICES ASSUME TypeOK, LateInv, [Next]_vars
             PROVE  LateInv'
  OBVIOUS
<1>1. ASSUME NEW c \in Client, Punch(c)
      PROVE  LateInv'
  <2> SUFFICES ASSUME NEW e \in Client
               PROVE  /\ threadflag'[e] = 0 => late'[e] = 0
                      /\ late'[e] <= 1
                      /\ late'[e] = 1 => punch'[e] \in {"check", "exited"}
    BY DEF LateInv
  <2>1. CASE e = c
    <3>1. late[c] = 0
      <4>1. late[c] \in 0 .. 2 /\ late[c] <= 1 /\ late[c] # 1
        BY <1>1 DEF TypeOK, LateInv, Punch
      <4> QED
        BY <4>1
    <3>2. late'[c] = IF threadflag[c] = 1 THEN 1 ELSE 0
      BY <1>1, <3>1 DEF Punch, TypeOK
    <3>3. punch'[c] = "check" /\ threadflag' = threadflag
      BY <1>1 DEF Punch, TypeOK
    <3> QED
      BY <2>1, <3>2, <3>3
  <2>2. CASE e # c
    <3>1. late'[e] = late[e] /\ punch'[e] = punch[e] /\ threadflag' = threadflag
      BY <1>1, <2>2 DEF Punch, TypeOK
    <3> QED
      BY <3>1 DEF LateInv
  <2> QED
    BY <2>1, <2>2
<1>2. ASSUME NEW c \in Client, CheckFlag(c)
      PROVE  LateInv'
  <2>1. late[c] = 1 => threadflag[c] = 1
    BY DEF LateInv, TypeOK
  <2> QED
    BY <1>2, <2>1 DEF CheckFlag, TypeOK, LateInv
<1>3. ASSUME NEW c \in Client, SetThreadflag(c)
      PROVE  LateInv'
  BY <1>3 DEF SetThreadflag, TypeOK, LateInv
<1>4. ASSUME NEW c \in Client, Restart(c)
      PROVE  LateInv'
  BY <1>4 DEF Restart, TypeOK, LateInv
<1>5. CASE UNCHANGED <<threadflag, late, punch>>
  BY <1>5 DEF LateInv
<1> QED
  BY <1>1, <1>2, <1>3, <1>4, <1>5
     DEF Next, Punching, Accepting, SetHeartbeat, Beat, Receive, Serve, Disturb, Lose,
         vars, threads

\* For any hosts, ports and schedule: at most one datagram is punched after one
\* was accepted.
THEOREM FewPunchesCorrect == Spec => []FewPunchesAfterSuccess
<1>1. LateInv => FewPunchesAfterSuccess
  BY DEF LateInv, FewPunchesAfterSuccess
<1> QED
  BY <1>1, TypeInit, TypeStep, LateInit, LateStep, PTL DEF Spec

-----------------------------------------------------------------------------
(* Who a quiet client talks to *)

Quiet(c) ==
    /\ c \in Client \ Reachable
    /\ \A d \in Client \ {SRV_IP[c]} : SRV_IP[d] # c

\* A quiet client and its peer hear of each other only: in both directions every
\* datagram on the way is from one to the other, and nobody else has noted the
\* client's address.
Undisturbed(c) ==
    /\ si_other[c].host = SRV_IP[c]
    /\ \A d \in net : d.dst.host = c => d.src.host = SRV_IP[c]
    /\ \A d \in net : d.src.host = c => d.dst.host = SRV_IP[c]
    /\ \A e \in Client : si_other[e].host = c => e = SRV_IP[c]

QuietInv == \A c \in Client : Quiet(c) => Undisturbed(c)

LEMMA QuietInit == Init => QuietInv
BY DEF Init, QuietInv, Quiet, Undisturbed

LEMMA QuietStep ==
    ASSUME TypeOK, NEW c \in Client, Quiet(c), Undisturbed(c), [Next]_vars
    PROVE  Undisturbed(c)'
<1>1. ASSUME NEW e \in Client, Punch(e)
      PROVE  Undisturbed(c)'
  <2> DEFINE to == [host |-> SRV_IP[e], port |-> test_port[e]]
  <2>1. to \in Address
    <3>1. test_port[e] \in 0 .. PORT
      BY PunchAssumption DEF TypeOK
    <3> QED
      BY <3>1, PunchAssumption DEF Address, Host
  <2>2. \A d \in net' : d \in net \/ (d.src.host = e /\ d.dst = to)
    BY <1>1, <2>1, SendOK DEF Punch, Host
  <2>3. to.host = SRV_IP[e] /\ UNCHANGED si_other
    BY <1>1 DEF Punch
  <2>4. SRV_IP[e] = c => e = SRV_IP[c]
    BY DEF Quiet
  <2> HIDE DEF to
  <2> QED
    BY <2>2, <2>3, <2>4 DEF Undisturbed
<1>2. ASSUME NEW e \in Client, Beat(e)
      PROVE  Undisturbed(c)'
  <2>1. \A d \in net' : d \in net \/ (d.src.host = e /\ d.dst = si_other[e])
    BY <1>2, SendOK DEF Beat, Host, TypeOK
  <2>2. UNCHANGED si_other
    BY <1>2 DEF Beat, threads
  <2> QED
    BY <2>1, <2>2 DEF Undisturbed
<1>3. ASSUME NEW e \in Client, Restart(e)
      PROVE  Undisturbed(c)'
  <2>1. net' \subseteq net
    BY <1>3 DEF Restart
  <2>2. \A f \in Client : si_other'[f] = si_other[f]
                          \/ (f = e /\ si_other'[f].host = SRV_IP[f])
    BY <1>3 DEF Restart, TypeOK
  <2>3. \A f \in Client : SRV_IP[f] = c => f = SRV_IP[c]
    BY DEF Quiet
  <2> QED
    BY <2>1, <2>2, <2>3 DEF Undisturbed
<1>4. ASSUME NEW e \in Client, NEW h \in Host, Receive(e, h)
      PROVE  Undisturbed(c)'
  <2>1. PICK d \in net : /\ d.dst = AddressOf(e) /\ Take(d)
                         /\ si_other' = [si_other EXCEPT ![e] = d.src]
    BY <1>4 DEF Receive
  <2>2. net' \subseteq net /\ d.dst.host = e
    BY <2>1, AddressType DEF Take, Host
  <2>3. \A f \in Client : si_other'[f] = IF f = e THEN d.src ELSE si_other[f]
    BY <2>1 DEF TypeOK
  <2> QED
    BY <2>2, <2>3 DEF Undisturbed
<1>5. ASSUME NEW s \in Server, NEW h \in Client, Serve(s, h)
      PROVE  Undisturbed(c)'
  <2>1. \A d \in net' : d \in net \/ \E f \in net :
            f.dst.host = s /\ d.src = f.dst /\ d.dst = f.src
    BY <1>5, ServeOK
  <2>2. s # c /\ UNCHANGED si_other
    BY <1>5, PunchAssumption DEF Serve, threads
  <2> QED
    BY <2>1, <2>2 DEF Undisturbed
<1>6. ASSUME NEW x \in Stranger, NEW e \in Reachable, Disturb(x, e)
      PROVE  Undisturbed(c)'
  <2>1. AddressOf(e) \in Address /\ AddressOf(e).host = e
    BY AddressType, PunchAssumption DEF Host
  <2>2. \A d \in net' : d \in net \/ (d.src.host = x /\ d.dst = AddressOf(e))
    BY <1>6, <2>1, SendOK DEF Disturb, Host
  <2>3. e # c /\ x # c /\ UNCHANGED si_other
    BY <1>6, PunchAssumption DEF Disturb, threads, Quiet
  <2> QED
    BY <2>1, <2>2, <2>3 DEF Undisturbed
<1>7. CASE net' \subseteq net /\ UNCHANGED si_other
  BY <1>7 DEF Undisturbed
<1> QED
  BY <1>1, <1>2, <1>3, <1>4, <1>5, <1>6, <1>7
     DEF Next, Punching, Accepting, CheckFlag, SetThreadflag, SetHeartbeat, Lose, vars, threads

\* For any hosts and any number of other clients, servers and strangers: a quiet
\* client never sends a heartbeat to anybody but its peer's host.
THEOREM HeartbeatsStayWithPeerCorrect == Spec => []HeartbeatsStayWithPeer
<1>1. QuietInv => HeartbeatsStayWithPeer
  BY DEF QuietInv, Quiet, Undisturbed, HeartbeatsStayWithPeer
<1>2. TypeOK /\ QuietInv /\ [Next]_vars => QuietInv'
  <2> SUFFICES ASSUME TypeOK, QuietInv, [Next]_vars, NEW c \in Client, Quiet(c)
               PROVE  Undisturbed(c)'
    BY DEF QuietInv, Quiet
  <2> QED
    BY QuietStep DEF QuietInv
<1> QED
  BY <1>1, <1>2, TypeInit, TypeStep, QuietInit, PTL DEF Spec
=============================================================================
