----------------------------- MODULE NetProofs -----------------------------
(***************************************************************************)
(* Proofs about Net, for every network: any hosts, names, servers and      *)
(* numbers of attempts.  The three invariants about late frames rest on    *)
(* the numbering of what has been sent: nothing in air carries a number    *)
(* still to be drawn.                                                      *)
(***************************************************************************)
EXTENDS Net, TLAPS

\* What can come in is well formed, and is about what was asked.
LEMMA Inbound ==
    ASSUME TypeOK, NEW f \in FromServers \cup FromHosts \cup FromNameServers
    PROVE  /\ f.kind \in {"offer", "ack"} => f.via \in Servers /\ f.addr = LeaseOf[f.via]
           /\ f.kind = "ack" => f.via \in bound
           /\ f.kind = "is_at" => f.addr = f.via /\ \E q \in air : q.kind = "who_has" /\ q.addr = f.addr
           /\ f.kind = "echo_reply" =>
                \E q \in air : q.kind = "echo_request" /\ q.id = f.id /\ q.addr = f.addr
           /\ f.kind = "answer" =>
                \E q \in air : /\ q.kind = "question" /\ q.id = f.id
                               /\ q.addr \in Names /\ f.addr = AddressOf[q.addr]
  <1>1. CASE f \in FromServers
    BY <1>1 DEF FromServers, Frame, TypeOK
  <1>2. CASE f \in FromHosts
    BY <1>2 DEF FromHosts, Frame, TypeOK
  <1>3. CASE f \in FromNameServers
    BY <1>3 DEF FromNameServers, Frame, TypeOK
  <1> QED BY <1>1, <1>2, <1>3, Zenon

\* Every address asked for or echoed is a host's.
AskedAreHosts ==
    \A q \in air : q.kind \in {"who_has", "echo_request"} => q.addr \in Hosts

Typed == TypeOK /\ AskedAreHosts /\ AckSent /\ (pc \in {"arp_ping", "echo"} => job.target \in Hosts)

\* The driver starts well typed.
LEMMA TypedInit == Init => Typed
  BY NetAssumption DEF Init, Typed, TypeOK, AskedAreHosts, AckSent, Waits, Jobs, Statuses

\* A server that acknowledges keeps the types.
LEMMA TypedAcknowledge ==
    ASSUME Typed, NEW s \in Servers, Acknowledge(s) PROVE Typed'
  BY DEF Typed, TypeOK, AskedAreHosts, AckSent, Acknowledge

\* Handling any frame keeps the types.
LEMMA TypedNetPoll ==
    ASSUME Typed, NetPoll PROVE Typed'
  <1> PICK f \in FromServers \cup FromHosts \cup FromNameServers :
          handle_arp(f) \/ handle_echo(f) \/ handle_dns_response(f) \/ handle_dhcp(f)
    BY Zenon DEF NetPoll
  <1> UNCHANGED <<pc, attempt, calls, air, bound, job>>
    BY Zenon DEF NetPoll
  <1> TypeOK BY Zenon DEF Typed
  <1>1. CASE handle_arp(f)
    BY <1>1, Inbound DEF Typed, TypeOK, AskedAreHosts, AckSent, handle_arp
  <1>2. CASE handle_echo(f)
    <2>1. f.addr \in Hosts
      BY <1>2, Inbound, Zenon DEF handle_echo, Typed, AskedAreHosts
    <2>2. ping' \in [seq : Nat, got : BOOLEAN, from : Hosts \cup {None}, replies : Nat]
      BY <1>2, <2>1, Zenon DEF handle_echo, TypeOK
    <2> QED BY <1>2, <2>2 DEF Typed, TypeOK, AskedAreHosts, AckSent, handle_echo
  <1>3. CASE handle_dns_response(f)
    <2>1. f.addr \in Hosts
      BY <1>3, Inbound, NetAssumption DEF handle_dns_response
    <2>2. dns' \in [id : Nat, active : BOOLEAN, result : Hosts \cup {None}]
      BY <1>3, <2>1, Zenon DEF handle_dns_response, TypeOK
    <2> QED BY <1>3, <2>2 DEF Typed, TypeOK, AskedAreHosts, AckSent, handle_dns_response
  <1>4. CASE handle_dhcp(f)
    <2>1. f.via \in Servers /\ f.addr \in Hosts /\ DnsOf[f.via] \in Hosts
      BY <1>4, Inbound, NetAssumption, Zenon DEF handle_dhcp
    <2>2. /\ dhcp' \in [offer : BOOLEAN, ack : BOOLEAN, ip : Hosts \cup {None},
                        server : Servers \cup {None}, from : {"none", "offer", "ack"}]
          /\ dhcp'.ip = f.addr /\ dhcp'.from = f.kind
          /\ dhcp'.ack <=> dhcp.ack \/ f.kind = "ack"
      BY <1>4, <2>1, ZenonT(30) DEF handle_dhcp, TypeOK
    <2>3. nic' \in [ready : BOOLEAN, ip : Hosts, dns : Hosts \cup {None}]
      BY <1>4, <2>1, Zenon DEF handle_dhcp, TypeOK
    <2>4. AckSent'
      <3>1. /\ f.kind # "none" /\ f.addr = LeaseOf[f.via]
            /\ f.kind = "ack" => f.via \in bound
        BY <1>4, Inbound DEF handle_dhcp
      <3>2. dhcp'.ack => bound # {}
        BY <2>2, <3>1, Zenon DEF AckSent, Typed
      <3> QED BY <2>1, <2>2, <3>1, <3>2, Zenon DEF AckSent
    <2> QED BY <1>4, <2>2, <2>3, <2>4 DEF Typed, TypeOK, AskedAreHosts, handle_dhcp
  <1> QED BY <1>1, <1>2, <1>3, <1>4, Zenon

\* The next hop is the target or the router.
LEMMA NextHopIsHost == \A ip : NextHop(ip) \in Hosts
  BY NetAssumption, Zenon DEF NextHop

\* The fields of a frame are the ones it was built with.
LEMMA FrameFields ==
    \A k, i, a, v : LET f == Frame(k, i, a, v)
                   IN  f.kind = k /\ f.id = i /\ f.addr = a /\ f.via = v
  BY Zenon DEF Frame

\* What the driver sends is a frame, and asks for a host's address.
LEMMA SendTyped ==
    ASSUME air \subseteq Frames, AskedAreHosts,
           NEW k \in {"discover", "request", "who_has", "question", "echo_request"},
           NEW i \in Nat, NEW a \in Hosts \cup Names \cup {None},
           NEW v \in Hosts \cup Servers \cup {None},
           k \in {"who_has", "echo_request"} => a \in Hosts,
           send(Frame(k, i, a, v))
    PROVE  air' \subseteq Frames /\ AskedAreHosts'
  <1>1. Frame(k, i, a, v) \in Frames
    BY Zenon DEF Frame, Frames
  <1>2. AskedAreHosts'
    BY FrameFields DEF AskedAreHosts, send
  <1> QED BY <1>1, <1>2, Zenon DEF send

\* What asking for the next hop leaves behind.
LEMMA AskForHopTyped ==
    ASSUME Typed, NEW wait, NEW j \in Jobs, NEW hop \in Hosts, AskForHop(wait, j, hop)
    PROVE  /\ pc' = wait
           /\ job' \in Jobs /\ job'.target = j.target
           /\ arp' \in [ip : Hosts \cup {None}, mac : Hosts \cup {None}]
           /\ air' \subseteq Frames /\ AskedAreHosts'
  <1>1. air' \subseteq Frames /\ AskedAreHosts'
    <2>1. air \subseteq Frames /\ AskedAreHosts /\ 0 \in Nat
      BY Zenon DEF Typed, TypeOK
    <2>2. send(Frame("who_has", 0, hop, None))
      BY Zenon DEF AskForHop
    <2> QED BY <2>1, <2>2, SendTyped, ZenonT(30)
  <1>2. job' \in Jobs /\ job'.target = j.target
    BY Zenon DEF AskForHop, Jobs
  <1> QED BY <1>1, <1>2, Zenon DEF AskForHop

\* What sending a DNS question leaves behind.
LEMMA SendQuestionTyped ==
    ASSUME Typed, NEW wait, NEW n \in Nat, NEW id \in Nat, NEW j \in Jobs,
           SendQuestion(wait, n, id, j)
    PROVE  /\ pc' = wait /\ attempt' \in Nat /\ job' \in Jobs
           /\ dns' \in [id : Nat, active : BOOLEAN, result : Hosts \cup {None}]
           /\ air' \subseteq Frames /\ AskedAreHosts'
  <1>1. j.query \in Hosts \cup Names \cup {None} /\ j.mac \in Hosts \cup Servers \cup {None}
    BY Zenon DEF Jobs
  <1>2. air' \subseteq Frames /\ AskedAreHosts'
    <2>1. air \subseteq Frames /\ AskedAreHosts
      BY Zenon DEF Typed, TypeOK
    <2>2. send(Frame("question", id, j.query, j.mac))
      BY Zenon DEF SendQuestion
    <2> QED BY <1>1, <2>1, <2>2, SendTyped, ZenonT(30)
  <1> QED BY <1>2, Zenon DEF SendQuestion

\* What sending an echo request leaves behind.
LEMMA SendEchoTyped ==
    ASSUME Typed, NEW n \in Nat, NEW j \in Jobs, j.target \in Hosts,
           NEW p \in [seq : Nat, got : BOOLEAN, from : Hosts \cup {None}, replies : Nat],
           SendEcho(n, p, j)
    PROVE  /\ pc' = "echo" /\ attempt' \in Nat /\ job' \in Jobs /\ job'.target \in Hosts
           /\ ping' \in [seq : Nat, got : BOOLEAN, from : Hosts \cup {None}, replies : Nat]
           /\ air' \subseteq Frames /\ AskedAreHosts'
  <1>1. j.mac \in Hosts \cup Servers \cup {None} /\ p.seq \in Nat
    BY Zenon DEF Jobs
  <1>2. air' \subseteq Frames /\ AskedAreHosts'
    <2>1. air \subseteq Frames /\ AskedAreHosts
      BY Zenon DEF Typed, TypeOK
    <2>2. send(Frame("echo_request", p.seq, j.target, j.mac))
      BY Zenon DEF SendEcho
    <2> QED BY <1>1, <2>1, <2>2, SendTyped, ZenonT(30)
  <1> QED BY <1>2, Zenon DEF SendEcho

\* A call that returns leaves its target alone.
LEMMA ReturnTyped ==
    ASSUME Typed, NEW status \in Statuses, Return(status)
    PROVE  pc' = "idle" /\ job' \in Jobs /\ job'.target = job.target
  BY Zenon DEF Return, Typed, TypeOK, Jobs

-----------------------------------------------------------------------------

\* NetInit keeps the types.
LEMMA TypedNetInit ==
    ASSUME Typed, NEW found \in BOOLEAN, NetInit(found) PROVE Typed'
  <1>1. CASE found
    <2>1. air' \subseteq Frames /\ AskedAreHosts'
      BY <1>1, SendTyped, Zenon DEF NetInit, Typed, TypeOK
    <2>2. nic' \in [ready : BOOLEAN, ip : Hosts, dns : Hosts \cup {None}]
      BY <1>1, ZenonT(30) DEF NetInit, Typed, TypeOK
    <2>3. dhcp' \in [offer : BOOLEAN, ack : BOOLEAN, ip : Hosts \cup {None},
                     server : Servers \cup {None}, from : {"none", "offer", "ack"}] /\ ~dhcp'.ack
      <3>1. dhcp' = [offer |-> FALSE, ack |-> FALSE, ip |-> None, server |-> None, from |-> "none"]
        BY <1>1, Zenon DEF NetInit
      <3> QED BY <3>1, Zenon
    <2> QED BY <1>1, <2>1, <2>2, <2>3 DEF Typed, TypeOK, AckSent, Waits, NetInit
  <1>2. CASE ~found
    BY <1>2 DEF Typed, TypeOK, AskedAreHosts, AckSent, Waits, NetInit
  <1> QED BY <1>1, <1>2, Zenon

\* A further DHCP attempt keeps the types.
LEMMA TypedNextAttempt ==
    ASSUME Typed, NEW n \in Nat, NextAttempt(n), UNCHANGED <<calls, bound, arp, dns, ping, job>>
    PROVE  Typed'
  <1>1. CASE n <= DhcpAttempts /\ ~dhcp.ack
    <2>1. air' \subseteq Frames /\ AskedAreHosts'
      BY <1>1, SendTyped, Zenon DEF NextAttempt, Typed, TypeOK
    <2>2. /\ dhcp' \in [offer : BOOLEAN, ack : BOOLEAN, ip : Hosts \cup {None},
                        server : Servers \cup {None}, from : {"none", "offer", "ack"}]
          /\ dhcp'.ack = dhcp.ack /\ dhcp'.ip = dhcp.ip /\ dhcp'.from = dhcp.from
      BY <1>1, ZenonT(30) DEF NextAttempt, Typed, TypeOK
    <2> QED BY <1>1, <2>1, <2>2, ZenonT(30) DEF Typed, TypeOK, AckSent, Waits, NextAttempt
  <1>2. CASE ~(n <= DhcpAttempts /\ ~dhcp.ack)
    <2>1. nic' \in [ready : BOOLEAN, ip : Hosts, dns : Hosts \cup {None}]
      BY <1>2 DEF NextAttempt, Typed, TypeOK, AckSent
    <2> QED BY <1>2, <2>1 DEF Typed, TypeOK, AskedAreHosts, AckSent, Waits, NextAttempt
  <1> QED BY <1>1, <1>2, Zenon

\* The end of the wait for an OFFER keeps the types.
LEMMA TypedOfferWaitEnds ==
    ASSUME Typed, OfferWaitEnds PROVE Typed'
  <1>1. CASE dhcp.offer
    <2>1. dhcp.ip \in Hosts \cup {None} /\ dhcp.server \in Servers \cup {None}
      BY Zenon DEF Typed, TypeOK
    <2>2. air' \subseteq Frames /\ AskedAreHosts'
      BY <1>1, <2>1, SendTyped, Zenon DEF OfferWaitEnds, Typed, TypeOK
    <2> QED BY <1>1, <2>2 DEF Typed, TypeOK, AckSent, Waits, OfferWaitEnds
  <1>2. CASE ~dhcp.offer
    BY <1>2, TypedNextAttempt DEF OfferWaitEnds, Typed, TypeOK
  <1> QED BY <1>1, <1>2, Zenon

\* The end of the wait for an ACK keeps the types.
LEMMA TypedAckWaitEnds ==
    ASSUME Typed, AckWaitEnds PROVE Typed'
  BY TypedNextAttempt DEF AckWaitEnds, Typed, TypeOK

\* The call record a call starts with.
LEMMA NewCallTyped ==
    ASSUME Typed, NEW op \in {"resolve", "ping"}, NEW name \in Names
    PROVE  NewCall(op) \in Jobs /\ [NewCall(op) EXCEPT !.name = name] \in Jobs
  BY ZenonT(30) DEF Typed, TypeOK, Jobs, NewCall, Statuses

\* The beginning of a resolution keeps the types.
LEMMA TypedStartResolve ==
    ASSUME Typed, pc = "idle", calls' \in 0 .. MaxCalls, UNCHANGED <<bound, nic, dhcp>>,
           NEW j \in Jobs, StartResolve(j)
    PROVE  Typed'
  <1>1. CASE nic.ready /\ nic.dns # None
    <2>1. PICK q \in {j.query, None} :
              AskForHop("arp_dns", [j EXCEPT !.query = q, !.server = nic.dns], NextHop(nic.dns))
      BY <1>1, Zenon DEF StartResolve
    <2>2. [j EXCEPT !.query = q, !.server = nic.dns] \in Jobs
      BY Zenon DEF Jobs, Typed, TypeOK
    <2>3. dns' \in [id : Nat, active : BOOLEAN, result : Hosts \cup {None}]
      BY <1>1 DEF StartResolve, Typed, TypeOK
    <2> HIDE DEF AskForHop
    <2>4. /\ pc' = "arp_dns" /\ job' \in Jobs
          /\ arp' \in [ip : Hosts \cup {None}, mac : Hosts \cup {None}]
          /\ air' \subseteq Frames /\ AskedAreHosts'
      BY <2>1, <2>2, AskForHopTyped, NextHopIsHost, Zenon
    <2> QED BY <1>1, <2>3, <2>4, Zenon DEF StartResolve, Typed, TypeOK, AckSent, Waits
  <1>2. CASE ~(nic.ready /\ nic.dns # None)
    <2>1. job' \in Jobs
      BY <1>2 DEF StartResolve, Jobs, Statuses
    <2> QED BY <1>2, <2>1 DEF StartResolve, Typed, TypeOK, AskedAreHosts, AckSent, Waits
  <1> QED BY <1>1, <1>2, Zenon

\* NetResolve keeps the types.
LEMMA TypedNetResolve ==
    ASSUME Typed, NEW name \in Names, NetResolve(name) PROVE Typed'
  <1>1. calls' \in 0 .. MaxCalls
    BY NetAssumption DEF NetResolve, Typed, TypeOK
  <1> QED BY <1>1, NewCallTyped, TypedStartResolve, Zenon DEF NetResolve

\* NetPing of a name keeps the types.
LEMMA TypedNetPingName ==
    ASSUME Typed, NEW name \in Names, NetPingName(name) PROVE Typed'
  <1>1. calls' \in 0 .. MaxCalls
    BY NetAssumption DEF NetPingName, Typed, TypeOK
  <1> QED BY <1>1, NewCallTyped, TypedStartResolve, Zenon DEF NetPingName

\* NetPing of an address keeps the types.
LEMMA TypedNetPingAddress ==
    ASSUME Typed, NEW ip \in Hosts, NetPingAddress(ip) PROVE Typed'
  <1> DEFINE j == [NewCall("ping") EXCEPT !.target = ip]
  <1>1. calls' \in 0 .. MaxCalls
    BY NetAssumption DEF NetPingAddress, Typed, TypeOK
  <1>2. j \in Jobs /\ j.target = ip
    BY ZenonT(30) DEF NewCall, Typed, TypeOK, Jobs, Statuses
  <1>3. AskForHop("arp_ping", j, NextHop(ip)) /\ UNCHANGED <<attempt, dns, ping, bound, nic, dhcp>>
    BY Zenon DEF NetPingAddress, StartPing
  <1> HIDE DEF j
  <1>4. /\ pc' = "arp_ping" /\ job' \in Jobs /\ job'.target = ip
        /\ arp' \in [ip : Hosts \cup {None}, mac : Hosts \cup {None}]
        /\ air' \subseteq Frames /\ AskedAreHosts'
    BY <1>2, <1>3, AskForHopTyped, NextHopIsHost, Zenon
  <1> QED BY <1>1, <1>3, <1>4 DEF Typed, TypeOK, AckSent, Waits

\* Turning to the fallback name server keeps the types.
LEMMA TypedFallback ==
    ASSUME Typed, Fallback, pc \in {"arp_dns", "dns"}, UNCHANGED <<bound, nic, dhcp>>,
           dns' \in [id : Nat, active : BOOLEAN, result : Hosts \cup {None}]
    PROVE  Typed'
  <1>1. CASE nic.dns # PublicDns
    <2>1. AskForHop("arp_fallback", job, Router) /\ UNCHANGED <<attempt, calls, ping>>
      BY <1>1, Zenon DEF Fallback
    <2>2. Router \in Hosts /\ job \in Jobs
      BY NetAssumption, Zenon DEF Typed, TypeOK
    <2>3. /\ pc' = "arp_fallback" /\ job' \in Jobs
          /\ arp' \in [ip : Hosts \cup {None}, mac : Hosts \cup {None}]
          /\ air' \subseteq Frames /\ AskedAreHosts'
      BY <2>1, <2>2, AskForHopTyped, Zenon
    <2> QED BY <2>1, <2>3 DEF Typed, TypeOK, AckSent, Waits
  <1>2. CASE nic.dns = PublicDns
    <2>1. Return("unresolved")
      BY <1>2, Zenon DEF Fallback
    <2>2. pc' = "idle" /\ job' \in Jobs
      BY <2>1, ReturnTyped, Zenon DEF Statuses
    <2> QED BY <2>1, <2>2 DEF Return, Typed, TypeOK, AskedAreHosts, AckSent, Waits
  <1> QED BY <1>1, <1>2, Zenon


\* The end of the wait for the name server's hop keeps the types.
LEMMA TypedDnsHopWaitEnds ==
    ASSUME Typed, DnsHopWaitEnds PROVE Typed'
  <1> UNCHANGED <<bound, nic, dhcp>> /\ pc = "arp_dns"
    BY Zenon DEF DnsHopWaitEnds
  <1>0. arp.mac \in Hosts \cup {None} /\ dns.id \in Nat /\ job \in Jobs
    BY Zenon DEF Typed, TypeOK
  <1>1. CASE ~HopFound /\ Fallback /\ UNCHANGED dns
    BY <1>1, TypedFallback, Zenon DEF Typed, TypeOK
  <1>2. CASE /\ HopFound /\ job.name \in BadNames
             /\ pc' = "idle"
             /\ job' = [job EXCEPT !.mac = arp.mac, !.query = None, !.status = "unresolved"]
             /\ dns' = [dns EXCEPT !.id = @ + 1]
             /\ UNCHANGED <<attempt, calls, air, arp, ping>>
    <2>1. job' \in Jobs
      BY <1>0, <1>2, Zenon DEF Jobs, Statuses
    <2>2. dns' \in [id : Nat, active : BOOLEAN, result : Hosts \cup {None}]
      BY <1>2 DEF Typed, TypeOK
    <2> QED BY <1>2, <2>1, <2>2 DEF Typed, TypeOK, AskedAreHosts, AckSent, Waits
  <1>3. CASE /\ HopFound /\ job.name \notin BadNames
             /\ SendQuestion("dns", 1, dns.id + 2,
                             [job EXCEPT !.mac = arp.mac, !.query = job.name])
             /\ UNCHANGED <<calls, arp, ping>>
    <2>1. [job EXCEPT !.mac = arp.mac, !.query = job.name] \in Jobs
      BY <1>0, Zenon DEF Jobs
    <2>2. /\ pc' = "dns" /\ attempt' \in Nat /\ job' \in Jobs
          /\ dns' \in [id : Nat, active : BOOLEAN, result : Hosts \cup {None}]
          /\ air' \subseteq Frames /\ AskedAreHosts'
      BY <1>0, <1>3, <2>1, SendQuestionTyped, SMTT(30)
    <2> QED BY <1>3, <2>2 DEF Typed, TypeOK, AckSent, Waits
  <1> QED BY <1>1, <1>2, <1>3, Zenon DEF DnsHopWaitEnds

\* The end of a wait for an answer keeps the types.
LEMMA TypedAnswerWaitEnds ==
    ASSUME Typed, NEW wait \in {"dns", "fallback"}, AnswerWaitEnds(wait) PROVE Typed'
  <1> UNCHANGED <<bound, nic, dhcp>> /\ pc = wait
    BY Zenon DEF AnswerWaitEnds
  <1>0. job \in Jobs /\ attempt + 1 \in Nat /\ dns.id + 1 \in Nat
    BY DEF Typed, TypeOK
  <1>1. CASE dns.result # None /\ Resolved /\ dns' = [dns EXCEPT !.active = FALSE]
    <2>1. dns' \in [id : Nat, active : BOOLEAN, result : Hosts \cup {None}]
      BY <1>1, Zenon DEF Typed, TypeOK
    <2>2. CASE Return("resolved")
      <3>1. pc' = "idle" /\ job' \in Jobs
        BY <2>2, ReturnTyped, Zenon DEF Statuses
      <3> QED BY <2>1, <2>2, <3>1 DEF Return, Typed, TypeOK, AskedAreHosts, AckSent, Waits
    <2>3. CASE /\ AskForHop("arp_ping", [job EXCEPT !.target = dns.result], NextHop(dns.result))
               /\ UNCHANGED <<attempt, calls, ping>>
      <3> DEFINE j == [job EXCEPT !.target = dns.result]
      <3>1. dns.result \in Hosts
        BY <1>1, Zenon DEF Typed, TypeOK
      <3>2. j \in Jobs /\ j.target = dns.result
        BY <1>0, <3>1, Zenon DEF Jobs
      <3>3. AskForHop("arp_ping", j, NextHop(dns.result))
        BY <2>3, Zenon
      <3> HIDE DEF j
      <3>4. /\ pc' = "arp_ping" /\ job' \in Jobs /\ job'.target = dns.result
            /\ arp' \in [ip : Hosts \cup {None}, mac : Hosts \cup {None}]
            /\ air' \subseteq Frames /\ AskedAreHosts'
        BY <3>2, <3>3, AskForHopTyped, NextHopIsHost, Zenon
      <3> QED BY <2>1, <2>3, <3>1, <3>4 DEF Typed, TypeOK, AckSent, Waits
    <2> QED BY <1>1, <2>2, <2>3, Zenon DEF Resolved
  <1>2. CASE /\ dns.result = None /\ attempt < DnsAttempts
             /\ SendQuestion(wait, attempt + 1, dns.id + 1, job)
             /\ UNCHANGED <<calls, arp, ping>>
    <2>1. /\ pc' = wait /\ attempt' \in Nat /\ job' \in Jobs
          /\ dns' \in [id : Nat, active : BOOLEAN, result : Hosts \cup {None}]
          /\ air' \subseteq Frames /\ AskedAreHosts'
      BY <1>0, <1>2, SendQuestionTyped, Zenon
    <2> QED BY <1>2, <2>1 DEF Typed, TypeOK, AckSent, Waits
  <1>3. CASE /\ IF wait = "dns" THEN Fallback ELSE Return("unresolved")
             /\ dns' = [dns EXCEPT !.active = FALSE]
    <2>1. dns' \in [id : Nat, active : BOOLEAN, result : Hosts \cup {None}]
      BY <1>3, Zenon DEF Typed, TypeOK
    <2>2. CASE wait = "dns"
      BY <1>3, <2>1, <2>2, TypedFallback, Zenon
    <2>3. CASE Return("unresolved")
      <3>1. pc' = "idle" /\ job' \in Jobs
        BY <2>3, ReturnTyped, Zenon DEF Statuses
      <3> QED BY <2>1, <2>3, <3>1 DEF Return, Typed, TypeOK, AskedAreHosts, AckSent, Waits
    <2> QED BY <1>3, <2>2, <2>3, Zenon
  <1> QED BY <1>1, <1>2, <1>3, Zenon DEF AnswerWaitEnds

\* The end of the wait for the fallback server's hop keeps the types.
LEMMA TypedFallbackHopWaitEnds ==
    ASSUME Typed, FallbackHopWaitEnds PROVE Typed'
  <1> UNCHANGED <<bound, nic, dhcp>>
    BY Zenon DEF FallbackHopWaitEnds
  <1>0. arp.mac \in Hosts \cup {None} /\ dns.id + 1 \in Nat /\ 1 \in Nat /\ job \in Jobs
    BY DEF Typed, TypeOK
  <1>1. CASE /\ SendQuestion("fallback", 1, dns.id + 1, [job EXCEPT !.mac = arp.mac])
             /\ UNCHANGED <<calls, arp, ping>>
    <2>1. [job EXCEPT !.mac = arp.mac] \in Jobs
      BY <1>0, Zenon DEF Jobs
    <2>2. /\ pc' = "fallback" /\ attempt' \in Nat /\ job' \in Jobs
          /\ dns' \in [id : Nat, active : BOOLEAN, result : Hosts \cup {None}]
          /\ air' \subseteq Frames /\ AskedAreHosts'
      BY <1>0, <1>1, <2>1, SendQuestionTyped, Zenon
    <2> QED BY <1>1, <2>2 DEF Typed, TypeOK, AckSent, Waits
  <1>2. CASE Return("unresolved") /\ UNCHANGED dns
    <2>1. pc' = "idle" /\ job' \in Jobs
      BY <1>2, ReturnTyped, Zenon DEF Statuses
    <2> QED BY <1>2, <2>1 DEF Return, Typed, TypeOK, AskedAreHosts, AckSent, Waits
  <1> QED BY <1>1, <1>2, Zenon DEF FallbackHopWaitEnds


\* The end of the wait for the target's hop keeps the types.
LEMMA TypedPingHopWaitEnds ==
    ASSUME Typed, PingHopWaitEnds PROVE Typed'
  <1> UNCHANGED <<bound, nic, dhcp, dns>> /\ pc = "arp_ping"
    BY Zenon DEF PingHopWaitEnds
  <1>0. arp.mac \in Hosts \cup {None} /\ 1 \in Nat /\ job \in Jobs /\ job.target \in Hosts
    BY Zenon DEF Typed, TypeOK
  <1>1. CASE /\ SendEcho(1, [ping EXCEPT !.replies = 0], [job EXCEPT !.mac = arp.mac])
             /\ UNCHANGED <<calls, arp>>
    <2>1. [job EXCEPT !.mac = arp.mac] \in Jobs /\ [job EXCEPT !.mac = arp.mac].target \in Hosts
      BY <1>0, Zenon DEF Jobs
    <2>2. [ping EXCEPT !.replies = 0] \in
              [seq : Nat, got : BOOLEAN, from : Hosts \cup {None}, replies : Nat]
      BY Zenon DEF Typed, TypeOK
    <2>3. /\ pc' = "echo" /\ attempt' \in Nat /\ job' \in Jobs /\ job'.target \in Hosts
          /\ ping' \in [seq : Nat, got : BOOLEAN, from : Hosts \cup {None}, replies : Nat]
          /\ air' \subseteq Frames /\ AskedAreHosts'
      BY <1>0, <1>1, <2>1, <2>2, SendEchoTyped, Zenon
    <2> QED BY <1>1, <2>3 DEF Typed, TypeOK, AckSent, Waits
  <1>2. CASE Return("no_hop")
    <2>1. pc' = "idle" /\ job' \in Jobs
      BY <1>2, ReturnTyped, Zenon DEF Statuses
    <2> QED BY <1>2, <2>1 DEF Return, Typed, TypeOK, AskedAreHosts, AckSent, Waits
  <1> QED BY <1>1, <1>2, Zenon DEF PingHopWaitEnds

\* The end of the wait for an echo keeps the types.
LEMMA TypedEchoWaitEnds ==
    ASSUME Typed, EchoWaitEnds PROVE Typed'
  <1> DEFINE p == [ping EXCEPT !.replies = @ + IF ping.got THEN 1 ELSE 0, !.seq = @ + 1]
  <1> UNCHANGED <<bound, nic, dhcp, dns>> /\ pc = "echo"
    BY Zenon DEF EchoWaitEnds
  <1>0. attempt + 1 \in Nat /\ job \in Jobs /\ job.target \in Hosts
    BY DEF Typed, TypeOK
  <1>1. p \in [seq : Nat, got : BOOLEAN, from : Hosts \cup {None}, replies : Nat]
    <2>1. /\ ping \in [seq : Nat, got : BOOLEAN, from : Hosts \cup {None}, replies : Nat]
          /\ ping.seq + 1 \in Nat /\ (ping.replies + IF ping.got THEN 1 ELSE 0) \in Nat
      BY DEF Typed, TypeOK
    <2> QED BY <2>1, Zenon
  <1>2. CASE SendEcho(attempt + 1, p, job) /\ UNCHANGED <<calls, arp>>
    <2> HIDE DEF p
    <2>1. /\ pc' = "echo" /\ attempt' \in Nat /\ job' \in Jobs /\ job'.target \in Hosts
          /\ ping' \in [seq : Nat, got : BOOLEAN, from : Hosts \cup {None}, replies : Nat]
          /\ air' \subseteq Frames /\ AskedAreHosts'
      BY <1>0, <1>1, <1>2, SendEchoTyped, Zenon
    <2> QED BY <1>2, <2>1 DEF Typed, TypeOK, AckSent, Waits
  <1>3. CASE /\ ping' = p /\ pc' = "idle"
             /\ job' = [job EXCEPT !.status = IF p.replies = 0 THEN "no_reply" ELSE "replied"]
             /\ UNCHANGED <<attempt, calls, air, arp>>
    <2> HIDE DEF p
    <2>1. job' \in Jobs
      BY <1>0, <1>3, ZenonT(30) DEF Jobs, Statuses
    <2> QED BY <1>1, <1>3, <2>1 DEF Typed, TypeOK, AskedAreHosts, AckSent, Waits
  <1> QED BY <1>2, <1>3, Zenon DEF EchoWaitEnds

\* Every step keeps the types.
LEMMA TypedNext == Typed /\ [Next]_vars => Typed'
  <1> SUFFICES ASSUME Typed, [Next]_vars PROVE Typed'
    BY Zenon
  <1>1. CASE UNCHANGED vars
    BY <1>1 DEF vars, Typed, TypeOK, AskedAreHosts, AckSent
  <1>2. CASE \E s \in Servers : Acknowledge(s)
    BY <1>2, TypedAcknowledge, Zenon
  <1>3. CASE NetPoll
    BY <1>3, TypedNetPoll, Zenon
  <1>4. CASE \E found \in BOOLEAN : NetInit(found)
    BY <1>4, TypedNetInit, Zenon
  <1>5. CASE \E name \in Names : NetResolve(name) \/ NetPingName(name)
    BY <1>5, TypedNetResolve, TypedNetPingName, Zenon
  <1>6. CASE \E ip \in Hosts : NetPingAddress(ip)
    BY <1>6, TypedNetPingAddress, Zenon
  <1>7. CASE WaitEnds
    BY <1>7, TypedOfferWaitEnds, TypedAckWaitEnds, TypedDnsHopWaitEnds, TypedAnswerWaitEnds,
       TypedFallbackHopWaitEnds, TypedPingHopWaitEnds, TypedEchoWaitEnds, Zenon DEF WaitEnds
  <1> QED BY <1>1, <1>2, <1>3, <1>4, <1>5, <1>6, <1>7, Zenon DEF Next

\* The driver's state keeps its types, whatever the network does: addresses
\* are hosts', and an acknowledged lease has one.
THEOREM TypeCorrect == Spec => []TypeOK
  <1>1. Typed => TypeOK
    BY Zenon DEF Typed
  <1> QED BY TypedInit, TypedNext, <1>1, PTL DEF Spec


-----------------------------------------------------------------------------
(* The lease.                                                              *)

\* Only the end of NetInit's exchange changes the address of the card.
LEMMA LeaseStep ==
    ASSUME Typed, [Next]_vars, nic'.ip # nic.ip
    PROVE  /\ bound # {}
           /\ dhcp.from # "offer" => \E s \in bound : nic'.ip = LeaseOf[s]
  <1>1. CASE OfferWaitEnds \/ AckWaitEnds
    <2>1. dhcp.ack /\ nic' = [nic EXCEPT !.ip = dhcp.ip]
      BY <1>1, Zenon DEF OfferWaitEnds, AckWaitEnds, NextAttempt
    <2>2. nic'.ip = dhcp.ip
      BY <2>1, Zenon DEF Typed, TypeOK
    <2>3. dhcp.from \in {"none", "offer", "ack"}
      BY Zenon DEF Typed, TypeOK
    <2> QED BY <2>1, <2>2, <2>3, Zenon DEF Typed, AckSent
  <1>2. CASE NetPoll
    <2>1. nic'.ip = nic.ip
      BY <1>2, Zenon DEF Typed, TypeOK, NetPoll, handle_arp, handle_echo, handle_dns_response,
         handle_dhcp
    <2> QED BY <2>1, Zenon
  <1>3. CASE \E found \in BOOLEAN : NetInit(found)
    <2>1. nic'.ip = nic.ip
      BY <1>3, ZenonT(30) DEF Typed, TypeOK, NetInit
    <2> QED BY <2>1, Zenon
  <1>4. CASE ~(OfferWaitEnds \/ AckWaitEnds) /\ ~NetPoll /\ ~\E found \in BOOLEAN : NetInit(found)
    <2>1. UNCHANGED nic
      BY <1>4, Zenon DEF Next, vars, Acknowledge, NetResolve, NetPingName, NetPingAddress,
         WaitEnds, DnsHopWaitEnds, AnswerWaitEnds, FallbackHopWaitEnds, PingHopWaitEnds, EchoWaitEnds
    <2> QED BY <2>1, Zenon
  <1> QED BY <1>1, <1>2, <1>3, <1>4, Zenon

\* The exchange of NetInit with any number of servers and attempts: an address goes
\* on the card only after an acknowledgement, and is one its server acknowledged
\* unless an OFFER was handled after the last ACK.
THEOREM LeaseIsAcknowledged == Spec => LeaseAcknowledged
  <1>1. ASSUME Typed, [Next]_vars
        PROVE  [nic'.ip # nic.ip =>
                  /\ bound # {}
                  /\ dhcp.from # "offer" => \E s \in bound : nic'.ip = LeaseOf[s]]_vars
    BY <1>1, LeaseStep, Zenon
  <1> QED BY TypedInit, TypedNext, <1>1, PTL DEF Spec, LeaseAcknowledged

-----------------------------------------------------------------------------
(* Answers.  Apart from SendQuestion no step adds a question.              *)

LEMMA NotAQuestion ==
    ASSUME NEW k, NEW i, NEW a, NEW v, k # "question", send(Frame(k, i, a, v))
    PROVE  \A q \in air' : q.kind = "question" => q \in air
  BY FrameFields DEF send

\* A new question has a number of its own.
LEMMA QuestionAsked ==
    ASSUME Typed, QuestionsNumbered, NEW wait \in {"dns", "fallback"}, NEW n, NEW id \in Nat,
           NEW j \in Jobs, id > dns.id, SendQuestion(wait, n, id, j)
    PROVE  QuestionsNumbered' /\ AnswerIsOwn'
  <1>1. /\ pc' = wait /\ job' = j
        /\ dns' = [id |-> id, active |-> TRUE, result |-> None]
        /\ air' = air \cup {Frame("question", id, j.query, j.mac)}
    BY Zenon DEF SendQuestion, send
  <1>2. \A q \in air : q.kind = "question" => q.id <= dns.id /\ q.id \in Nat /\ dns.id \in Nat
    BY Zenon DEF QuestionsNumbered, Typed, TypeOK, Frames
  <1>3. \A q \in air' : q.kind = "question" =>
            q.id <= id /\ (q.id = id => q.addr = j.query)
    BY <1>1, <1>2, FrameFields
  <1> QED BY <1>1, <1>3, Zenon DEF QuestionsNumbered, AnswerIsOwn

\* A frame is taken as the answer only to the question last sent.
LEMMA AnswerNetPoll ==
    ASSUME Typed, QuestionsNumbered, AnswerIsOwn, NetPoll
    PROVE  QuestionsNumbered' /\ AnswerIsOwn'
  <1> PICK f \in FromServers \cup FromHosts \cup FromNameServers :
          handle_arp(f) \/ handle_echo(f) \/ handle_dns_response(f) \/ handle_dhcp(f)
    BY Zenon DEF NetPoll
  <1> UNCHANGED <<pc, air, job>>
    BY Zenon DEF NetPoll
  <1>1. CASE ~handle_dns_response(f)
    BY <1>1 DEF handle_arp, handle_echo, handle_dhcp, QuestionsNumbered, AnswerIsOwn
  <1>2. CASE handle_dns_response(f) /\ ~(dns.active /\ f.id = dns.id)
    BY <1>2, Zenon DEF handle_dns_response, QuestionsNumbered, AnswerIsOwn
  <1>3. CASE handle_dns_response(f) /\ dns.active /\ f.id = dns.id
    <2>1. PICK q \in air : /\ q.kind = "question" /\ q.id = f.id
                           /\ q.addr \in Names /\ f.addr = AddressOf[q.addr]
      BY <1>3, Inbound, Zenon DEF handle_dns_response, Typed
    <2>2. q.addr = job.query
      BY <1>3, <2>1, Zenon DEF QuestionsNumbered
    <2>3. /\ dns'.id = dns.id /\ ~dns'.active /\ dns'.result = AddressOf[job.query]
          /\ job.query # None
      BY <1>3, <2>1, <2>2, NetAssumption DEF handle_dns_response, Typed, TypeOK
    <2> QED BY <1>3, <2>3, Zenon DEF QuestionsNumbered, AnswerIsOwn
  <1> QED BY <1>1, <1>2, <1>3, Zenon

\* Questions are numbered.
LEMMA QuestionIds ==
    ASSUME Typed
    PROVE  dns.id \in Nat /\ job \in Jobs /\ \A q \in air : q.kind = "question" => q.id \in Nat
  BY DEF Typed, TypeOK, Frames

\* A resolution begins with a number no question in the air has.
LEMMA AnswerStartResolve ==
    ASSUME Typed, QuestionsNumbered, AnswerIsOwn, pc = "idle", NEW j, j.query = job.query,
           j \in Jobs, StartResolve(j)
    PROVE  QuestionsNumbered' /\ AnswerIsOwn'
  <1>0. ~dns.active /\ dns.id \in Nat
    BY QuestionIds, Zenon DEF QuestionsNumbered
  <1>1. CASE nic.ready /\ nic.dns # None
    <2>1. send(Frame("who_has", 0, NextHop(nic.dns), None))
      BY <1>1, Zenon DEF StartResolve, AskForHop
    <2>2. ~dns'.active /\ dns'.id = dns.id /\ dns'.result = None
      BY <1>0, <1>1 DEF StartResolve, Typed, TypeOK
    <2>3. \A q \in air' : q.kind = "question" => q \in air
      BY <2>1, NotAQuestion, Zenon
    <2> QED BY <1>0, <2>2, <2>3, QuestionIds, Zenon DEF QuestionsNumbered, AnswerIsOwn
  <1>2. CASE ~(nic.ready /\ nic.dns # None)
    <2>1. UNCHANGED <<dns, air>> /\ job'.query = job.query /\ pc' = "idle"
      BY <1>2, Zenon DEF StartResolve, Jobs
    <2> QED BY <1>0, <2>1, Zenon DEF QuestionsNumbered, AnswerIsOwn
  <1> QED BY <1>1, <1>2, Zenon

\* The steps that ask for a hop, or return, keep the buffer and drop the wait.
LEMMA AnswerAskForHop ==
    ASSUME Typed, QuestionsNumbered, AnswerIsOwn, NEW wait, NEW j \in Jobs, NEW hop,
           j.query = job.query, AskForHop(wait, j, hop),
           wait # "arp_dns", ~dns'.active, dns'.id = dns.id, dns'.result = dns.result
    PROVE  QuestionsNumbered' /\ AnswerIsOwn'
  <1>1. \A q \in air' : q.kind = "question" => q \in air
    BY NotAQuestion, Zenon DEF AskForHop
  <1>2. job'.query = job.query /\ pc' = wait
    BY Zenon DEF AskForHop, Jobs
  <1> QED BY <1>1, <1>2, QuestionIds, Zenon DEF QuestionsNumbered, AnswerIsOwn

\* A call that returns with dns_active down keeps its own answer.
LEMMA AnswerReturn ==
    ASSUME Typed, QuestionsNumbered, AnswerIsOwn, NEW status, Return(status),
           ~dns'.active, dns'.id = dns.id, dns'.result = dns.result
    PROVE  QuestionsNumbered' /\ AnswerIsOwn'
  <1>1. job'.query = job.query /\ UNCHANGED air /\ pc' = "idle"
    BY Zenon DEF Return, Typed, TypeOK, Jobs
  <1> QED BY <1>1, Zenon DEF QuestionsNumbered, AnswerIsOwn

\* Turning to the fallback server forgets the pending question, not the answer.
LEMMA AnswerFallback ==
    ASSUME Typed, QuestionsNumbered, AnswerIsOwn, Fallback,
           ~dns'.active, dns'.id = dns.id, dns'.result = dns.result
    PROVE  QuestionsNumbered' /\ AnswerIsOwn'
  <1>1. CASE AskForHop("arp_fallback", job, Router)
    BY <1>1, AnswerAskForHop, QuestionIds, Zenon
  <1>2. CASE Return("unresolved")
    BY <1>2, AnswerReturn, Zenon
  <1> QED BY <1>1, <1>2, Zenon DEF Fallback

\* Steps of the DHCP exchange and of the servers do not touch the question.
LEMMA AnswerElsewhere ==
    ASSUME Typed, QuestionsNumbered, AnswerIsOwn, UNCHANGED <<dns, job>>,
           \A q \in air' : q.kind = "question" => q \in air,
           pc' = pc \/ (~dns.active /\ pc' # "arp_dns")
    PROVE  QuestionsNumbered' /\ AnswerIsOwn'
  BY Zenon DEF QuestionsNumbered, AnswerIsOwn

\* The lease does not touch questions and answers.
LEMMA AnswerDhcp ==
    ASSUME Typed, QuestionsNumbered, AnswerIsOwn,
           (\E s \in Servers : Acknowledge(s)) \/ (\E found \in BOOLEAN : NetInit(found))
              \/ OfferWaitEnds \/ AckWaitEnds
    PROVE  QuestionsNumbered' /\ AnswerIsOwn'
  <1>1. CASE \E s \in Servers : Acknowledge(s)
    BY <1>1, AnswerElsewhere, Zenon DEF Acknowledge
  <1>2. CASE \E found \in BOOLEAN : NetInit(found)
    <2>1. UNCHANGED <<dns, job>> /\ ~dns.active /\ pc' # "arp_dns"
      BY <1>2, Zenon DEF NetInit, QuestionsNumbered
    <2>2. \A q \in air' : q.kind = "question" => q \in air
      BY <1>2, NotAQuestion, Zenon DEF NetInit
    <2> QED BY <2>1, <2>2, AnswerElsewhere, Zenon
  <1>3. CASE OfferWaitEnds \/ AckWaitEnds
    <2>1. UNCHANGED <<dns, job>> /\ ~dns.active /\ pc' # "arp_dns"
      BY <1>3, Zenon DEF OfferWaitEnds, AckWaitEnds, NextAttempt, QuestionsNumbered
    <2>2. \A q \in air' : q.kind = "question" => q \in air
      BY <1>3, NotAQuestion, Zenon DEF OfferWaitEnds, AckWaitEnds, NextAttempt
    <2> QED BY <2>1, <2>2, AnswerElsewhere, Zenon
  <1> QED BY <1>1, <1>2, <1>3, Zenon

\* Beginning a call keeps the answers to their own questions.
LEMMA AnswerCalls ==
    ASSUME Typed, QuestionsNumbered, AnswerIsOwn,
           (\E name \in Names : NetResolve(name) \/ NetPingName(name))
              \/ (\E ip \in Hosts : NetPingAddress(ip))
    PROVE  QuestionsNumbered' /\ AnswerIsOwn'
  <1>0. \A op \in {"resolve", "ping"}, name \in Names :
            /\ NewCall(op) \in Jobs /\ NewCall(op).query = job.query
            /\ [NewCall(op) EXCEPT !.name = name] \in Jobs
            /\ [NewCall(op) EXCEPT !.name = name].query = job.query
    BY QuestionIds, ZenonT(30) DEF NewCall, Jobs, Statuses
  <1>1. CASE \E name \in Names : NetResolve(name)
    BY <1>0, <1>1, AnswerStartResolve, Zenon DEF NetResolve
  <1>2. CASE \E name \in Names : NetPingName(name)
    BY <1>0, <1>2, AnswerStartResolve, Zenon DEF NetPingName
  <1>3. CASE \E ip \in Hosts : NetPingAddress(ip)
    <2>1. PICK ip \in Hosts : NetPingAddress(ip)
      BY <1>3, Zenon
    <2> DEFINE j == [NewCall("ping") EXCEPT !.target = ip]
    <2>2. j \in Jobs /\ j.query = job.query
      BY QuestionIds, Zenon DEF NewCall, Jobs, Statuses
    <2>3. AskForHop("arp_ping", j, NextHop(ip)) /\ UNCHANGED dns /\ ~dns.active
      BY <2>1, Zenon DEF NetPingAddress, StartPing, QuestionsNumbered
    <2> HIDE DEF j
    <2> QED BY <2>2, <2>3, AnswerAskForHop, Zenon
  <1> QED BY <1>1, <1>2, <1>3, Zenon

\* Sending the first question, or failing to, keeps them too.
LEMMA AnswerDnsHopWaitEnds ==
    ASSUME Typed, QuestionsNumbered, AnswerIsOwn, DnsHopWaitEnds
    PROVE  QuestionsNumbered' /\ AnswerIsOwn'
  <1> pc = "arp_dns"
    BY Zenon DEF DnsHopWaitEnds
  <1>0. ~dns.active /\ dns.id \in Nat /\ job \in Jobs /\ dns.result = None
    BY QuestionIds, Zenon DEF QuestionsNumbered
  <1>1. CASE ~HopFound /\ Fallback /\ UNCHANGED dns
    BY <1>0, <1>1, AnswerFallback, Zenon
  <1>2. CASE /\ pc' = "idle"
             /\ dns' = [dns EXCEPT !.id = @ + 1]
             /\ UNCHANGED air
    <2>1. dns'.id = dns.id + 1 /\ ~dns'.active /\ dns'.result = None
      BY <1>0, <1>2, Zenon DEF Typed, TypeOK
    <2> QED BY <1>0, <1>2, <2>1, QuestionIds DEF QuestionsNumbered, AnswerIsOwn
  <1>3. CASE SendQuestion("dns", 1, dns.id + 2, [job EXCEPT !.mac = arp.mac, !.query = job.name])
    <2>1. [job EXCEPT !.mac = arp.mac, !.query = job.name] \in Jobs
      BY <1>0, ZenonT(30) DEF Jobs, Typed, TypeOK
    <2>2. dns.id + 2 \in Nat /\ dns.id + 2 > dns.id
      BY <1>0
    <2> QED BY <1>3, <2>1, <2>2, QuestionAsked, Zenon
  <1> QED BY <1>1, <1>2, <1>3, Zenon DEF DnsHopWaitEnds

\* So does the end of a wait for an answer: it returns, asks again or falls back.
LEMMA AnswerAnswerWaitEnds ==
    ASSUME Typed, QuestionsNumbered, AnswerIsOwn, NEW wait \in {"dns", "fallback"},
           AnswerWaitEnds(wait)
    PROVE  QuestionsNumbered' /\ AnswerIsOwn'
  <1>0. job \in Jobs /\ dns.id + 1 \in Nat /\ dns.id + 1 > dns.id
    BY QuestionIds
  <1>1. CASE SendQuestion(wait, attempt + 1, dns.id + 1, job)
    BY <1>0, <1>1, QuestionAsked, Zenon
  <1>2. CASE dns' = [dns EXCEPT !.active = FALSE] /\ (Resolved \/ Fallback \/ Return("unresolved"))
    <2>1. ~dns'.active /\ dns'.id = dns.id /\ dns'.result = dns.result
      BY <1>2, Zenon DEF Typed, TypeOK
    <2>2. CASE AskForHop("arp_ping", [job EXCEPT !.target = dns.result], NextHop(dns.result))
      <3>1. [job EXCEPT !.target = dns.result] \in Jobs
            /\ [job EXCEPT !.target = dns.result].query = job.query
        BY <1>0 DEF Typed, TypeOK, Jobs
      <3> QED BY <2>1, <2>2, <3>1, AnswerAskForHop, Zenon
    <2> QED BY <1>2, <2>1, <2>2, AnswerReturn, AnswerFallback, Zenon DEF Resolved
  <1> QED BY <1>1, <1>2, Zenon DEF AnswerWaitEnds

\* So does the question to the fallback server.
LEMMA AnswerFallbackHopWaitEnds ==
    ASSUME Typed, QuestionsNumbered, AnswerIsOwn, FallbackHopWaitEnds
    PROVE  QuestionsNumbered' /\ AnswerIsOwn'
  <1>0. job \in Jobs /\ dns.id + 1 \in Nat /\ dns.id + 1 > dns.id
    BY QuestionIds
  <1>1. CASE SendQuestion("fallback", 1, dns.id + 1, [job EXCEPT !.mac = arp.mac])
    <2>1. [job EXCEPT !.mac = arp.mac] \in Jobs
      BY <1>0, Zenon DEF Jobs, Typed, TypeOK
    <2> QED BY <1>0, <1>1, <2>1, QuestionAsked, Zenon
  <1>2. CASE Return("unresolved") /\ UNCHANGED dns
    <2>1. ~dns.active
      BY Zenon DEF FallbackHopWaitEnds, QuestionsNumbered
    <2> QED BY <1>2, <2>1, AnswerReturn, Zenon
  <1> QED BY <1>1, <1>2, Zenon DEF FallbackHopWaitEnds

\* A ping asks no question.
LEMMA AnswerPings ==
    ASSUME Typed, QuestionsNumbered, AnswerIsOwn, PingHopWaitEnds \/ EchoWaitEnds
    PROVE  QuestionsNumbered' /\ AnswerIsOwn'
  <1>0. ~dns.active /\ UNCHANGED dns
    BY Zenon DEF PingHopWaitEnds, EchoWaitEnds, QuestionsNumbered
  <1>1. job'.query = job.query /\ pc' # "arp_dns"
    BY QuestionIds, Zenon DEF PingHopWaitEnds, EchoWaitEnds, SendEcho, Return, Jobs
  <1>2. \A q \in air' : q.kind = "question" => q \in air
    BY NotAQuestion, Zenon DEF PingHopWaitEnds, EchoWaitEnds, SendEcho, Return
  <1> QED BY <1>0, <1>1, <1>2, Zenon DEF QuestionsNumbered, AnswerIsOwn

\* Every step keeps the answers to their own questions.
LEMMA AnswerNext ==
    ASSUME Typed, QuestionsNumbered, AnswerIsOwn, [Next]_vars
    PROVE  QuestionsNumbered' /\ AnswerIsOwn'
  <1>1. CASE UNCHANGED vars
    BY <1>1, Zenon DEF vars, QuestionsNumbered, AnswerIsOwn
  <1>2. CASE Next
    BY <1>2, AnswerNetPoll, AnswerDhcp, AnswerCalls, AnswerDnsHopWaitEnds, AnswerAnswerWaitEnds,
       AnswerFallbackHopWaitEnds, AnswerPings, Zenon DEF Next, WaitEnds
  <1> QED BY <1>1, <1>2, Zenon

\* Whatever is lost, late, repeated or reordered, and however many calls have
\* been made, the address NetResolve returns answers the question its buffer
\* holds: the fresh id of every attempt (net.c:868, :895) is enough.
THEOREM AnswersAreOwn == Spec => []AnswerIsOwn
  <1>1. Init => QuestionsNumbered /\ AnswerIsOwn
    BY DEF Init, QuestionsNumbered, AnswerIsOwn
  <1> QED BY TypedInit, TypedNext, AnswerNext, <1>1, PTL DEF Spec

-----------------------------------------------------------------------------
(* Echoes.  The argument is the one for answers, with SendEcho as the only *)
(* step that adds an echo request.                                         *)

LEMMA NotAnEcho ==
    ASSUME NEW k, NEW i, NEW a, NEW v, k # "echo_request", send(Frame(k, i, a, v))
    PROVE  \A q \in air' : q.kind = "echo_request" => q \in air
  BY FrameFields DEF send

\* Echo requests are numbered.
LEMMA EchoIds ==
    ASSUME Typed
    PROVE  /\ ping \in [seq : Nat, got : BOOLEAN, from : Hosts \cup {None}, replies : Nat]
           /\ job \in Jobs
           /\ \A q \in air : q.kind = "echo_request" => q.id \in Nat
  BY DEF Typed, TypeOK, Frames

\* Every step outside the echo loop.
LEMMA EchoElsewhere ==
    ASSUME Typed, EchoesNumbered, EchoIsOwn, UNCHANGED ping,
           \A q \in air' : q.kind = "echo_request" => q \in air,
           pc # "echo", pc' # "echo", job'.status # "replied"
    PROVE  EchoesNumbered' /\ EchoIsOwn'
  BY Zenon DEF EchoesNumbered, EchoIsOwn

\* A reply is counted only for the request last sent, and from its target.
LEMMA EchoNetPoll ==
    ASSUME Typed, EchoesNumbered, EchoIsOwn, NetPoll
    PROVE  EchoesNumbered' /\ EchoIsOwn'
  <1> PICK f \in FromServers \cup FromHosts \cup FromNameServers :
          handle_arp(f) \/ handle_echo(f) \/ handle_dns_response(f) \/ handle_dhcp(f)
    BY Zenon DEF NetPoll
  <1> UNCHANGED <<pc, air, job>> /\ pc # "idle"
    BY Zenon DEF NetPoll, Waits
  <1>1. CASE UNCHANGED ping
    BY <1>1, Zenon DEF EchoesNumbered, EchoIsOwn
  <1>2. CASE handle_echo(f) /\ f.id = ping.seq
    <2>1. PICK q \in air : q.kind = "echo_request" /\ q.id = f.id /\ q.addr = f.addr
      BY <1>2, Inbound, Zenon DEF handle_echo, Typed
    <2>2. pc = "echo" /\ f.addr = job.target
      BY <1>2, <2>1, Zenon DEF EchoesNumbered
    <2>3. ping'.seq = ping.seq /\ ping'.from = job.target /\ ping'.replies = ping.replies
      BY <1>2, <2>2, EchoIds, Zenon DEF handle_echo
    <2> QED BY <2>2, <2>3, Zenon DEF EchoesNumbered, EchoIsOwn
  <1> QED BY <1>1, <1>2, Zenon DEF handle_arp, handle_echo, handle_dns_response, handle_dhcp

\* Bringing the card up sends no echo.
LEMMA EchoNetInit ==
    ASSUME Typed, EchoesNumbered, EchoIsOwn, NEW found \in BOOLEAN, NetInit(found)
    PROVE  EchoesNumbered' /\ EchoIsOwn'
  <1>1. /\ UNCHANGED <<ping, job>> /\ pc = "off" /\ pc' # "echo"
        /\ job.status # "replied"
    BY Zenon DEF NetInit, EchoesNumbered
  <1>2. \A q \in air' : q.kind = "echo_request" => q \in air
    BY NotAnEcho, Zenon DEF NetInit
  <1> QED BY <1>1, <1>2, EchoElsewhere, Zenon

\* Neither do the waits for a lease.
LEMMA EchoDhcpWaits ==
    ASSUME Typed, EchoesNumbered, EchoIsOwn, OfferWaitEnds \/ AckWaitEnds
    PROVE  EchoesNumbered' /\ EchoIsOwn'
  <1>1. UNCHANGED <<ping, job>> /\ pc \in {"offer", "ack"} /\ job.status # "replied"
    BY Zenon DEF OfferWaitEnds, AckWaitEnds, EchoesNumbered
  <1>2. pc' # "echo"
    BY Zenon DEF OfferWaitEnds, AckWaitEnds, NextAttempt
  <1>3. \A q \in air' : q.kind = "echo_request" => q \in air
    BY NotAnEcho, Zenon DEF OfferWaitEnds, AckWaitEnds, NextAttempt
  <1> QED BY <1>1, <1>2, <1>3, EchoElsewhere, Zenon

\* Beginning a call keeps the echoes to their own requests.
LEMMA EchoCalls ==
    ASSUME Typed, EchoesNumbered, EchoIsOwn,
           (\E name \in Names : NetResolve(name) \/ NetPingName(name))
              \/ (\E ip \in Hosts : NetPingAddress(ip))
    PROVE  EchoesNumbered' /\ EchoIsOwn'
  <1>1. UNCHANGED ping /\ pc = "idle" /\ pc' # "echo"
    BY Zenon DEF NetResolve, NetPingName, NetPingAddress, StartResolve, StartPing, AskForHop
  <1>2. job'.status # "replied"
    <2>1. \A op \in {"resolve", "ping"} : NewCall(op) \in Jobs /\ NewCall(op).status = "running"
      BY EchoIds, Zenon DEF NewCall, Jobs, Statuses
    <2>2. \A j \in Jobs : StartResolve(j) /\ j.status = "running" => job'.status # "replied"
      BY Zenon DEF StartResolve, AskForHop, Jobs
    <2>3. \A op \in {"resolve", "ping"}, name \in Names :
             /\ [NewCall(op) EXCEPT !.name = name] \in Jobs
             /\ [NewCall(op) EXCEPT !.name = name].status = "running"
      BY <2>1 DEF Jobs
    <2>4. CASE \E name \in Names : NetResolve(name) \/ NetPingName(name)
      BY <2>2, <2>3, <2>4, Zenon DEF NetResolve, NetPingName
    <2>5. CASE \E ip \in Hosts : NetPingAddress(ip)
      BY <2>1, <2>5, Zenon DEF NetPingAddress, StartPing, AskForHop, Jobs
    <2> QED BY <2>4, <2>5, Zenon
  <1>3. \A q \in air' : q.kind = "echo_request" => q \in air
    BY NotAnEcho, Zenon DEF NetResolve, NetPingName, NetPingAddress, StartResolve, StartPing, AskForHop
  <1> QED BY <1>1, <1>2, <1>3, EchoElsewhere, Zenon

\* Resolving the name of a target sends no echo.
LEMMA EchoNameWaits ==
    ASSUME Typed, EchoesNumbered, EchoIsOwn,
           DnsHopWaitEnds \/ FallbackHopWaitEnds
              \/ AnswerWaitEnds("dns") \/ AnswerWaitEnds("fallback")
    PROVE  EchoesNumbered' /\ EchoIsOwn'
  <1>1. UNCHANGED ping /\ pc \notin {"echo", "idle"} /\ pc' # "echo"
    BY Zenon DEF DnsHopWaitEnds, FallbackHopWaitEnds, AnswerWaitEnds, Fallback, Resolved, Return,
       AskForHop, SendQuestion
  <1>2. job'.status # "replied"
    <2>1. job.status # "replied" /\ job \in Jobs
      BY <1>1, EchoIds, Zenon DEF EchoesNumbered
    <2> QED BY <2>1, Zenon DEF DnsHopWaitEnds, FallbackHopWaitEnds, AnswerWaitEnds, Fallback, Resolved,
       Return, AskForHop, SendQuestion, Jobs
  <1>3. \A q \in air' : q.kind = "echo_request" => q \in air
    BY NotAnEcho, Zenon DEF DnsHopWaitEnds, FallbackHopWaitEnds, AnswerWaitEnds, Fallback, Resolved,
       Return, AskForHop, SendQuestion
  <1> QED BY <1>1, <1>2, <1>3, EchoElsewhere, Zenon

\* An echo goes out under a number no earlier one has.
LEMMA EchoSent ==
    ASSUME Typed, EchoesNumbered, NEW n, NEW j \in Jobs, j.status # "replied",
           NEW p \in [seq : Nat, got : BOOLEAN, from : Hosts \cup {None}, replies : Nat],
           \A q \in air : q.kind = "echo_request" => q.id < p.seq,
           p.replies > 0 => p.from = j.target,
           SendEcho(n, p, j)
    PROVE  EchoesNumbered' /\ EchoIsOwn'
  <1>1. /\ pc' = "echo" /\ job' = j
        /\ air' = air \cup {Frame("echo_request", p.seq, j.target, j.mac)}
        /\ ping'.seq = p.seq /\ ping'.from = p.from /\ ping'.replies = p.replies /\ ~ping'.got
    BY Zenon DEF SendEcho, send
  <1>2. \A q \in air' : q.kind = "echo_request" =>
            q.id <= p.seq /\ (q.id = p.seq => q.addr = j.target)
    BY <1>1, EchoIds, FrameFields
  <1> QED BY <1>1, <1>2, Zenon DEF EchoesNumbered, EchoIsOwn

\* The first request of a ping has a number no request in the air has.
LEMMA EchoPingHopWaitEnds ==
    ASSUME Typed, EchoesNumbered, EchoIsOwn, PingHopWaitEnds
    PROVE  EchoesNumbered' /\ EchoIsOwn'
  <1>0. pc = "arp_ping" /\ job \in Jobs /\ job.status # "replied"
    BY EchoIds, Zenon DEF PingHopWaitEnds, EchoesNumbered
  <1>1. CASE SendEcho(1, [ping EXCEPT !.replies = 0], [job EXCEPT !.mac = arp.mac])
    <2> DEFINE p == [ping EXCEPT !.replies = 0]
               j == [job EXCEPT !.mac = arp.mac]
    <2>1. /\ p \in [seq : Nat, got : BOOLEAN, from : Hosts \cup {None}, replies : Nat]
          /\ p.seq = ping.seq /\ p.replies = 0
      BY EchoIds, Zenon
    <2>2. j \in Jobs /\ j.status # "replied"
      BY <1>0 DEF Jobs, Typed, TypeOK
    <2>3. \A q \in air : q.kind = "echo_request" => q.id < ping.seq
      BY <1>0, EchoIds DEF EchoesNumbered
    <2>4. SendEcho(1, p, j)
      BY <1>1, Zenon
    <2> HIDE DEF p, j
    <2> QED BY <2>1, <2>2, <2>3, <2>4, EchoSent
  <1>2. CASE Return("no_hop")
    <2>1. job'.status # "replied" /\ UNCHANGED <<ping, air>> /\ pc' # "echo"
      BY <1>0, <1>2, Zenon DEF Return, Jobs
    <2> QED BY <1>0, <2>1, EchoElsewhere, Zenon
  <1> QED BY <1>1, <1>2, Zenon DEF PingHopWaitEnds

\* So has each further one.
LEMMA EchoEchoWaitEnds ==
    ASSUME Typed, EchoesNumbered, EchoIsOwn, EchoWaitEnds
    PROVE  EchoesNumbered' /\ EchoIsOwn'
  <1> DEFINE p == [ping EXCEPT !.replies = @ + IF ping.got THEN 1 ELSE 0, !.seq = @ + 1]
  <1>0. pc = "echo" /\ job \in Jobs /\ job.status # "replied"
    BY EchoIds, Zenon DEF EchoWaitEnds, EchoesNumbered
  <1>1. /\ p \in [seq : Nat, got : BOOLEAN, from : Hosts \cup {None}, replies : Nat]
        /\ p.seq = ping.seq + 1 /\ p.from = ping.from
        /\ p.replies = ping.replies + IF ping.got THEN 1 ELSE 0
    <2>1. /\ ping \in [seq : Nat, got : BOOLEAN, from : Hosts \cup {None}, replies : Nat]
          /\ ping.seq + 1 \in Nat /\ (ping.replies + IF ping.got THEN 1 ELSE 0) \in Nat
      BY EchoIds
    <2> QED BY <2>1, Zenon
  <1>2. p.replies > 0 => p.from = job.target
    <2>1. CASE ping.got
      BY <1>0, <1>1, <2>1, Zenon DEF EchoIsOwn
    <2>2. CASE ~ping.got
      BY <1>0, <1>1, <2>2, EchoIds DEF EchoesNumbered
    <2> QED BY <2>1, <2>2, Zenon
  <1>3. \A q \in air : q.kind = "echo_request" => q.id < p.seq
    BY <1>1, EchoIds DEF EchoesNumbered
  <1>4. CASE SendEcho(attempt + 1, p, job)
    <2> HIDE DEF p
    <2> QED BY <1>0, <1>1, <1>2, <1>3, <1>4, EchoSent, Zenon
  <1>5. CASE /\ ping' = p /\ pc' = "idle" /\ UNCHANGED air
             /\ job' = [job EXCEPT !.status = IF p.replies = 0 THEN "no_reply" ELSE "replied"]
    <2> HIDE DEF p
    <2>1. p.replies \in Nat /\ p.seq \in Nat
      BY <1>1, Zenon
    <2>2. /\ job'.target = job.target
          /\ job'.status = "replied" => p.replies > 0
      BY <1>0, <1>5, <2>1 DEF Jobs
    <2>3. \A q \in air' : q.kind = "echo_request" => q.id <= p.seq /\ q.id # p.seq
      BY <1>3, <1>5, <2>1, EchoIds
    <2> QED BY <1>2, <1>5, <2>2, <2>3, Zenon DEF EchoesNumbered, EchoIsOwn
  <1> QED BY <1>4, <1>5, Zenon DEF EchoWaitEnds

\* Every step keeps the echoes to their own requests.
LEMMA EchoNext ==
    ASSUME Typed, EchoesNumbered, EchoIsOwn, [Next]_vars
    PROVE  EchoesNumbered' /\ EchoIsOwn'
  <1>1. CASE UNCHANGED vars
    BY <1>1, Zenon DEF vars, EchoesNumbered, EchoIsOwn
  <1>2. CASE \E s \in Servers : Acknowledge(s)
    BY <1>2, Zenon DEF Acknowledge, EchoesNumbered, EchoIsOwn
  <1>3. CASE Next /\ ~\E s \in Servers : Acknowledge(s)
    BY <1>3, EchoNetPoll, EchoNetInit, EchoDhcpWaits, EchoCalls, EchoNameWaits,
       EchoPingHopWaitEnds, EchoEchoWaitEnds, ZenonT(30) DEF Next, WaitEnds
  <1> QED BY <1>1, <1>2, <1>3, Zenon

\* A reply NetPing counts comes from the host it pings, whatever echoes of
\* earlier attempts and calls are still on their way: the number goes up after
\* every attempt, answered or not (net.c:1134).
THEOREM EchoesAreOwn == Spec => []EchoIsOwn
  <1>1. Init => EchoesNumbered /\ EchoIsOwn
    BY DEF Init, EchoesNumbered, EchoIsOwn
  <1> QED BY TypedInit, TypedNext, EchoNext, <1>1, PTL DEF Spec

-----------------------------------------------------------------------------
(* Hops.  The hop is looked up once, for the name server or the target of  *)
(* that moment, and every ARP reply overwrites the one-entry cache.        *)

\* A frame does not change where a call sends to.
LEMMA HopNetPoll ==
    ASSUME Typed, HopKept, GoesToNextHop, NetPoll
    PROVE  HopKept' /\ GoesToNextHop'
  <1> PICK f \in FromServers \cup FromHosts \cup FromNameServers :
          handle_arp(f) \/ handle_echo(f) \/ handle_dns_response(f) \/ handle_dhcp(f)
    BY Zenon DEF NetPoll
  <1> UNCHANGED <<pc, air, job>> /\ TypeOK
    BY Zenon DEF NetPoll, Typed
  <1>1. CASE handle_arp(f)
    BY <1>1, Inbound, Zenon DEF handle_arp, HopKept, GoesToNextHop
  <1>2. CASE UNCHANGED arp
    BY <1>2, Zenon DEF HopKept, GoesToNextHop
  <1> QED BY <1>1, <1>2, Zenon DEF handle_echo, handle_dns_response, handle_dhcp

\* The waits for a lease send nothing through a hop.
LEMMA HopDhcp ==
    ASSUME Typed, HopKept, GoesToNextHop,
           (\E s \in Servers : Acknowledge(s)) \/ (\E found \in BOOLEAN : NetInit(found))
              \/ OfferWaitEnds \/ AckWaitEnds
    PROVE  HopKept' /\ GoesToNextHop'
  <1>1. CASE \E s \in Servers : Acknowledge(s)
    BY <1>1, Zenon DEF Acknowledge, HopKept, GoesToNextHop
  <1>2. CASE \E found \in BOOLEAN : NetInit(found)
    <2>1. UNCHANGED <<arp, job>> /\ pc' \in {"idle", "offer"} /\ nic'.dns \in {None, nic.dns}
      BY <1>2, Zenon DEF NetInit, Typed, TypeOK
    <2> QED BY <2>1, Zenon DEF HopKept, GoesToNextHop
  <1>3. CASE OfferWaitEnds \/ AckWaitEnds
    <2>1. UNCHANGED <<arp, job>> /\ pc' \in {"idle", "offer", "ack"} /\ nic'.dns = nic.dns
      BY <1>3, Zenon DEF OfferWaitEnds, AckWaitEnds, NextAttempt, Typed, TypeOK
    <2> QED BY <2>1, Zenon DEF HopKept, GoesToNextHop
  <1> QED BY <1>1, <1>2, <1>3, Zenon

\* Asking for a hop starts from an empty cache.
LEMMA HopAsked ==
    ASSUME HopKept, NEW wait, NEW j \in Jobs, NEW hop, AskForHop(wait, j, hop),
           \/ wait = "arp_dns" /\ hop = NextHop(j.server)
           \/ wait = "arp_fallback" /\ hop = Router
           \/ wait = "arp_ping" /\ j.target \in Hosts /\ hop = NextHop(j.target)
    PROVE  HopKept' /\ GoesToNextHop'
  <1>1. /\ pc' = wait /\ job'.hop = hop /\ job'.target = j.target /\ job'.server = j.server
        /\ arp'.ip = arp'.mac
    BY Zenon DEF AskForHop, Jobs
  <1> QED BY <1>1, Zenon DEF HopKept, GoesToNextHop

\* Outside the waits nothing is claimed.
LEMMA HopIdle ==
    ASSUME HopKept, pc' = "idle", UNCHANGED <<nic, arp>>
    PROVE  HopKept' /\ GoesToNextHop'
  BY Zenon DEF HopKept, GoesToNextHop

\* A call begins by asking for the hop that its first frame needs.
LEMMA HopCalls ==
    ASSUME Typed, HopKept, GoesToNextHop,
           (\E name \in Names : NetResolve(name) \/ NetPingName(name))
              \/ (\E ip \in Hosts : NetPingAddress(ip))
    PROVE  HopKept' /\ GoesToNextHop'
  <1>1. UNCHANGED nic
    BY Zenon DEF NetResolve, NetPingName, NetPingAddress
  <1>2. \A j \in Jobs : StartResolve(j) => HopKept' /\ GoesToNextHop'
    <2> TAKE j \in Jobs
    <2> HAVE StartResolve(j)
    <2>1. CASE nic.ready /\ nic.dns # None
      <3>1. PICK q \in {j.query, None} :
                AskForHop("arp_dns", [j EXCEPT !.query = q, !.server = nic.dns], NextHop(nic.dns))
        BY <2>1, Zenon DEF StartResolve
      <3>2. /\ [j EXCEPT !.query = q, !.server = nic.dns] \in Jobs
            /\ [j EXCEPT !.query = q, !.server = nic.dns].server = nic.dns
        BY Zenon DEF Jobs, Typed, TypeOK
      <3> QED BY <3>1, <3>2, HopAsked, Zenon
    <2>2. CASE ~(nic.ready /\ nic.dns # None)
      BY <1>1, <2>2, HopIdle, Zenon DEF StartResolve
    <2> QED BY <2>1, <2>2, Zenon
  <1>3. CASE \E name \in Names : NetResolve(name) \/ NetPingName(name)
    BY <1>2, <1>3, NewCallTyped, Zenon DEF NetResolve, NetPingName
  <1>4. CASE \E ip \in Hosts : NetPingAddress(ip)
    <2>1. PICK ip \in Hosts : NetPingAddress(ip)
      BY <1>4, Zenon
    <2> DEFINE j == [NewCall("ping") EXCEPT !.target = ip]
    <2>2. j \in Jobs /\ j.target = ip
      BY ZenonT(30) DEF NewCall, Typed, TypeOK, Jobs, Statuses
    <2>3. AskForHop("arp_ping", j, NextHop(ip))
      BY <2>1, Zenon DEF NetPingAddress, StartPing
    <2> HIDE DEF j
    <2> QED BY <1>1, <2>2, <2>3, HopAsked, Zenon
  <1> QED BY <1>3, <1>4, Zenon

\* Turning to the fallback server asks for that server's hop.
LEMMA HopFallback ==
    ASSUME Typed, HopKept, Fallback, UNCHANGED nic
    PROVE  HopKept' /\ GoesToNextHop'
  <1>1. CASE AskForHop("arp_fallback", job, Router)
    BY <1>1, HopAsked, Zenon DEF Typed, TypeOK
  <1>2. CASE Return("unresolved")
    BY <1>2, HopIdle, Zenon DEF Return
  <1> QED BY <1>1, <1>2, Zenon DEF Fallback

\* A question goes through the hop of the name server.
LEMMA HopDnsHopWaitEnds ==
    ASSUME Typed, HopKept, GoesToNextHop, DnsHopWaitEnds
    PROVE  HopKept' /\ GoesToNextHop'
  <1>0. pc = "arp_dns" /\ UNCHANGED nic /\ job \in Jobs /\ arp.mac \in Hosts \cup {None}
    BY Zenon DEF DnsHopWaitEnds, Typed, TypeOK
  <1>1. CASE Fallback
    BY <1>0, <1>1, HopFallback, Zenon
  <1>2. CASE pc' = "idle" /\ UNCHANGED arp
    BY <1>0, <1>2, HopIdle, Zenon
  <1>3. CASE /\ HopFound /\ UNCHANGED arp
             /\ SendQuestion("dns", 1, dns.id + 2, [job EXCEPT !.mac = arp.mac, !.query = job.name])
    <2>1. pc' = "dns" /\ job'.mac = arp.mac /\ arp.mac = NextHop(job'.server)
      BY <1>0, <1>3, Zenon DEF SendQuestion, HopFound, HopKept, Jobs
    <2> QED BY <1>0, <1>3, <2>1, Zenon DEF HopKept, GoesToNextHop
  <1> QED BY <1>1, <1>2, <1>3, Zenon DEF DnsHopWaitEnds

\* A repeated question goes through the same hop.
LEMMA HopAnswerWaitEnds ==
    ASSUME Typed, HopKept, GoesToNextHop, NEW wait \in {"dns", "fallback"}, AnswerWaitEnds(wait)
    PROVE  HopKept' /\ GoesToNextHop'
  <1>0. pc = wait /\ UNCHANGED nic /\ job \in Jobs
    BY Zenon DEF AnswerWaitEnds, Typed, TypeOK
  <1>1. CASE SendQuestion(wait, attempt + 1, dns.id + 1, job) /\ UNCHANGED arp
    BY <1>0, <1>1, Zenon DEF SendQuestion, HopKept, GoesToNextHop
  <1>2. CASE dns.result # None /\ Resolved
    <2>1. CASE AskForHop("arp_ping", [job EXCEPT !.target = dns.result], NextHop(dns.result))
      <3>1. dns.result \in Hosts
        BY <1>2, Zenon DEF Typed, TypeOK
      <3>2. /\ [job EXCEPT !.target = dns.result] \in Jobs
            /\ [job EXCEPT !.target = dns.result].target = dns.result
        BY <1>0, <3>1, Zenon DEF Jobs
      <3> QED BY <1>0, <2>1, <3>1, <3>2, HopAsked, Zenon
    <2>2. CASE Return("resolved")
      BY <1>0, <2>2, HopIdle, Zenon DEF Return
    <2> QED BY <1>2, <2>1, <2>2, Zenon DEF Resolved
  <1>3. CASE Fallback \/ Return("unresolved")
    BY <1>0, <1>3, HopFallback, HopIdle, Zenon DEF Return
  <1> QED BY <1>1, <1>2, <1>3, Zenon DEF AnswerWaitEnds

\* A question to the fallback server goes through its hop.
LEMMA HopFallbackHopWaitEnds ==
    ASSUME Typed, HopKept, GoesToNextHop, FallbackHopWaitEnds
    PROVE  HopKept' /\ GoesToNextHop'
  <1>0. pc = "arp_fallback" /\ UNCHANGED nic /\ job \in Jobs /\ arp.mac \in Hosts \cup {None}
    BY Zenon DEF FallbackHopWaitEnds, Typed, TypeOK
  <1>1. CASE /\ HopFound /\ UNCHANGED arp
             /\ SendQuestion("fallback", 1, dns.id + 1, [job EXCEPT !.mac = arp.mac])
    <2>1. pc' = "fallback" /\ job'.mac = Router
      BY <1>0, <1>1, Zenon DEF SendQuestion, HopFound, HopKept, Jobs
    <2> QED BY <1>0, <1>1, <2>1, Zenon DEF HopKept, GoesToNextHop
  <1>2. CASE Return("unresolved")
    BY <1>0, <1>2, HopIdle, Zenon DEF Return
  <1> QED BY <1>1, <1>2, Zenon DEF FallbackHopWaitEnds

\* An echo request goes through the hop of its target.
LEMMA HopPings ==
    ASSUME Typed, HopKept, GoesToNextHop, PingHopWaitEnds \/ EchoWaitEnds
    PROVE  HopKept' /\ GoesToNextHop'
  <1>0. UNCHANGED <<nic, arp>> /\ job \in Jobs /\ arp.mac \in Hosts \cup {None}
    BY Zenon DEF PingHopWaitEnds, EchoWaitEnds, Return, Typed, TypeOK
  <1>1. CASE pc' = "idle"
    BY <1>0, <1>1, HopIdle, Zenon
  <1>2. CASE PingHopWaitEnds /\ pc' # "idle"
    <2>1. /\ pc = "arp_ping" /\ HopFound /\ pc' = "echo"
          /\ job' = [job EXCEPT !.mac = arp.mac]
      BY <1>2, Zenon DEF PingHopWaitEnds, Return, SendEcho
    <2>2. job'.mac = NextHop(job.target) /\ job'.target = job.target /\ job.target \in Hosts
      BY <1>0, <2>1, Zenon DEF HopFound, HopKept, Jobs
    <2> QED BY <1>0, <2>1, <2>2, Zenon DEF HopKept, GoesToNextHop
  <1>3. CASE EchoWaitEnds /\ pc' # "idle"
    <2>1. pc = "echo" /\ pc' = "echo" /\ UNCHANGED job
      BY <1>3, Zenon DEF EchoWaitEnds, SendEcho
    <2> QED BY <1>0, <2>1, Zenon DEF HopKept, GoesToNextHop
  <1> QED BY <1>1, <1>2, <1>3, Zenon

\* Every step keeps the hops right.
LEMMA HopNext ==
    ASSUME Typed, HopKept, GoesToNextHop, [Next]_vars
    PROVE  HopKept' /\ GoesToNextHop'
  <1>1. CASE UNCHANGED vars
    BY <1>1, Zenon DEF vars, HopKept, GoesToNextHop
  <1>2. CASE Next
    BY <1>2, HopNetPoll, HopDhcp, HopCalls, HopDnsHopWaitEnds, HopAnswerWaitEnds,
       HopFallbackHopWaitEnds, HopPings, Zenon DEF Next, WaitEnds
  <1> QED BY <1>1, <1>2, Zenon

\* On any network, questions and echoes go to the hardware address of the next hop
\* that was looked up for them, whatever ARP replies the one-entry cache (net.c:916)
\* has been given and whatever name servers DHCP frames have brought meanwhile.
THEOREM HopsAreRight == Spec => []GoesToNextHop
  <1>1. Init => HopKept /\ GoesToNextHop
    BY DEF Init, HopKept, GoesToNextHop
  <1>2. Typed /\ HopKept /\ GoesToNextHop /\ [Next]_vars => HopKept' /\ GoesToNextHop'
    BY HopNext, Zenon
  <1> QED BY TypedInit, TypedNext, <1>1, <1>2, PTL DEF Spec

=============================================================================
