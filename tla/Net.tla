--------------------------------- MODULE Net ---------------------------------
(***************************************************************************)
(* The protocol half of the network driver (drivers/net/net.c): the DHCP   *)
(* exchange of NetInit, NetResolve and NetPing, over a link that may lose, *)
(* delay, reorder and duplicate frames.  One call runs at a time: the wait *)
(* loops poll the card and never yield, so a call is a chain of waits, and *)
(* pc names the wait the driver is in.  A poll drains the receive ring, so *)
(* any number of frames may be handled before a loop looks at its flag,    *)
(* and a loop may run out of iterations at any point (Timeout).            *)
(*                                                                         *)
(* An address stands for the host that has it, and a hardware address for  *)
(* its owner.  A frame is [kind, id, addr, via]: id is the transaction id  *)
(* or sequence number, addr what the frame is about, via the server or the *)
(* hardware address it goes to or comes from.                              *)
(***************************************************************************)
EXTENDS Integers, FiniteSets

CONSTANTS
    Hosts,          \* the addresses of the network
    Names,          \* host names (never parsed as addresses)
    BadNames,       \* the names dns_encode_name refuses
    AddressOf,      \* the address the name service has for each name
    LocalNet,       \* the hosts ip_same_subnet holds of
    Router,         \* the gateway of the static configuration and of leases
    StaticIp,       \* 10.0.2.15
    PublicDns,      \* 8.8.8.8
    Servers,        \* DHCP servers
    LeaseOf,        \* the address each of them gives this card
    DnsOf,          \* the name server in its options
    None,           \* no address, an all-zero address, an empty buffer
    DhcpAttempts, DnsAttempts, PingAttempts, MaxCalls

ASSUME NetAssumption ==
    /\ BadNames \subseteq Names
    /\ AddressOf \in [Names -> Hosts]
    /\ LocalNet \subseteq Hosts
    /\ {Router, StaticIp, PublicDns} \subseteq Hosts
    /\ LeaseOf \in [Servers -> Hosts]
    /\ DnsOf \in [Servers -> Hosts]
    /\ None \notin Hosts \cup Names \cup Servers
    /\ {DhcpAttempts, DnsAttempts, PingAttempts, MaxCalls} \subseteq Nat \ {0}

VARIABLES
    pc,             \* the wait loop the driver is in, "off" or "idle"
    attempt,        \* the attempt of the retry loop around it
    calls,          \* calls made since boot
    air,            \* the frames sent
    bound,          \* the servers that acknowledged a lease
    nic,            \* nic_ready, nic_ip, nic_dns
    dhcp,           \* dhcp_offer_valid, dhcp_ack_valid, dhcp_offer_ip, dhcp_server_ip;
                    \* history, from: the message dhcp_offer_ip was last taken from
    arp,            \* arp_valid with arp_ip and arp_mac
    dns,            \* dns_query_id, dns_query_active, dns_result_ip
    ping,           \* ping_sequence, ping_got_reply, ping_reply_ip, replies
    job             \* the call: its arguments, locals and result; history, server: the
                    \* name server whose hop NetResolve looked up

vars == <<pc, attempt, calls, air, bound, nic, dhcp, arp, dns, ping, job>>

Frame(kind, id, addr, via) == [kind |-> kind, id |-> id, addr |-> addr, via |-> via]

\* The wait loops, the only places that call NetPoll.
Waits == {"offer", "ack", "arp_dns", "dns", "arp_fallback", "fallback", "arp_ping", "echo"}

NextHop(ip) == IF ip \in LocalNet THEN ip ELSE Router

Init ==
    /\ pc = "off"
    /\ attempt = 0
    /\ calls = 0
    /\ air = {}
    /\ bound = {}
    /\ nic = [ready |-> FALSE, ip |-> StaticIp, dns |-> None]
    /\ dhcp = [offer |-> FALSE, ack |-> FALSE, ip |-> None, server |-> None, from |-> "none"]
    /\ arp = [ip |-> None, mac |-> None]
    /\ dns = [id |-> 20052, active |-> FALSE, result |-> None]
    /\ ping = [seq |-> 1, got |-> FALSE, from |-> None, replies |-> 0]
    /\ job = [op |-> "none", name |-> None, query |-> None, target |-> None,
              server |-> None, hop |-> None, mac |-> None, status |-> "none"]

-----------------------------------------------------------------------------
(* The other stations.  air holds every frame the driver has sent; what is *)
(* on its way back follows from it.  An answer that is never handled is    *)
(* lost (or its request was), one handled late is delayed, one handled     *)
(* twice duplicated, and every order is possible.                          *)

\* The server a REQUEST names acknowledges its own lease; any other request
\* makes it say nothing this driver listens to.
Acknowledge(s) ==
    /\ Frame("request", 0, LeaseOf[s], s) \in air
    /\ bound' = bound \cup {s}
    /\ UNCHANGED <<pc, attempt, calls, air, nic, dhcp, arp, dns, ping, job>>

\* Offers to a DISCOVER and acknowledgements of the DHCP servers.
FromServers ==
    {Frame("offer", 0, LeaseOf[s], s) : s \in {t \in Servers : \E q \in air : q.kind = "discover"}}
    \cup {Frame("ack", 0, LeaseOf[s], s) : s \in bound}

\* A host answers for its own address: with its hardware address, or the echo.
FromHosts ==
    {Frame("is_at", 0, q.addr, q.addr) : q \in {r \in air : r.kind = "who_has"}}
    \cup {Frame("echo_reply", q.id, q.addr, None) : q \in {r \in air : r.kind = "echo_request"}}

\* A name server answers a question it can read.
FromNameServers ==
    {Frame("answer", q.id, AddressOf[q.addr], None) :
        q \in {r \in air : r.kind = "question" /\ r.addr \in Names}}

-----------------------------------------------------------------------------
(* net_handle_frame, called for every frame a poll finds.                  *)

\* Any reply overwrites the one-entry cache, whoever it is from.
handle_arp(f) ==
    /\ f.kind = "is_at"
    /\ arp' = [ip |-> f.addr, mac |-> f.via]
    /\ UNCHANGED <<nic, dhcp, dns, ping>>

handle_echo(f) ==
    /\ f.kind = "echo_reply"
    /\ ping' = IF f.id = ping.seq THEN [ping EXCEPT !.got = TRUE, !.from = f.addr] ELSE ping
    /\ UNCHANGED <<nic, dhcp, arp, dns>>

handle_dns_response(f) ==
    /\ f.kind = "answer"
    /\ dns' = IF dns.active /\ f.id = dns.id
              THEN [dns EXCEPT !.result = f.addr, !.active = FALSE] ELSE dns
    /\ UNCHANGED <<nic, dhcp, arp, ping>>

\* The transaction id is the same for every attempt, so an offer or an
\* acknowledgement of any of them is taken, at any time.
handle_dhcp(f) ==
    /\ f.kind \in {"offer", "ack"}
    /\ dhcp' = [dhcp EXCEPT !.ip = f.addr, !.server = f.via, !.from = f.kind,
                            !.offer = @ \/ f.kind = "offer", !.ack = @ \/ f.kind = "ack"]
    /\ nic' = [nic EXCEPT !.dns = DnsOf[f.via]]
    /\ UNCHANGED <<arp, dns, ping>>

NetPoll ==
    /\ pc \in Waits
    /\ \E f \in FromServers \cup FromHosts \cup FromNameServers :
          handle_arp(f) \/ handle_echo(f) \/ handle_dns_response(f) \/ handle_dhcp(f)
    /\ UNCHANGED <<pc, attempt, calls, air, bound, job>>

-----------------------------------------------------------------------------
(* NetInit.                                                                *)

send(f) == air' = air \cup {f}

\* Faulty variant: an offer is enough for the card to take the address.
TakeOffered(n) ==
    IF n <= DhcpAttempts /\ ~dhcp.ack /\ ~dhcp.offer
    THEN /\ pc' = "offer"
         /\ attempt' = n
         /\ send(Frame("discover", 0, None, None))
         /\ UNCHANGED <<dhcp, nic>>
    ELSE /\ pc' = "idle"
         /\ nic' = IF dhcp.ip # None THEN [nic EXCEPT !.ip = dhcp.ip] ELSE nic
         /\ UNCHANGED <<attempt, air, dhcp>>

\* The loop's third clause and its guard: the next attempt, or the end of
\* the exchange, where an acknowledged lease is put on the card.
NextAttempt(n) ==
    IF n <= DhcpAttempts /\ ~dhcp.ack
    THEN /\ pc' = "offer"
         /\ attempt' = n
         /\ dhcp' = [dhcp EXCEPT !.offer = FALSE]
         /\ send(Frame("discover", 0, None, None))
         /\ UNCHANGED nic
    ELSE /\ pc' = "idle"
         /\ nic' = IF dhcp.ack THEN [nic EXCEPT !.ip = dhcp.ip] ELSE nic
         /\ UNCHANGED <<attempt, air, dhcp>>

\* The probe finds a card it can start, or leaves the network off.
NetInit(found) ==
    /\ pc = "off"
    /\ IF found
       THEN /\ pc' = "offer"
            /\ attempt' = 1
            /\ nic' = [nic EXCEPT !.ready = TRUE, !.dns = None]
            /\ dhcp' = [offer |-> FALSE, ack |-> FALSE, ip |-> None, server |-> None, from |-> "none"]
            /\ send(Frame("discover", 0, None, None))
       ELSE pc' = "idle" /\ UNCHANGED <<attempt, air, nic, dhcp>>
    /\ UNCHANGED <<calls, bound, arp, dns, ping, job>>

\* The wait for an offer ends; without one the attempt is given up.
OfferWaitEnds ==
    /\ pc = "offer"
    /\ IF dhcp.offer
       THEN /\ pc' = "ack"
            /\ send(Frame("request", 0, dhcp.ip, dhcp.server))
            /\ UNCHANGED <<attempt, nic, dhcp>>
       ELSE NextAttempt(attempt + 1)
    /\ UNCHANGED <<calls, bound, arp, dns, ping, job>>

AckWaitEnds ==
    /\ pc = "ack"
    /\ NextAttempt(attempt + 1)
    /\ UNCHANGED <<calls, bound, arp, dns, ping, job>>

-----------------------------------------------------------------------------
(* NetResolve and NetPing.                                                 *)

\* The call returns to its caller.
Return(status) ==
    /\ pc' = "idle"
    /\ job' = [job EXCEPT !.status = status]
    /\ UNCHANGED <<attempt, calls, air, arp, ping>>

\* Clears the cache and asks for the hardware address of the next hop.
AskForHop(wait, j, hop) ==
    /\ pc' = wait
    /\ job' = [j EXCEPT !.hop = hop]
    /\ arp' = [ip |-> None, mac |-> None]
    /\ send(Frame("who_has", 0, hop, None))

\* Faulty variant: whoever answered first is taken for the hop.
HopFoundByAny == arp.ip # None

HopFound == arp.ip = job.hop

\* Faulty variant: the id of the last question is used again.
SendQuestionSameId(wait, n, id, j) ==
    /\ pc' = wait
    /\ attempt' = n
    /\ job' = j
    /\ dns' = [dns EXCEPT !.active = TRUE, !.result = None]
    /\ send(Frame("question", dns.id, j.query, j.mac))

\* One attempt at a question: a fresh id, then the buffer goes out.
SendQuestion(wait, n, id, j) ==
    /\ pc' = wait
    /\ attempt' = n
    /\ job' = j
    /\ dns' = [id |-> id, active |-> TRUE, result |-> None]
    /\ send(Frame("question", id, j.query, j.mac))

\* NetResolve up to its first wait.  The query buffer is an uninitialised
\* local: it holds what the stack held, the last call's query or anything.
StartResolve(j) ==
    IF nic.ready /\ nic.dns # None
    THEN /\ \E q \in {j.query, None} :
               AskForHop("arp_dns", [j EXCEPT !.query = q, !.server = nic.dns], NextHop(nic.dns))
         /\ dns' = [dns EXCEPT !.result = None]
         /\ UNCHANGED <<attempt, ping>>
    ELSE /\ pc' = "idle"
         /\ job' = [j EXCEPT !.status = "unresolved"]
         /\ UNCHANGED <<attempt, air, arp, dns, ping>>

StartPing(target, j) ==
    /\ AskForHop("arp_ping", [j EXCEPT !.target = target], NextHop(target))
    /\ UNCHANGED <<attempt, dns, ping>>

NewCall(op) == [job EXCEPT !.op = op, !.status = "running", !.name = None, !.target = None]

NetResolve(name) ==
    /\ pc = "idle" /\ calls < MaxCalls
    /\ calls' = calls + 1
    /\ StartResolve([NewCall("resolve") EXCEPT !.name = name])
    /\ UNCHANGED <<bound, nic, dhcp>>

NetPingAddress(ip) ==
    /\ pc = "idle" /\ calls < MaxCalls /\ nic.ready
    /\ calls' = calls + 1
    /\ StartPing(ip, NewCall("ping"))
    /\ UNCHANGED <<bound, nic, dhcp>>

NetPingName(name) ==
    /\ pc = "idle" /\ calls < MaxCalls /\ nic.ready
    /\ calls' = calls + 1
    /\ StartResolve([NewCall("ping") EXCEPT !.name = name])
    /\ UNCHANGED <<bound, nic, dhcp>>

\* No answer from the lease's name server: the public one is next, unless
\* it is the same.
Fallback ==
    IF nic.dns # PublicDns
    THEN /\ AskForHop("arp_fallback", job, Router)
         /\ UNCHANGED <<attempt, calls, ping>>
    ELSE Return("unresolved")

\* With the hop known the query is built (one id is drawn for that) and the
\* first attempt made; a name that cannot be encoded ends the call.
DnsHopWaitEnds ==
    /\ pc = "arp_dns"
    /\ \/ /\ ~HopFound
          /\ Fallback
          /\ UNCHANGED dns
       \/ /\ HopFound /\ job.name \in BadNames
          /\ pc' = "idle"
          /\ job' = [job EXCEPT !.mac = arp.mac, !.query = None, !.status = "unresolved"]
          /\ dns' = [dns EXCEPT !.id = @ + 1]
          /\ UNCHANGED <<attempt, calls, air, arp, ping>>
       \/ /\ HopFound /\ job.name \notin BadNames
          /\ SendQuestion("dns", 1, dns.id + 2, [job EXCEPT !.mac = arp.mac, !.query = job.name])
          /\ UNCHANGED <<calls, arp, ping>>
    /\ UNCHANGED <<bound, nic, dhcp>>

\* A call that has its answer: NetResolve returns it, NetPing goes on.
Resolved ==
    \/ /\ job.op = "resolve"
       /\ Return("resolved")
    \/ /\ job.op = "ping"
       /\ AskForHop("arp_ping", [job EXCEPT !.target = dns.result], NextHop(dns.result))
       /\ UNCHANGED <<attempt, calls, ping>>

\* Faulty variant: a repeated question is not counted as an attempt.
AnswerWaitRestarts(wait) ==
    /\ pc = wait
    /\ \/ /\ dns.result # None
          /\ Resolved
          /\ dns' = [dns EXCEPT !.active = FALSE]
       \/ /\ dns.result = None
          /\ pc' = wait
          /\ UNCHANGED <<attempt, calls, air, arp, dns, ping, job>>
    /\ UNCHANGED <<bound, nic, dhcp>>

\* A wait for an answer ends: with it, with another attempt, or for good.
AnswerWaitEnds(wait) ==
    /\ pc = wait
    /\ \/ /\ dns.result # None
          /\ Resolved
          /\ dns' = [dns EXCEPT !.active = FALSE]
       \/ /\ dns.result = None /\ attempt < DnsAttempts
          /\ SendQuestion(wait, attempt + 1, dns.id + 1, job)
          /\ UNCHANGED <<calls, arp, ping>>
       \/ /\ dns.result = None /\ attempt >= DnsAttempts
          /\ IF wait = "dns" THEN Fallback ELSE Return("unresolved")
          /\ dns' = [dns EXCEPT !.active = FALSE]
    /\ UNCHANGED <<bound, nic, dhcp>>

\* The query is not built here: what the buffer holds is sent.
FallbackHopWaitEnds ==
    /\ pc = "arp_fallback"
    /\ \/ /\ HopFound
          /\ SendQuestion("fallback", 1, dns.id + 1, [job EXCEPT !.mac = arp.mac])
          /\ UNCHANGED <<calls, arp, ping>>
       \/ /\ ~HopFound
          /\ Return("unresolved")
          /\ UNCHANGED dns
    /\ UNCHANGED <<bound, nic, dhcp>>

SendEcho(n, p, j) ==
    /\ pc' = "echo"
    /\ attempt' = n
    /\ ping' = [p EXCEPT !.got = FALSE]
    /\ job' = j
    /\ send(Frame("echo_request", p.seq, j.target, j.mac))

PingHopWaitEnds ==
    /\ pc = "arp_ping"
    /\ \/ /\ HopFound
          /\ SendEcho(1, [ping EXCEPT !.replies = 0], [job EXCEPT !.mac = arp.mac])
          /\ UNCHANGED <<calls, arp>>
       \/ /\ ~HopFound
          /\ Return("no_hop")
    /\ UNCHANGED <<bound, nic, dhcp, dns>>

\* Faulty variant: an unanswered attempt leaves the sequence number as it is.
EchoWaitKeepsNumber ==
    /\ pc = "echo"
    /\ LET p == [ping EXCEPT !.replies = @ + IF ping.got THEN 1 ELSE 0,
                             !.seq = @ + IF ping.got THEN 1 ELSE 0]
       IN  \/ /\ attempt < PingAttempts
              /\ SendEcho(attempt + 1, p, job)
              /\ UNCHANGED <<calls, arp>>
           \/ /\ attempt >= PingAttempts
              /\ ping' = p
              /\ pc' = "idle"
              /\ job' = [job EXCEPT !.status = IF p.replies = 0 THEN "no_reply" ELSE "replied"]
              /\ UNCHANGED <<attempt, calls, air, arp>>
    /\ UNCHANGED <<bound, nic, dhcp, dns>>

\* Every attempt draws a new sequence number, answered or not.
EchoWaitEnds ==
    /\ pc = "echo"
    /\ LET p == [ping EXCEPT !.replies = @ + IF ping.got THEN 1 ELSE 0, !.seq = @ + 1]
       IN  \/ /\ attempt < PingAttempts
              /\ SendEcho(attempt + 1, p, job)
              /\ UNCHANGED <<calls, arp>>
           \/ /\ attempt >= PingAttempts
              /\ ping' = p
              /\ pc' = "idle"
              /\ job' = [job EXCEPT !.status = IF p.replies = 0 THEN "no_reply" ELSE "replied"]
              /\ UNCHANGED <<attempt, calls, air, arp>>
    /\ UNCHANGED <<bound, nic, dhcp, dns>>

-----------------------------------------------------------------------------

\* What the driver does by itself once it is in a call.
WaitEnds ==
    \/ OfferWaitEnds \/ AckWaitEnds
    \/ DnsHopWaitEnds \/ AnswerWaitEnds("dns")
    \/ FallbackHopWaitEnds \/ AnswerWaitEnds("fallback")
    \/ PingHopWaitEnds \/ EchoWaitEnds

Next ==
    \/ \E s \in Servers : Acknowledge(s)
    \/ NetPoll
    \/ \E found \in BOOLEAN : NetInit(found)
    \/ \E name \in Names : NetResolve(name) \/ NetPingName(name)
    \/ \E ip \in Hosts : NetPingAddress(ip)
    \/ WaitEnds

\* Every wait loop counts down whatever the network does.
Spec == Init /\ [][Next]_vars /\ WF_vars(WaitEnds)

-----------------------------------------------------------------------------

Frames == [kind : {"discover", "request", "who_has", "question", "echo_request"},
           id : Nat, addr : Hosts \cup Names \cup {None},
           via : Hosts \cup Servers \cup {None}]

Statuses == {"none", "running", "resolved", "unresolved", "no_hop", "no_reply", "replied"}

Jobs == [op : {"none", "resolve", "ping"}, name : Names \cup {None},
         query : Names \cup {None}, target : Hosts \cup {None},
         server : Hosts \cup {None}, hop : Hosts \cup {None}, mac : Hosts \cup {None},
         status : Statuses]

TypeOK ==
    /\ pc \in Waits \cup {"off", "idle"}
    /\ attempt \in Nat /\ calls \in 0 .. MaxCalls
    /\ air \subseteq Frames
    /\ bound \subseteq Servers
    /\ nic \in [ready : BOOLEAN, ip : Hosts, dns : Hosts \cup {None}]
    /\ dhcp \in [offer : BOOLEAN, ack : BOOLEAN, ip : Hosts \cup {None},
                 server : Servers \cup {None}, from : {"none", "offer", "ack"}]
    /\ arp \in [ip : Hosts \cup {None}, mac : Hosts \cup {None}]
    /\ dns \in [id : Nat, active : BOOLEAN, result : Hosts \cup {None}]
    /\ ping \in [seq : Nat, got : BOOLEAN, from : Hosts \cup {None}, replies : Nat]
    /\ job \in Jobs

\* handle_arp takes every reply, so a late one for another address can end a
\* wait; the hardware address a question or an echo goes to is still that of
\* the next hop NetResolve or NetPing looked up: the target's, the gateway for
\* the public name server, and that of the name server there was at the lookup.
\* (A DHCP frame handled after the lookup, net.c:986, changes the address that
\* the question is for, and not the hop it is sent to.)
GoesToNextHop ==
    /\ pc = "dns" => job.mac = NextHop(job.server)
    /\ pc = "fallback" => job.mac = Router
    /\ pc = "echo" => job.mac = NextHop(job.target)

\* "let the DNS transaction ID provide the final association" (net.c:961):
\* an answer delayed past its attempt, or past its call, is never returned for
\* the question asked now.
AnswerIsOwn ==
    dns.result # None => dns.result = AddressOf[job.query]

\* An echo reply that comes after its attempt timed out is not counted for a
\* later attempt nor for another host: a ping that reports replies reports
\* them from the host it was asked to reach.
EchoIsOwn ==
    /\ pc = "echo" /\ ping.got => ping.from = job.target
    /\ job.status = "replied" => ping.from = job.target

\* NetInit puts an address on the card only after some server has acknowledged
\* a lease, whichever attempt's frames get through; and it is a lease its server
\* has acknowledged, unless an OFFER was handled after the last ACK (net.c:991
\* overwrites dhcp_offer_ip with it).
LeaseAcknowledged ==
    [][nic'.ip # nic.ip =>
         /\ bound # {}
         /\ dhcp.from # "offer" => \E s \in bound : nic'.ip = LeaseOf[s]]_vars

\* "keep boot bounded if no DHCP server is present" (net.c:1063), and the same
\* for the two calls: with every frame lost, or every stale frame delivered
\* again and again, the driver comes back.
CallsReturn == (pc # "off") ~> (pc = "idle")

\* What a caller of NetResolve is told: the address returned is that of the
\* name it asked for.
AnswerIsForName ==
    job.status = "resolved" => dns.result = AddressOf[job.name]

-----------------------------------------------------------------------------
\* The rest of the inductive invariant.

\* A lease is acknowledged only by a server's word.
AckSent ==
    /\ dhcp.ack => dhcp.ip \in Hosts /\ bound # {} /\ dhcp.from # "none"
    /\ dhcp.from = "ack" => \E s \in bound : dhcp.ip = LeaseOf[s]

\* The call knows where it is: a name server and its hop while it resolves, a
\* target while it pings, and the hardware address once the hop is found.
HopKept ==
    /\ pc = "arp_dns" => job.hop = NextHop(job.server)
    /\ pc = "arp_fallback" => job.hop = Router
    /\ pc = "arp_ping" => job.hop = NextHop(job.target)
    /\ pc \in {"arp_ping", "echo"} => job.target \in Hosts
    /\ arp.ip = arp.mac

\* No question has an id that is still to be drawn, and while an answer is
\* waited for the question of the current id is the one in the buffer.
QuestionsNumbered ==
    /\ dns.active => pc \in {"dns", "fallback"}
    /\ \A q \in air : q.kind = "question" =>
          /\ q.id <= dns.id
          /\ dns.active /\ q.id = dns.id => q.addr = job.query
    /\ dns.result # None => job.query # None
    /\ pc = "arp_dns" => dns.result = None

\* The same for echo requests: the current number is in flight only while it is
\* waited for.
EchoesNumbered ==
    /\ \A q \in air : q.kind = "echo_request" =>
          /\ q.id <= ping.seq
          /\ q.id = ping.seq => pc = "echo" /\ q.addr = job.target
    /\ pc = "echo" /\ ping.replies > 0 => ping.from = job.target
    /\ job.status = "replied" => pc = "idle"
=============================================================================
