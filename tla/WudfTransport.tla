---------------------------- MODULE WudfTransport ----------------------------
(***************************************************************************)
(* The transport between the kernel and user-mode drivers,                 *)
(* kernel/io/wudf_transport.c: endpoints with a few packet slots each.  A  *)
(* client submits a packet and gets a token; the driver host polls an      *)
(* endpoint, calls the driver with the packet (WudfHostPump of wudfrd.c)   *)
(* and completes the token; the client fetches the completion by token.    *)
(*                                                                         *)
(* The functions of the transport do not yield, so each is one step; the   *)
(* driver's callback may, so WudfHostPump is two: host[h] is the packet    *)
(* its local variable holds in between.  Every umdfhost thread pumps every *)
(* device of the shared wudfrd.dll, so a ready packet may be given to the  *)
(* driver again while the callback for it yields.  What a packet and a     *)
(* completion carry is abstracted to the request it belongs to and         *)
(* answers.                                                                *)
(***************************************************************************)
EXTENDS Naturals, FiniteSets

CONSTANTS
    MAX_ENDPOINTS,   \* WDF_TRANSPORT_MAX_ENDPOINTS (16)
    QUEUE_DEPTH,     \* WDF_TRANSPORT_QUEUE_DEPTH (16)
    Hosts,           \* the threads that run WudfHostPump
    Requests,        \* the submissions clients make, each once: bounds next_token
    Nobody           \* no request

ASSUME DepthsAssumption == MAX_ENDPOINTS \in Nat /\ QUEUE_DEPTH \in Nat
ASSUME RequestsAssumption == Nobody \notin Requests

Endpoints == 1 .. MAX_ENDPOINTS      \* 0 is the failure of registration
Slots == 0 .. QUEUE_DEPTH - 1

Slot == [ready : BOOLEAN, completed : BOOLEAN, token : Nat,
         request : Requests \cup {Nobody},   \* whose packet is in the slot
         buffer : Requests \cup {Nobody},    \* completion_buffer: whose memory it is
         answer : Requests \cup {Nobody}]    \* what the completion is the answer to

Packet == [endpoint : Endpoints \cup {0}, token : Nat, request : Requests \cup {Nobody}]
NoPacket == [endpoint |-> 0, token |-> 0, request |-> Nobody]

Sent == [endpoint : Endpoints \cup {0}, token : Nat]

VARIABLES
    used,         \* endpoints[i].used
    next_token,   \* endpoints[i].next_token
    slot,         \* the arrays of endpoints[i], slot by slot
    host,         \* the packet the driver is called with, per host thread
    client,       \* request -> "new", "waiting" or "done"
    sent,         \* request -> where it was submitted, and its token
    got,          \* request -> what the completion its client fetched answers
    written,      \* history: how often each request's buffer was written
    crossed       \* history: requests that were under way at an unregistration

queueVars == <<used, next_token, slot>>
clientVars == <<client, sent, got>>
vars == <<queueVars, host, clientVars, written, crossed>>

WudfTransportInit ==
    /\ used = [e \in Endpoints |-> FALSE]
    /\ next_token = [e \in Endpoints |-> 0]
    /\ slot = [e \in Endpoints |-> [s \in Slots |->
         [ready |-> FALSE, completed |-> FALSE, token |-> 0,
          request |-> Nobody, buffer |-> Nobody, answer |-> Nobody]]]
    /\ host = [h \in Hosts |-> NoPacket]
    /\ client = [r \in Requests |-> "new"]
    /\ sent = [r \in Requests |-> [endpoint |-> 0, token |-> 0]]
    /\ got = [r \in Requests |-> Nobody]
    /\ written = [r \in Requests |-> 0]
    /\ crossed = {}
-----------------------------------------------------------------------------
\* Faulty variant: what the last owner of the endpoint left in the slots is kept.
RegisterKeepsSlots(e) ==
    /\ ~used[e]
    /\ \A d \in 1 .. e - 1 : used[d]
    /\ used' = [used EXCEPT ![e] = TRUE]
    /\ next_token' = [next_token EXCEPT ![e] = 1]
    /\ UNCHANGED <<slot, host, clientVars, written, crossed>>

\* The first endpoint that is not used; packets are left, but none is ready or completed.
WudfTransportRegisterEndpoint(e) ==
    /\ ~used[e]
    /\ \A d \in 1 .. e - 1 : used[d]
    /\ used' = [used EXCEPT ![e] = TRUE]
    /\ next_token' = [next_token EXCEPT ![e] = 1]
    /\ slot' = [slot EXCEPT ![e] = [s \in Slots |->
         [slot[e][s] EXCEPT !.ready = FALSE, !.completed = FALSE]]]
    /\ UNCHANGED <<host, clientVars, written, crossed>>

\* Requests to the endpoint that clients wait for or hosts work on.
UnderWay(e) ==
    {r \in Requests :
       \/ client[r] = "waiting" /\ sent[r].endpoint = e
       \/ \E h \in Hosts : host[h].endpoint = e /\ host[h].request = r}

\* Only the used flag is cleared.
WudfTransportUnregisterEndpoint(e) ==
    /\ used[e]
    /\ used' = [used EXCEPT ![e] = FALSE]
    /\ crossed' = crossed \cup UnderWay(e)
    /\ UNCHANGED <<next_token, slot, host, clientVars, written>>

\* The slot a submission takes.
FirstFree(e, s) ==
    LET Free(i) == ~slot[e][i].ready /\ ~slot[e][i].completed
    IN  Free(s) /\ \A i \in 0 .. s - 1 : ~Free(i)

\* What is done with the slot that was found.
Fill(r, e, s) ==
    /\ slot' = [slot EXCEPT ![e][s] =
         [@ EXCEPT !.token = next_token[e], !.request = r, !.buffer = r, !.ready = TRUE]]
    /\ next_token' = [next_token EXCEPT ![e] = @ + 1]
    /\ sent' = [sent EXCEPT ![r] = [endpoint |-> e, token |-> next_token[e]]]
    /\ client' = [client EXCEPT ![r] = "waiting"]
    /\ UNCHANGED <<used, host, got, written, crossed>>

\* Faulty variant: a slot with a completion nobody has fetched counts as free.
SubmitOverCompletion(r, e) ==
    /\ client[r] = "new"
    /\ used[e]
    /\ \E s \in Slots :
         /\ ~slot[e][s].ready
         /\ \A i \in 0 .. s - 1 : slot[e][i].ready
         /\ Fill(r, e, s)

\* With every slot taken the submission fails and nothing changes.
WudfTransportSubmit(r, e) ==
    /\ client[r] = "new"
    /\ used[e]
    /\ \E s \in Slots : FirstFree(e, s) /\ Fill(r, e, s)

\* The packet a poll finds; it stays in its slot, ready.
FirstReady(e, s) ==
    slot[e][s].ready /\ \A i \in 0 .. s - 1 : ~slot[e][i].ready

\* A host that is in no callback takes the first ready packet of a device and calls the
\* driver.
WudfTransportPoll(h, e) ==
    /\ host[h] = NoPacket
    /\ used[e]
    /\ \E s \in Slots :
         /\ FirstReady(e, s)
         /\ host' = [host EXCEPT ![h] =
              [endpoint |-> e, token |-> slot[e][s].token, request |-> slot[e][s].request]]
    /\ UNCHANGED <<queueVars, clientVars, written, crossed>>

\* A device whose driver has made no default queue (yet): the driver is not called, and
\* the packet is completed with STATUS_NOT_SUPPORTED and no data for the buffer.
RejectPacket(h, e) ==
    /\ host[h] = NoPacket
    /\ used[e]
    /\ \E s \in Slots :
         /\ FirstReady(e, s)
         /\ slot' = [slot EXCEPT ![e][s] =
              [@ EXCEPT !.answer = slot[e][s].request, !.buffer = Nobody,
                        !.completed = TRUE, !.ready = FALSE]]
    /\ UNCHANGED <<used, next_token, host, clientVars, written, crossed>>

\* The slot a completion of the packet finds: another host may have completed it, and
\* the endpoint may have been unregistered, in the meantime.
Answers(p, s) ==
    LET Match(i) == slot[p.endpoint][i].ready /\ slot[p.endpoint][i].token = p.token
    IN  used[p.endpoint] /\ Match(s) /\ \A i \in 0 .. s - 1 : ~Match(i)

\* The completion is stored in slot s and the client's buffer written.
Store(p, s) ==
    /\ slot' = [slot EXCEPT ![p.endpoint][s] =
         [@ EXCEPT !.answer = p.request, !.buffer = Nobody,
                   !.completed = TRUE, !.ready = FALSE]]
    /\ written' = IF slot[p.endpoint][s].buffer = Nobody THEN written
                  ELSE [written EXCEPT ![slot[p.endpoint][s].buffer] = @ + 1]

\* Faulty variant: the first ready slot is completed, whatever its token.
CompleteFirstReady(h) ==
    /\ host[h] # NoPacket
    /\ used[host[h].endpoint]
    /\ \E s \in Slots : FirstReady(host[h].endpoint, s) /\ Store(host[h], s)
    /\ host' = [host EXCEPT ![h] = NoPacket]
    /\ UNCHANGED <<used, next_token, clientVars, crossed>>

\* The callback has returned.
WudfTransportComplete(h) ==
    /\ host[h] # NoPacket
    /\ \/ \E s \in Slots : Answers(host[h], s) /\ Store(host[h], s)
       \/ /\ \A s \in Slots : ~Answers(host[h], s)
          /\ UNCHANGED <<slot, written>>
    /\ host' = [host EXCEPT ![h] = NoPacket]
    /\ UNCHANGED <<used, next_token, clientVars, crossed>>

\* A client polls for its token until it finds a completion.  One whose endpoint was
\* unregistered polls on, and may find the completion of a later request.
WudfTransportGetCompletion(r) ==
    LET e == sent[r].endpoint
        Match(i) == slot[e][i].completed /\ slot[e][i].token = sent[r].token
    IN  /\ client[r] = "waiting"
        /\ used[e]
        /\ \E s \in Slots :
             /\ Match(s)
             /\ \A i \in 0 .. s - 1 : ~Match(i)
             /\ slot' = [slot EXCEPT ![e][s].completed = FALSE]
             /\ got' = [got EXCEPT ![r] = slot[e][s].answer]
        /\ client' = [client EXCEPT ![r] = "done"]
        /\ UNCHANGED <<used, next_token, host, sent, written, crossed>>

Next ==
    \/ \E e \in Endpoints :
         \/ WudfTransportRegisterEndpoint(e) \/ WudfTransportUnregisterEndpoint(e)
         \/ \E r \in Requests : WudfTransportSubmit(r, e)
         \/ \E h \in Hosts : WudfTransportPoll(h, e) \/ RejectPacket(h, e)
    \/ \E h \in Hosts : WudfTransportComplete(h)
    \/ \E r \in Requests : WudfTransportGetCompletion(r)

Spec == WudfTransportInit /\ [][Next]_vars
-----------------------------------------------------------------------------
\* Every variable has its type.
TypeOK ==
    /\ used \in [Endpoints -> BOOLEAN]
    /\ next_token \in [Endpoints -> Nat]
    /\ slot \in [Endpoints -> [Slots -> Slot]]
    /\ host \in [Hosts -> Packet]
    /\ \A h \in Hosts : host[h] # NoPacket => host[h].endpoint \in Endpoints
    /\ client \in [Requests -> {"new", "waiting", "done"}]
    /\ sent \in [Requests -> Sent]
    /\ \A r \in Requests : client[r] # "new" => sent[r].endpoint \in Endpoints
    /\ got \in [Requests -> Requests \cup {Nobody}]
    /\ written \in [Requests -> Nat]
    /\ crossed \subseteq Requests

\* A client that fetches a completion gets the answer to its own request, in whatever
\* order slots are reused, polled and completed and however many hosts worked on it.
\* The one wrong answer there is, which the tokens that start again at 1 allow, is that
\* to a request that was under way when the endpoint was unregistered; the clients of
\* such requests may get any.
AnswerIsOwn ==
    \A r \in Requests \ crossed :
      client[r] = "done" => got[r] = r \/ got[r] \in crossed

\* Where the packet of a request is.
Holds(r, s) ==
    LET p == slot[sent[r].endpoint][s]
    IN  /\ p.ready # p.completed
        /\ p.request = r
        /\ p.token = sent[r].token

\* WudfTransportSubmit never takes a slot whose completion has not been fetched: the
\* packet of a waiting client is in a slot of its endpoint, ready or completed, and no
\* other live packet of the endpoint has its token.  Requests under way at an
\* unregistration are excepted; only such a one, with the same token at the same
\* endpoint, can take the completion of a later request away.
NothingLost ==
    \A r \in Requests \ crossed : client[r] = "waiting" =>
      /\ used[sent[r].endpoint]
      /\ \/ \E s \in Slots :
              /\ Holds(r, s)
              /\ \A i \in Slots \ {s} :
                   LET p == slot[sent[r].endpoint][i]
                   IN  p.ready \/ p.completed => p.token # sent[r].token
         \/ \E q \in crossed : client[q] = "done" /\ sent[q] = sent[r]

\* A client's buffer is written at most once, and only while its client waits: never
\* after WudfTransportGetCompletion has told the client that it may use or release it,
\* although several hosts may call the driver with one packet, each completes it, and
\* the endpoint may pass to another driver in between.
WrittenWhileWaiting ==
    [][\A r \in Requests : written'[r] # written[r] =>
         client[r] = "waiting" /\ written[r] = 0]_vars
-----------------------------------------------------------------------------
\* The rest of the inductive invariant.

Live(e, s) == slot[e][s].ready \/ slot[e][s].completed

\* Live packets of an endpoint have different tokens.
SlotsApart ==
    \A e \in Endpoints : used[e] =>
      \A s, i \in Slots :
        Live(e, s) /\ Live(e, i) /\ slot[e][s].token = slot[e][i].token => s = i

\* What a live packet says of its request, and the request of it.
SlotTrue(e, p) ==
    /\ p.ready # p.completed
    /\ p.request \in Requests \ crossed
    /\ p.token < next_token[e]
    /\ client[p.request] = "waiting"
    /\ sent[p.request] = [endpoint |-> e, token |-> p.token]

ReadyTrue(p) ==
    /\ p.buffer = p.request
    /\ written[p.request] = 0

CompletedTrue(p) == p.answer = p.request \/ p.answer \in crossed

SlotsTrue ==
    \A e \in Endpoints : used[e] =>
      \A s \in Slots :
        /\ Live(e, s) => SlotTrue(e, slot[e][s])
        /\ slot[e][s].ready => ReadyTrue(slot[e][s])
        /\ slot[e][s].completed => CompletedTrue(slot[e][s])

WaitersHeld ==
    \A r \in Requests \ crossed : client[r] = "waiting" =>
      /\ used[sent[r].endpoint]
      /\ sent[r].token < next_token[sent[r].endpoint]
      /\ \/ \E s \in Slots : Holds(r, s)
         \/ \E q \in crossed : client[q] = "done" /\ sent[q] = sent[r]

WaitersApart ==
    \A r, q \in Requests \ crossed :
      client[r] = "waiting" /\ client[q] = "waiting" /\ sent[r] = sent[q] => r = q

\* The packet a host works on belongs to this registration of its endpoint, and a live
\* packet with its token is the same packet, unless the endpoint was unregistered.
HostTrue(p) ==
    \/ p.request \in crossed
    \/ /\ p.request \in Requests /\ client[p.request] # "new"
       /\ sent[p.request].endpoint = p.endpoint
       /\ used[p.endpoint]
       /\ p.token < next_token[p.endpoint]
       /\ \A s \in Slots :
            Live(p.endpoint, s) /\ slot[p.endpoint][s].token = p.token
              => slot[p.endpoint][s].request = p.request

HostsTrue == \A h \in Hosts : host[h] # NoPacket => HostTrue(host[h])

ClientsTrue ==
    \A r \in Requests :
      /\ client[r] = "new" => r \notin crossed /\ written[r] = 0
      /\ client[r] = "done" /\ r \notin crossed => got[r] = r \/ got[r] \in crossed

IInv ==
    /\ TypeOK
    /\ SlotsApart
    /\ SlotsTrue
    /\ WaitersHeld
    /\ WaitersApart
    /\ HostsTrue
    /\ ClientsTrue
=============================================================================
