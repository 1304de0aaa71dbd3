------------------------ MODULE WudfTransportProofs ------------------------
(***************************************************************************)
(* Proofs about WudfTransport, for any number of endpoints, slots, hosts   *)
(* and requests.  IInv says what a live packet, a waiting client and a     *)
(* packet in a host's hands know of each other; each operation preserves   *)
(* it.                                                                     *)
(***************************************************************************)
EXTENDS WudfTransport, TLAPS

\* Before the first registration nothing is live and nothing waits.
LEMMA InitIInv == WudfTransportInit => IInv
<1> SUFFICES ASSUME WudfTransportInit PROVE IInv
  BY Zenon
<1>1. TypeOK
  BY RequestsAssumption, DepthsAssumption, Zenon
  DEF WudfTransportInit, TypeOK, Slot, Packet, NoPacket, Sent, Endpoints
<1>2. SlotsApart /\ SlotsTrue /\ WaitersHeld /\ WaitersApart /\ HostsTrue /\ ClientsTrue
  BY DEF WudfTransportInit, SlotsApart, SlotsTrue, WaitersHeld, WaitersApart, HostsTrue,
         ClientsTrue
<1> QED
  BY <1>1, <1>2, Zenon DEF IInv

\* The fields of a slot, one by one.
LEMMA SlotTypes ==
  ASSUME TypeOK, NEW e \in Endpoints, NEW s \in Slots
  PROVE  /\ slot[e][s] \in Slot
         /\ slot[e][s].ready \in BOOLEAN /\ slot[e][s].completed \in BOOLEAN
         /\ slot[e][s].token \in Nat
         /\ next_token[e] \in Nat
<1>1. slot[e][s] \in Slot /\ next_token[e] \in Nat
  BY Zenon DEF TypeOK
<1> QED
  BY <1>1, Zenon DEF Slot

\* Two live packets of the same request are one packet.
LEMMA RequestsApart ==
  ASSUME SlotsApart, SlotsTrue,
         NEW d \in Endpoints, NEW i \in Slots, used[d], Live(d, i),
         NEW e \in Endpoints, NEW s \in Slots, used[e], Live(e, s),
         slot[d][i].request = slot[e][s].request
  PROVE  d = e /\ i = s
<1>1. SlotTrue(d, slot[d][i]) /\ SlotTrue(e, slot[e][s])
  BY Zenon DEF SlotsTrue
<1>2. [endpoint |-> d, token |-> slot[d][i].token]
        = [endpoint |-> e, token |-> slot[e][s].token]
  BY <1>1, Zenon DEF SlotTrue
<1> QED
  BY <1>2, Zenon DEF SlotsApart

\* Registration makes the endpoint's slots empty, so that it promises nothing of them.
LEMMA RegisterPreserves ==
  ASSUME IInv, NEW e \in Endpoints, WudfTransportRegisterEndpoint(e)
  PROVE  IInv'
<1>0. /\ TypeOK /\ SlotsApart /\ SlotsTrue /\ WaitersHeld /\ WaitersApart /\ HostsTrue
      /\ ClientsTrue
  BY Zenon DEF IInv
<1>f. /\ host' = host /\ client' = client /\ sent' = sent /\ got' = got
      /\ written' = written /\ crossed' = crossed
  BY Zenon DEF WudfTransportRegisterEndpoint, clientVars
<1>s. [s \in Slots |-> [slot[e][s] EXCEPT !.ready = FALSE, !.completed = FALSE]]
        \in [Slots -> Slot]
  <2>1. \A s \in Slots : slot[e][s] \in Slot
    BY <1>0, Zenon DEF TypeOK
  <2>2. ASSUME NEW p \in Slot
        PROVE  [p EXCEPT !.ready = FALSE, !.completed = FALSE] \in Slot
    BY Zenon DEF Slot
  <2> QED
    BY <2>1, <2>2, Zenon
<1>1. TypeOK'
  BY <1>0, <1>f, <1>s, Zenon DEF TypeOK, WudfTransportRegisterEndpoint
<1>2. ~used[e] /\ \A d \in Endpoints \ {e} : used'[d] = used[d]
  BY <1>0, ZenonT(30) DEF TypeOK, WudfTransportRegisterEndpoint
<1>3. \A s \in Slots : ~slot'[e][s].ready /\ ~slot'[e][s].completed
  <2>1. \A s \in Slots :
          slot'[e][s] = [slot[e][s] EXCEPT !.ready = FALSE, !.completed = FALSE]
    BY <1>0, Zenon DEF TypeOK, WudfTransportRegisterEndpoint
  <2>2. \A s \in Slots : slot[e][s] \in Slot
    BY <1>0, Zenon DEF TypeOK
  <2> QED
    BY <2>1, <2>2, ZenonT(30) DEF Slot
<1>4. \A d \in Endpoints \ {e} : slot'[d] = slot[d] /\ next_token'[d] = next_token[d]
  BY <1>0, Zenon DEF TypeOK, WudfTransportRegisterEndpoint
<1>5. SlotsApart'
  BY <1>0, <1>2, <1>3, <1>4 DEF SlotsApart, Live
<1>6. SlotsTrue'
  <2> SUFFICES ASSUME NEW d \in Endpoints, used'[d], NEW s \in Slots
               PROVE  /\ Live(d, s)' => SlotTrue(d, slot[d][s])'
                      /\ slot'[d][s].ready => ReadyTrue(slot[d][s])'
                      /\ slot'[d][s].completed => CompletedTrue(slot[d][s])'
    BY Zenon DEF SlotsTrue
  <2>1. CASE d = e
    BY <2>1, <1>3, Zenon DEF Live
  <2>2. CASE d # e
    BY <2>2, <1>0, <1>f, <1>2, <1>4
    DEF SlotsTrue, Live, SlotTrue, ReadyTrue, CompletedTrue
  <2> QED
    BY <2>1, <2>2, Zenon
<1>7. WaitersHeld'
  <2> SUFFICES ASSUME NEW r \in Requests \ crossed, client[r] = "waiting"
               PROVE  /\ used'[sent[r].endpoint]
                      /\ sent[r].token < next_token'[sent[r].endpoint]
                      /\ \/ \E s \in Slots : Holds(r, s)'
                         \/ \E q \in crossed : client[q] = "done" /\ sent[q] = sent[r]
    BY <1>f, Zenon DEF WaitersHeld
  <2>1. /\ used[sent[r].endpoint]
        /\ sent[r].token < next_token[sent[r].endpoint]
        /\ \/ \E s \in Slots : Holds(r, s)
           \/ \E q \in crossed : client[q] = "done" /\ sent[q] = sent[r]
    BY <1>0, Zenon DEF WaitersHeld
  <2>2. sent[r].endpoint \in Endpoints \ {e}
    BY <1>0, <1>2, <2>1, Zenon DEF TypeOK
  <2>3. \A s \in Slots : Holds(r, s) => Holds(r, s)'
    BY <2>2, <1>4, <1>f DEF Holds
  <2> QED
    BY <2>1, <2>2, <2>3, <1>2, <1>4, Zenon
<1>8. HostsTrue'
  <2> SUFFICES ASSUME NEW h \in Hosts, host[h] # NoPacket, host[h].request \notin crossed
               PROVE  HostTrue(host[h])'
    BY <1>f DEF HostsTrue, HostTrue
  <2>1. HostTrue(host[h])
    BY <1>0, Zenon DEF HostsTrue
  <2>2. host[h].endpoint \in Endpoints \ {e}
    BY <2>1, <1>0, <1>2, Zenon DEF TypeOK, HostTrue
  <2>p. PICK p : p = host[h]
    BY Zenon
  <2>3. /\ slot'[p.endpoint] = slot[p.endpoint] /\ used'[p.endpoint] = used[p.endpoint]
        /\ next_token'[p.endpoint] = next_token[p.endpoint]
    BY <2>2, <2>p, <1>2, <1>4, Zenon
  <2>4. HostTrue(p)'
    BY <2>1, <2>3, <2>p, <1>f, Zenon DEF HostTrue, Live
  <2> QED
    BY <2>4, <2>p, <1>f, Zenon
<1>9. WaitersApart' /\ ClientsTrue'
  BY <1>0, <1>f, Zenon DEF WaitersApart, ClientsTrue
<1> QED
  BY <1>1, <1>5, <1>6, <1>7, <1>8, <1>9, Zenon DEF IInv

\* Unregistration excepts the requests it catches under way, and with them every live
\* packet of the endpoint and every packet hosts have from it.
LEMMA UnregisterPreserves ==
  ASSUME IInv, NEW e \in Endpoints, WudfTransportUnregisterEndpoint(e)
  PROVE  IInv'
<1>0. /\ TypeOK /\ SlotsApart /\ SlotsTrue /\ WaitersHeld /\ WaitersApart /\ HostsTrue
      /\ ClientsTrue
  BY Zenon DEF IInv
<1>f. /\ next_token' = next_token /\ slot' = slot /\ host' = host /\ client' = client
      /\ sent' = sent /\ got' = got /\ written' = written
  BY Zenon DEF WudfTransportUnregisterEndpoint, clientVars
<1>c. crossed' = crossed \cup UnderWay(e)
  BY Zenon DEF WudfTransportUnregisterEndpoint
<1>u. UnderWay(e) \subseteq Requests
  BY Zenon DEF UnderWay
<1>1. TypeOK'
  <2>1. used' \in [Endpoints -> BOOLEAN]
    BY <1>0, Zenon DEF TypeOK, WudfTransportUnregisterEndpoint
  <2> QED
    BY <1>0, <1>f, <1>c, <1>u, <2>1, Zenon DEF TypeOK
<1>2. ~used'[e] /\ \A d \in Endpoints \ {e} : used'[d] = used[d]
  BY <1>0, Zenon DEF TypeOK, WudfTransportUnregisterEndpoint
<1>3. \A r \in UnderWay(e) \ crossed : client[r] # "new" /\ sent[r].endpoint = e
  <2> SUFFICES ASSUME NEW r \in UnderWay(e), r \notin crossed
               PROVE  client[r] # "new" /\ sent[r].endpoint = e
    BY Zenon
  <2>1. CASE client[r] = "waiting" /\ sent[r].endpoint = e
    BY <2>1
  <2>2. ASSUME NEW h \in Hosts, host[h].endpoint = e, host[h].request = r
        PROVE  client[r] # "new" /\ sent[r].endpoint = e
    <3>1. host[h] # NoPacket
      BY <2>2, RequestsAssumption, <1>u DEF NoPacket
    <3>2. HostTrue(host[h])
      BY <3>1, <1>0, Zenon DEF HostsTrue
    <3> QED
      BY <3>2, <2>2, Zenon DEF HostTrue
  <2> QED
    BY <2>1, <2>2, Zenon DEF UnderWay
<1>5. SlotsApart'
  BY <1>0, <1>f, <1>2 DEF SlotsApart, Live
<1>6. SlotsTrue'
  <2> SUFFICES ASSUME NEW d \in Endpoints, used'[d], NEW s \in Slots
               PROVE  /\ Live(d, s)' => SlotTrue(d, slot[d][s])'
                      /\ slot'[d][s].ready => ReadyTrue(slot[d][s])'
                      /\ slot'[d][s].completed => CompletedTrue(slot[d][s])'
    BY Zenon DEF SlotsTrue
  <2>1. d # e /\ used[d] /\ crossed \subseteq crossed'
    BY <1>2, <1>c, Zenon
  <2>2. /\ Live(d, s) => SlotTrue(d, slot[d][s])
        /\ slot[d][s].ready => ReadyTrue(slot[d][s])
        /\ slot[d][s].completed => CompletedTrue(slot[d][s])
    BY <2>1, <1>0, Zenon DEF SlotsTrue
  <2>3. ASSUME SlotTrue(d, slot[d][s]) PROVE slot[d][s].request \notin crossed'
    BY <2>1, <2>3, <1>3, <1>c DEF SlotTrue
  <2>4. Live(d, s)' => SlotTrue(d, slot[d][s])'
    BY <2>2, <2>3, <1>f, Zenon DEF Live, SlotTrue
  <2>5. slot'[d][s].ready => ReadyTrue(slot[d][s])'
    BY <2>2, <1>f, Zenon DEF ReadyTrue
  <2>6. slot'[d][s].completed => CompletedTrue(slot[d][s])'
    BY <2>1, <2>2, <1>f, Zenon DEF CompletedTrue
  <2> QED
    BY <2>4, <2>5, <2>6, Zenon
<1>7. WaitersHeld'
  <2> SUFFICES ASSUME NEW r \in Requests \ crossed', client[r] = "waiting"
               PROVE  /\ used'[sent[r].endpoint]
                      /\ sent[r].token < next_token[sent[r].endpoint]
                      /\ \/ \E s \in Slots : Holds(r, s)'
                         \/ \E q \in crossed' : client[q] = "done" /\ sent[q] = sent[r]
    BY <1>f, Zenon DEF WaitersHeld
  <2>1. /\ used[sent[r].endpoint]
        /\ sent[r].token < next_token[sent[r].endpoint]
        /\ \/ \E s \in Slots : Holds(r, s)
           \/ \E q \in crossed : client[q] = "done" /\ sent[q] = sent[r]
    BY <1>0, <1>c, Zenon DEF WaitersHeld
  <2>2. sent[r].endpoint \in Endpoints \ {e}
    BY <1>0, <1>c, Zenon DEF TypeOK, UnderWay
  <2>3. \A s \in Slots : Holds(r, s) => Holds(r, s)'
    BY <1>f, Zenon DEF Holds
  <2> QED
    BY <2>1, <2>2, <2>3, <1>2, <1>c, Zenon
<1>8. HostsTrue'
  <2> SUFFICES ASSUME NEW h \in Hosts, host[h] # NoPacket, host[h].request \notin crossed'
               PROVE  HostTrue(host[h])'
    BY <1>f DEF HostsTrue, HostTrue
  <2>1. HostTrue(host[h]) /\ host[h].request \in Requests
    BY <1>0, <1>c, Zenon DEF HostsTrue, HostTrue
  <2>2. host[h].endpoint \in Endpoints \ {e}
    BY <2>1, <1>0, <1>c, Zenon DEF TypeOK, UnderWay
  <2> QED
    BY <2>1, <2>2, <1>f, <1>2, <1>c DEF HostTrue, Live
<1>9. WaitersApart'
  BY <1>0, <1>f, <1>c, Zenon DEF WaitersApart
<1>10. ClientsTrue'
  BY <1>0, <1>f, <1>c, <1>3, Zenon DEF ClientsTrue
<1> QED
  BY <1>1, <1>5, <1>6, <1>7, <1>8, <1>9, <1>10, Zenon DEF IInv

\* A submission takes a slot that is not live and a token no packet of this registration
\* has had, in a slot or in a host's hands.
LEMMA SubmitPreserves ==
  ASSUME IInv, NEW r \in Requests, NEW e \in Endpoints, WudfTransportSubmit(r, e)
  PROVE  IInv'
<1>0. /\ TypeOK /\ SlotsApart /\ SlotsTrue /\ WaitersHeld /\ WaitersApart /\ HostsTrue
      /\ ClientsTrue
  BY Zenon DEF IInv
<1>g. client[r] = "new" /\ used[e] /\ r \notin crossed /\ written[r] = 0
  BY <1>0, Zenon DEF WudfTransportSubmit, ClientsTrue
<1>p. PICK s \in Slots : FirstFree(e, s) /\ Fill(r, e, s)
  BY Zenon DEF WudfTransportSubmit
<1>t. PICK t \in Nat : t = next_token[e]
  BY <1>0, Zenon DEF TypeOK
<1>o. PICK old \in Slot : old = slot[e][s]
  BY <1>0, Zenon DEF TypeOK
<1> DEFINE new == [old EXCEPT !.token = t, !.request = r, !.buffer = r, !.ready = TRUE]
<1>n. /\ new \in Slot
      /\ new.ready /\ ~new.completed /\ new.token = t /\ new.request = r /\ new.buffer = r
  <2>1. ~old.completed
    BY <1>p, <1>o, Zenon DEF FirstFree
  <2> QED
    BY <2>1, <1>o, Zenon DEF Slot
<1>f. /\ used' = used /\ host' = host /\ got' = got /\ written' = written
      /\ crossed' = crossed
  BY <1>p, Zenon DEF Fill
<1>2. slot' = [slot EXCEPT ![e][s] = new]
  BY <1>p, <1>t, <1>o, Zenon DEF Fill
<1> HIDE DEF new
<1>3. /\ slot'[e][s] = new
      /\ \A d \in Endpoints, i \in Slots : <<d, i>> # <<e, s>> => slot'[d][i] = slot[d][i]
  BY <1>0, <1>2, Zenon DEF TypeOK
<1>4. /\ next_token'[e] = t + 1
      /\ \A d \in Endpoints \ {e} : next_token'[d] = next_token[d]
  BY <1>0, <1>p, <1>t, Zenon DEF TypeOK, Fill
<1>5. /\ sent'[r] = [endpoint |-> e, token |-> t]
      /\ client'[r] = "waiting"
      /\ \A q \in Requests \ {r} : sent'[q] = sent[q] /\ client'[q] = client[q]
  BY <1>0, <1>p, <1>t, Zenon DEF TypeOK, Fill
<1>6. ~Live(e, s)
  BY <1>p, Zenon DEF FirstFree, Live
<1>7. \A i \in Slots : Live(e, i) => SlotTrue(e, slot[e][i])
  BY <1>0, <1>g, Zenon DEF SlotsTrue
<1>m. ASSUME NEW d \in Endpoints, NEW k \in Nat, k < next_token[d]
      PROVE  k < next_token'[d] /\ (d = e => k # t)
  <2>1. next_token[d] \in Nat
    BY <1>0, Zenon DEF TypeOK
  <2> QED
    BY <2>1, <1>m, <1>t, <1>4
<1>8. TypeOK'
  <2>1. slot' \in [Endpoints -> [Slots -> Slot]]
    BY <1>0, <1>2, <1>n, Zenon DEF TypeOK
  <2>2. next_token' \in [Endpoints -> Nat]
    BY <1>0, <1>p DEF TypeOK, Fill
  <2>3. sent' \in [Requests -> Sent] /\ client' \in [Requests -> {"new", "waiting", "done"}]
    BY <1>0, <1>p, <1>t, Zenon DEF TypeOK, Fill, Sent
  <2>4. ASSUME NEW q \in Requests, client'[q] # "new" PROVE sent'[q].endpoint \in Endpoints
    BY <1>0, <1>5, <2>4 DEF TypeOK
  <2> QED
    BY <1>0, <1>f, <2>1, <2>2, <2>3, <2>4, Zenon DEF TypeOK
<1>9. SlotsApart'
  <2> SUFFICES ASSUME NEW d \in Endpoints, used[d], NEW i \in Slots, NEW j \in Slots,
                      Live(d, i)', Live(d, j)', slot'[d][i].token = slot'[d][j].token
               PROVE  i = j
    BY <1>f, Zenon DEF SlotsApart
  <2>1. CASE d # e \/ (i # s /\ j # s)
    BY <2>1, <1>0, <1>3 DEF SlotsApart, Live
  <2>2. ASSUME NEW k \in Slots \ {s}, Live(e, k)' PROVE slot'[e][k].token # t
    <3>1. slot'[e][k] = slot[e][k] /\ Live(e, k)
      BY <2>2, <1>3, Zenon DEF Live
    <3>2. slot[e][k].token < t /\ slot[e][k].token \in Nat
      BY <3>1, <1>0, <1>7, <1>t, SlotTypes, Zenon DEF SlotTrue
    <3> QED
      BY <3>1, <3>2
  <2> QED
    BY <2>1, <2>2, <1>3, <1>n
<1>10. SlotsTrue'
  <2> SUFFICES ASSUME NEW d \in Endpoints, used[d], NEW i \in Slots
               PROVE  /\ Live(d, i)' => SlotTrue(d, slot[d][i])'
                      /\ slot'[d][i].ready => ReadyTrue(slot[d][i])'
                      /\ slot'[d][i].completed => CompletedTrue(slot[d][i])'
    BY <1>f, Zenon DEF SlotsTrue
  <2>1. CASE d = e /\ i = s
    <3>1. slot'[d][i] = new /\ t < t + 1
      BY <2>1, <1>3
    <3>2. SlotTrue(d, slot[d][i])'
      BY <2>1, <3>1, <1>n, <1>4, <1>5, <1>f, <1>g, Zenon DEF SlotTrue
    <3>4. ReadyTrue(slot[d][i])'
      BY <3>1, <1>n, <1>f, <1>g, Zenon DEF ReadyTrue
    <3> QED
      BY <3>1, <3>2, <3>4, <1>n, Zenon
  <2>2. CASE ~(d = e /\ i = s)
    <3>p. PICK p \in Slot : p = slot[d][i]
      BY <1>0, Zenon DEF TypeOK
    <3>1. slot'[d][i] = p /\ Live(d, i)' = Live(d, i)
      BY <2>2, <3>p, <1>3, Zenon DEF Live
    <3>2. /\ Live(d, i) => SlotTrue(d, p)
          /\ p.ready => ReadyTrue(p)
          /\ p.completed => CompletedTrue(p)
      BY <3>p, <1>0, Zenon DEF SlotsTrue
    <3>3. SlotTrue(d, p) => p.request \in Requests \ {r} /\ p.token < next_token'[d]
      BY <1>g, <1>m, Zenon DEF SlotTrue, Slot
    <3> QED
      BY <3>1, <3>2, <3>3, <1>5, <1>f, Zenon DEF SlotTrue, ReadyTrue, CompletedTrue
  <2> QED
    BY <2>1, <2>2, Zenon
<1>w. ASSUME NEW q \in Requests \ crossed, q # r, client'[q] = "waiting"
      PROVE  /\ client[q] = "waiting" /\ sent'[q] = sent[q]
             /\ sent[q].endpoint \in Endpoints /\ sent[q].token \in Nat
             /\ used[sent[q].endpoint]
             /\ sent[q].token < next_token[sent[q].endpoint]
  <2>1. client[q] = "waiting" /\ sent'[q] = sent[q] /\ sent[q] \in Sent
    BY <1>w, <1>0, <1>5, Zenon DEF TypeOK
  <2>2. sent[q].endpoint \in Endpoints /\ sent[q].token \in Nat
    BY <2>1, <1>0, Zenon DEF TypeOK, Sent
  <2> QED
    BY <2>1, <2>2, <1>0, Zenon DEF WaitersHeld
<1>11. WaitersHeld'
  <2> SUFFICES ASSUME NEW q \in Requests \ crossed, client'[q] = "waiting"
               PROVE  /\ used[sent'[q].endpoint]
                      /\ sent'[q].token < next_token'[sent'[q].endpoint]
                      /\ \/ \E i \in Slots : Holds(q, i)'
                         \/ \E c \in crossed : client'[c] = "done" /\ sent'[c] = sent'[q]
    BY <1>f, Zenon DEF WaitersHeld
  <2>1. CASE q = r
    <3>1. Holds(q, s)'
      BY <2>1, <1>3, <1>5, <1>n DEF Holds
    <3> QED
      BY <2>1, <3>1, <1>4, <1>5, <1>g, <1>t
  <2>2. CASE q # r
    <3>1. /\ client[q] = "waiting" /\ sent'[q] = sent[q]
          /\ sent[q].endpoint \in Endpoints /\ used[sent[q].endpoint]
          /\ sent[q].token < next_token'[sent[q].endpoint]
      BY <2>2, <1>w, <1>m, Zenon
    <3>2. ASSUME NEW i \in Slots, Holds(q, i) PROVE Holds(q, i)'
      <4>1. <<sent[q].endpoint, i>> # <<e, s>>
        BY <3>1, <3>2, <1>0, <1>6, SlotTypes DEF Holds, Live
      <4> QED
        BY <4>1, <3>1, <3>2, <1>3 DEF Holds
    <3>3. ASSUME NEW c \in crossed, client[c] = "done", sent[c] = sent[q]
          PROVE  client'[c] = "done" /\ sent'[c] = sent'[q]
      BY <3>1, <3>3, <1>0, <1>5, <1>g, Zenon DEF TypeOK
    <3> QED
      BY <3>1, <3>2, <3>3, <1>0, Zenon DEF WaitersHeld
  <2> QED
    BY <2>1, <2>2, Zenon
<1>a. WaitersApart'
  <2>1. ASSUME NEW q \in Requests \ crossed, q # r, client'[q] = "waiting"
        PROVE  sent'[q] # sent'[r]
    <3>1. sent[q].endpoint = e => sent[q].token # t
      BY <2>1, <1>w, <1>m, Zenon
    <3> QED
      BY <2>1, <3>1, <1>w, <1>5
  <2> SUFFICES ASSUME NEW q \in Requests \ crossed, NEW u \in Requests \ crossed,
                      client'[q] = "waiting", client'[u] = "waiting", sent'[q] = sent'[u]
               PROVE  q = u
    BY <1>f, Zenon DEF WaitersApart
  <2>2. CASE q = r \/ u = r
    BY <2>1, <2>2, Zenon
  <2>3. CASE q # r /\ u # r
    BY <2>3, <1>0, <1>5, Zenon DEF WaitersApart
  <2> QED
    BY <2>2, <2>3, Zenon
<1>12. HostsTrue'
  <2> SUFFICES ASSUME NEW h \in Hosts, host[h] # NoPacket, host[h].request \notin crossed
               PROVE  HostTrue(host[h])'
    BY <1>f DEF HostsTrue, HostTrue
  <2>p. PICK p \in Packet : p = host[h]
    BY <1>0, Zenon DEF TypeOK
  <2>1. HostTrue(p) /\ p.endpoint \in Endpoints /\ p.token \in Nat /\ p.request \in Requests
    BY <2>p, <1>0, Zenon DEF HostsTrue, HostTrue, TypeOK, Packet
  <2>2. /\ used[p.endpoint] /\ p.token < next_token[p.endpoint] /\ p.request # r
        /\ client[p.request] # "new" /\ sent[p.request].endpoint = p.endpoint
    BY <2>1, <2>p, <1>g, Zenon DEF HostTrue
  <2>3. p.token < next_token'[p.endpoint] /\ (p.endpoint = e => p.token # t)
    BY <2>1, <2>2, <1>m, Zenon
  <2>4. ASSUME NEW i \in Slots, Live(p.endpoint, i)', slot'[p.endpoint][i].token = p.token
        PROVE  slot'[p.endpoint][i].request = p.request
    <3>1. <<p.endpoint, i>> # <<e, s>>
      BY <2>3, <2>4, <1>3, <1>n
    <3>2. slot'[p.endpoint][i] = slot[p.endpoint][i] /\ Live(p.endpoint, i)
      BY <3>1, <2>1, <2>4, <1>3, Zenon DEF Live
    <3> QED
      BY <3>2, <2>1, <2>4, <2>p, Zenon DEF HostTrue
  <2>5. client'[p.request] # "new" /\ sent'[p.request].endpoint = p.endpoint
    BY <2>1, <2>2, <1>5, Zenon
  <2>6. HostTrue(p)'
    BY <2>1, <2>2, <2>3, <2>4, <2>5, <1>f, Zenon DEF HostTrue
  <2> QED
    BY <2>6, <2>p, <1>f, Zenon
<1>13. ClientsTrue'
  BY <1>0, <1>f, <1>5, Zenon DEF ClientsTrue
<1> QED
  BY <1>8, <1>9, <1>10, <1>11, <1>a, <1>12, <1>13, Zenon DEF IInv

\* The packet a host takes is in its slot, under its token.
LEMMA PollPreserves ==
  ASSUME IInv, NEW h \in Hosts, NEW e \in Endpoints, WudfTransportPoll(h, e)
  PROVE  IInv'
<1>0. /\ TypeOK /\ SlotsApart /\ SlotsTrue /\ WaitersHeld /\ WaitersApart /\ HostsTrue
      /\ ClientsTrue
  BY Zenon DEF IInv
<1>f. /\ used' = used /\ next_token' = next_token /\ slot' = slot /\ client' = client
      /\ sent' = sent /\ got' = got /\ written' = written /\ crossed' = crossed
  BY Zenon DEF WudfTransportPoll, queueVars, clientVars
<1>p. PICK s \in Slots :
        /\ slot[e][s].ready
        /\ host' = [host EXCEPT ![h] =
             [endpoint |-> e, token |-> slot[e][s].token, request |-> slot[e][s].request]]
  BY Zenon DEF WudfTransportPoll, FirstReady
<1>o. PICK p \in Slot : p = slot[e][s]
  BY <1>0, Zenon DEF TypeOK
<1>1. used[e] /\ SlotTrue(e, p)
  BY <1>0, <1>p, <1>o, Zenon DEF WudfTransportPoll, SlotsTrue, Live
<1>k. PICK k : k = [endpoint |-> e, token |-> p.token, request |-> p.request]
  BY Zenon
<1>2. /\ k \in Packet /\ k.endpoint = e /\ k.token = p.token /\ k.request = p.request
      /\ host'[h] = k /\ \A g \in Hosts \ {h} : host'[g] = host[g]
  BY <1>0, <1>p, <1>o, <1>k, Zenon DEF TypeOK, Packet, Slot
<1>3. TypeOK'
  <2>1. host' \in [Hosts -> Packet]
    BY <1>0, <1>p, <1>o, <1>k, <1>2, Zenon DEF TypeOK
  <2>2. \A g \in Hosts : host'[g] # NoPacket => host'[g].endpoint \in Endpoints
    BY <1>0, <1>2, Zenon DEF TypeOK
  <2> QED
    BY <1>0, <1>f, <2>1, <2>2, Zenon DEF TypeOK
<1>4. SlotsApart' /\ SlotsTrue'
  BY <1>0, <1>f DEF SlotsApart, SlotsTrue, Live, SlotTrue, ReadyTrue, CompletedTrue
<1>5. WaitersHeld' /\ WaitersApart' /\ ClientsTrue'
  <2>1. \A r, i : Holds(r, i)' = Holds(r, i)
    BY <1>f, Zenon DEF Holds
  <2> QED
    BY <1>0, <1>f, <2>1, Zenon DEF WaitersHeld, WaitersApart, ClientsTrue
<1>6. HostTrue(k)
  <2>1. ASSUME NEW i \in Slots, Live(e, i), slot[e][i].token = p.token PROVE i = s
    BY <2>1, <1>0, <1>1, <1>p, <1>o, Zenon DEF SlotsApart, Live
  <2> QED
    BY <2>1, <1>1, <1>2, <1>o DEF HostTrue, SlotTrue
<1>7. HostsTrue'
  <2> SUFFICES ASSUME NEW g \in Hosts, host'[g] # NoPacket PROVE HostTrue(host[g])'
    BY Zenon DEF HostsTrue
  <2>1. PICK l : l = host'[g]
    BY Zenon
  <2>2. HostTrue(l)
    BY <2>1, <1>0, <1>2, <1>6, Zenon DEF HostsTrue
  <2>3. HostTrue(l)' = HostTrue(l)
    BY <1>f, Zenon DEF HostTrue, Live
  <2> QED
    BY <2>1, <2>2, <2>3, Zenon
<1> QED
  BY <1>3, <1>4, <1>5, <1>7, Zenon DEF IInv

\* What follows when the packet of slot s becomes a completion, with the answer to its
\* own request or to one that was under way at an unregistration.
LEMMA CompletionStored ==
  ASSUME TypeOK, SlotsApart, SlotsTrue, WaitersHeld,
         NEW e \in Endpoints, NEW s \in Slots, used[e], slot[e][s].ready,
         NEW new \in Slot, ~new.ready, new.completed,
         new.token = slot[e][s].token, new.request = slot[e][s].request,
         new.answer = new.request \/ new.answer \in crossed,
         slot' = [slot EXCEPT ![e][s] = new],
         used' = used, next_token' = next_token, client' = client, sent' = sent,
         got' = got, crossed' = crossed,
         \A r \in Requests \ {slot[e][s].request} : written'[r] = written[r]
  PROVE  /\ slot' \in [Endpoints -> [Slots -> Slot]]
         /\ SlotsApart' /\ SlotsTrue' /\ WaitersHeld'
         /\ \A p : p.endpoint \in Endpoints /\ HostTrue(p) => HostTrue(p)'
<1>o. PICK old \in Slot : old = slot[e][s]
  BY Zenon DEF TypeOK
<1>1. old.ready /\ Live(e, s) /\ SlotTrue(e, old)
  BY <1>o, Zenon DEF Live, SlotsTrue
<1>n. new.token = old.token /\ new.request = old.request
  BY <1>o, Zenon
<1>3. /\ slot'[e][s] = new
      /\ \A d \in Endpoints, i \in Slots : <<d, i>> # <<e, s>> => slot'[d][i] = slot[d][i]
  BY Zenon DEF TypeOK
<1>4. slot' \in [Endpoints -> [Slots -> Slot]]
  BY <1>n, Zenon DEF TypeOK
<1>5. \A d \in Endpoints, i \in Slots :
        /\ Live(d, i)' <=> Live(d, i)
        /\ slot'[d][i].token = slot[d][i].token
        /\ slot'[d][i].request = slot[d][i].request
  BY <1>1, <1>3, <1>n, <1>o, Zenon DEF Live
<1>6. SlotsApart'
  BY <1>5 DEF SlotsApart
<1>7. SlotsTrue'
  <2> SUFFICES ASSUME NEW d \in Endpoints, used[d], NEW i \in Slots
               PROVE  /\ Live(d, i)' => SlotTrue(d, slot[d][i])'
                      /\ slot'[d][i].ready => ReadyTrue(slot[d][i])'
                      /\ slot'[d][i].completed => CompletedTrue(slot[d][i])'
    BY Zenon DEF SlotsTrue
  <2>1. CASE d = e /\ i = s
    <3>1. SlotTrue(d, slot[d][i])'
      BY <2>1, <1>1, <1>3, <1>n DEF SlotTrue
    <3>2. CompletedTrue(slot[d][i])'
      BY <2>1, <1>3, <1>n, <1>o DEF CompletedTrue
    <3> QED
      BY <2>1, <3>1, <3>2, <1>3, <1>n, Zenon
  <2>2. CASE ~(d = e /\ i = s)
    <3>p. PICK p \in Slot : p = slot[d][i]
      BY Zenon DEF TypeOK
    <3>1. slot'[d][i] = p /\ (Live(d, i)' <=> Live(d, i))
      BY <2>2, <3>p, <1>3, <1>5, Zenon
    <3>2. /\ Live(d, i) => SlotTrue(d, p)
          /\ p.ready => ReadyTrue(p) /\ SlotTrue(d, p) /\ Live(d, i)
          /\ p.completed => CompletedTrue(p)
      BY <3>p, Zenon DEF SlotsTrue, Live
    <3>3. Live(d, i) => p.request \in Requests \ {old.request}
      BY <3>2, <3>p, <2>2, <1>1, <1>o, RequestsApart, Zenon DEF SlotTrue
    <3>4. Live(d, i)' => SlotTrue(d, slot[d][i])'
      BY <3>1, <3>2, Zenon DEF SlotTrue
    <3>5. slot'[d][i].ready => ReadyTrue(slot[d][i])'
      BY <3>1, <3>2, <3>3, <1>o, Zenon DEF ReadyTrue
    <3>6. slot'[d][i].completed => CompletedTrue(slot[d][i])'
      BY <3>1, <3>2, Zenon DEF CompletedTrue
    <3> QED
      BY <3>4, <3>5, <3>6, Zenon
  <2> QED
    BY <2>1, <2>2, Zenon
<1>8. WaitersHeld'
  <2>1. ASSUME NEW r \in Requests, sent[r].endpoint \in Endpoints, NEW i \in Slots, Holds(r, i)
        PROVE  Holds(r, i)'
    <3>d. PICK d \in Endpoints : d = sent[r].endpoint
      BY <2>1, Zenon
    <3>1. slot[d][i].request = r /\ slot[d][i].token = sent[r].token
      BY <2>1, <3>d, Zenon DEF Holds
    <3>2. slot[d][i].ready # slot[d][i].completed
      BY <2>1, <3>d, Zenon DEF Holds
    <3>3. slot'[d][i].ready # slot'[d][i].completed
      BY <3>2, <1>3, <1>n, Zenon
    <3> QED
      BY <3>1, <3>3, <3>d, <1>5 DEF Holds
  <2> SUFFICES ASSUME NEW r \in Requests \ crossed, client[r] = "waiting"
               PROVE  /\ used[sent[r].endpoint]
                      /\ sent[r].token < next_token[sent[r].endpoint]
                      /\ \/ \E i \in Slots : Holds(r, i)'
                         \/ \E c \in crossed : client[c] = "done" /\ sent[c] = sent[r]
    BY DEF WaitersHeld
  <2>2. sent[r].endpoint \in Endpoints
    BY Zenon DEF TypeOK
  <2>3. /\ used[sent[r].endpoint]
        /\ sent[r].token < next_token[sent[r].endpoint]
        /\ \/ \E i \in Slots : Holds(r, i)
           \/ \E c \in crossed : client[c] = "done" /\ sent[c] = sent[r]
    BY Zenon DEF WaitersHeld
  <2> QED
    BY <2>1, <2>2, <2>3, Zenon
<1>9. ASSUME NEW p, p.endpoint \in Endpoints, HostTrue(p) PROVE HostTrue(p)'
  BY <1>9, <1>5 DEF HostTrue
<1> QED
  BY <1>4, <1>6, <1>7, <1>8, <1>9, Zenon

\* A packet without a driver to call is answered as its own.
LEMMA RejectPreserves ==
  ASSUME IInv, NEW h \in Hosts, NEW e \in Endpoints, RejectPacket(h, e)
  PROVE  IInv'
<1>0. /\ TypeOK /\ SlotsApart /\ SlotsTrue /\ WaitersHeld /\ WaitersApart /\ HostsTrue
      /\ ClientsTrue
  BY Zenon DEF IInv
<1>f. /\ used' = used /\ next_token' = next_token /\ host' = host /\ client' = client
      /\ sent' = sent /\ got' = got /\ written' = written /\ crossed' = crossed
  BY Zenon DEF RejectPacket, clientVars
<1>p. PICK s \in Slots :
        /\ slot[e][s].ready
        /\ slot' = [slot EXCEPT ![e][s] =
             [@ EXCEPT !.answer = slot[e][s].request, !.buffer = Nobody,
                       !.completed = TRUE, !.ready = FALSE]]
  BY Zenon DEF RejectPacket, FirstReady
<1>a. PICK a \in Requests \cup {Nobody} : a = slot[e][s].request
  BY <1>0, SlotTypes, Zenon DEF Slot
<1>1. used[e]
  BY Zenon DEF RejectPacket
<1>n. PICK new \in Slot : new = [slot[e][s] EXCEPT !.answer = a, !.buffer = Nobody,
                                                   !.completed = TRUE, !.ready = FALSE]
  BY <1>0, SlotTypes, Zenon DEF Slot
<1>r. /\ ~new.ready /\ new.completed /\ new.token = slot[e][s].token
      /\ new.request = slot[e][s].request /\ new.answer = a
  BY <1>0, <1>n, SlotTypes, Zenon DEF Slot
<1>s. slot' = [slot EXCEPT ![e][s] = new]
  BY <1>p, <1>a, <1>n, Zenon
<1>2. /\ slot' \in [Endpoints -> [Slots -> Slot]]
      /\ SlotsApart' /\ SlotsTrue' /\ WaitersHeld'
      /\ \A p : p.endpoint \in Endpoints /\ HostTrue(p) => HostTrue(p)'
  <2>1. slot[e][s].ready /\ new.answer = new.request
    BY <1>p, <1>a, <1>r, Zenon
  <2>2. \A r \in Requests \ {slot[e][s].request} : written'[r] = written[r]
    BY <1>f, Zenon
  <2> QED
    BY <1>0, <1>1, <2>1, <2>2, <1>r, <1>s, <1>f, CompletionStored, ZenonT(30)
<1>3. TypeOK'
  BY <1>0, <1>f, <1>2, Zenon DEF TypeOK
<1>4. WaitersApart' /\ ClientsTrue'
  BY <1>0, <1>f, Zenon DEF WaitersApart, ClientsTrue
<1>5. HostsTrue'
  BY <1>0, <1>2, <1>f, Zenon DEF HostsTrue, TypeOK
<1> QED
  BY <1>2, <1>3, <1>4, <1>5, Zenon DEF IInv

\* A host completes the packet it polled, or finds that it is gone.
LEMMA CompletePreserves ==
  ASSUME IInv, NEW h \in Hosts, WudfTransportComplete(h)
  PROVE  IInv'
<1>0. /\ TypeOK /\ SlotsApart /\ SlotsTrue /\ WaitersHeld /\ WaitersApart /\ HostsTrue
      /\ ClientsTrue
  BY Zenon DEF IInv
<1>f. /\ used' = used /\ next_token' = next_token /\ client' = client
      /\ sent' = sent /\ got' = got /\ crossed' = crossed
      /\ host' = [host EXCEPT ![h] = NoPacket]
  BY Zenon DEF WudfTransportComplete, clientVars
<1>k. PICK k \in Packet : k = host[h]
  BY <1>0, Zenon DEF TypeOK
<1>1. k.endpoint \in Endpoints /\ HostTrue(k)
  BY <1>0, <1>k, Zenon DEF WudfTransportComplete, TypeOK, HostsTrue
<1>2. \A g \in Hosts : host'[g] # NoPacket => g # h /\ host'[g] = host[g]
  BY <1>0, <1>f, Zenon DEF TypeOK
<1>3. /\ host' \in [Hosts -> Packet]
      /\ \A g \in Hosts : host'[g] # NoPacket => host'[g].endpoint \in Endpoints
  <2>1. NoPacket \in Packet
    BY Zenon DEF NoPacket, Packet
  <2> QED
    BY <2>1, <1>0, <1>f, <1>2, Zenon DEF TypeOK
<1>4. WaitersApart'
  BY <1>0, <1>f, Zenon DEF WaitersApart
<1>5. ASSUME NEW s \in Slots, Answers(k, s), Store(k, s)
      PROVE  IInv'
  <2>e. PICK e \in Endpoints : e = k.endpoint
    BY <1>1, Zenon
  <2>1. used[e] /\ slot[e][s].ready /\ slot[e][s].token = k.token /\ Live(e, s)
    BY <1>5, <2>e, Zenon DEF Answers, Live
  <2>2. SlotTrue(e, slot[e][s]) /\ ReadyTrue(slot[e][s])
    BY <1>0, <2>1, Zenon DEF SlotsTrue
  <2>a. PICK a \in Requests \cup {Nobody} : a = k.request
    BY Zenon DEF Packet
  <2>3. a = slot[e][s].request \/ a \in crossed
    BY <1>1, <2>1, <2>e, <2>a, Zenon DEF HostTrue
  <2>q. PICK q \in Requests : q = slot[e][s].request
    BY <2>2, Zenon DEF SlotTrue
  <2>w. written' = [written EXCEPT ![q] = @ + 1]
    BY <1>5, <2>2, <2>e, <2>q, RequestsAssumption, Zenon DEF Store, ReadyTrue
  <2>4. /\ written' \in [Requests -> Nat]
        /\ \A r \in Requests \ {q} : written'[r] = written[r]
    BY <1>0, <2>w DEF TypeOK
  <2>n. PICK new \in Slot : new = [slot[e][s] EXCEPT !.answer = a, !.buffer = Nobody,
                                                     !.completed = TRUE, !.ready = FALSE]
    BY <1>0, SlotTypes, Zenon DEF Slot
  <2>r. /\ ~new.ready /\ new.completed /\ new.token = slot[e][s].token
        /\ new.request = slot[e][s].request /\ new.answer = a
    BY <1>0, <2>n, SlotTypes, Zenon DEF Slot
  <2>s. slot' = [slot EXCEPT ![e][s] = new]
    BY <1>5, <2>e, <2>a, <2>n, Zenon DEF Store
  <2>5. /\ slot' \in [Endpoints -> [Slots -> Slot]]
        /\ SlotsApart' /\ SlotsTrue' /\ WaitersHeld'
        /\ \A p : p.endpoint \in Endpoints /\ HostTrue(p) => HostTrue(p)'
    BY <1>0, <2>1, <2>3, <2>4, <2>a, <2>q, <2>r, <2>s, <1>f, CompletionStored, ZenonT(30)
  <2>6. TypeOK'
    BY <1>0, <1>f, <1>3, <2>4, <2>5, Zenon DEF TypeOK
  <2>7. HostsTrue'
    BY <1>0, <1>2, <1>3, <2>5, Zenon DEF HostsTrue
  <2>8. ClientsTrue'
    <3>1. client[q] = "waiting"
      BY <2>2, <2>q, Zenon DEF SlotTrue
    <3> QED
      BY <1>0, <1>f, <2>4, <3>1 DEF ClientsTrue
  <2> QED
    BY <1>4, <2>5, <2>6, <2>7, <2>8, Zenon DEF IInv
<1>6. ASSUME UNCHANGED <<slot, written>>
      PROVE  IInv'
  <2>1. slot' = slot /\ written' = written
    BY <1>6, Zenon
  <2>2. TypeOK'
    BY <1>0, <1>f, <1>3, <2>1, Zenon DEF TypeOK
  <2>3. SlotsApart' /\ SlotsTrue'
    BY <1>0, <1>f, <2>1 DEF SlotsApart, SlotsTrue, Live, SlotTrue, ReadyTrue, CompletedTrue
  <2>4. WaitersHeld' /\ ClientsTrue'
    <3>1. \A r, i : Holds(r, i)' = Holds(r, i)
      BY <1>f, <2>1, Zenon DEF Holds
    <3> QED
      BY <1>0, <1>f, <2>1, <3>1, Zenon DEF WaitersHeld, ClientsTrue
  <2>5. HostsTrue'
    <3>1. \A p : HostTrue(p)' = HostTrue(p)
      BY <1>f, <2>1, Zenon DEF HostTrue, Live
    <3> QED
      BY <1>0, <1>2, <3>1, Zenon DEF HostsTrue
  <2> QED
    BY <1>4, <2>2, <2>3, <2>4, <2>5, Zenon DEF IInv
<1> QED
  BY <1>5, <1>6, <1>k, Zenon DEF WudfTransportComplete

\* A client that was not under way at an unregistration finds its own packet; another
\* that takes the completion of a later request is the one that request can lose it to.
LEMMA FetchPreserves ==
  ASSUME IInv, NEW r \in Requests, WudfTransportGetCompletion(r)
  PROVE  IInv'
<1>0. /\ TypeOK /\ SlotsApart /\ SlotsTrue /\ WaitersHeld /\ WaitersApart /\ HostsTrue
      /\ ClientsTrue
  BY Zenon DEF IInv
<1>e. PICK e \in Endpoints : e = sent[r].endpoint
  BY <1>0, Zenon DEF TypeOK, WudfTransportGetCompletion
<1>g. client[r] = "waiting" /\ used[e]
  BY <1>e, Zenon DEF WudfTransportGetCompletion
<1>p. PICK s \in Slots :
        /\ slot[e][s].completed /\ slot[e][s].token = sent[r].token
        /\ slot' = [slot EXCEPT ![e][s].completed = FALSE]
        /\ got' = [got EXCEPT ![r] = slot[e][s].answer]
  BY <1>e, Zenon DEF WudfTransportGetCompletion
<1>f. /\ used' = used /\ next_token' = next_token /\ host' = host /\ sent' = sent
      /\ written' = written /\ crossed' = crossed
      /\ client' = [client EXCEPT ![r] = "done"]
  BY Zenon DEF WudfTransportGetCompletion
<1>o. PICK old \in Slot : old = slot[e][s]
  BY <1>0, Zenon DEF TypeOK
<1>1. Live(e, s) /\ SlotTrue(e, old) /\ CompletedTrue(old) /\ ~old.ready
  <2>1. Live(e, s)
    BY <1>p, Zenon DEF Live
  <2>2. SlotTrue(e, old) /\ CompletedTrue(old)
    BY <2>1, <1>0, <1>g, <1>p, <1>o, Zenon DEF SlotsTrue
  <2>3. old.ready \in BOOLEAN /\ old.completed \in BOOLEAN /\ old.completed
    BY <1>o, <1>p, Zenon DEF Slot
  <2> QED
    BY <2>1, <2>2, <2>3 DEF SlotTrue
<1>q. PICK q \in Requests \ crossed : q = old.request
  BY <1>1, Zenon DEF SlotTrue
<1>t. sent[q] = sent[r] /\ client[q] = "waiting"
  <2>1. sent[r] = [endpoint |-> sent[r].endpoint, token |-> sent[r].token]
    BY <1>0 DEF TypeOK, Sent
  <2>2. sent[q] = [endpoint |-> e, token |-> old.token] /\ client[q] = "waiting"
    BY <1>1, <1>q, Zenon DEF SlotTrue
  <2> QED
    BY <2>1, <2>2, <1>e, <1>o, <1>p, Zenon
<1>2. r \notin crossed => q = r
  BY <1>0, <1>g, <1>t, Zenon DEF WaitersApart
<1> DEFINE new == [old EXCEPT !.completed = FALSE]
<1>n. new \in Slot /\ ~new.ready /\ ~new.completed
  BY <1>1, Zenon DEF Slot
<1>3. slot' = [slot EXCEPT ![e][s] = new]
  BY <1>p, <1>o, Zenon
<1> HIDE DEF new
<1>4. /\ slot'[e][s] = new
      /\ \A d \in Endpoints, i \in Slots : <<d, i>> # <<e, s>> => slot'[d][i] = slot[d][i]
  BY <1>0, <1>3, Zenon DEF TypeOK
<1>5. client'[r] = "done" /\ \A t \in Requests \ {r} : client'[t] = client[t]
  BY <1>0, <1>f, Zenon DEF TypeOK
<1>6. got'[r] = old.answer /\ \A t \in Requests \ {r} : got'[t] = got[t]
  BY <1>0, <1>p, <1>o, Zenon DEF TypeOK
<1>7. TypeOK'
  <2>1. slot' \in [Endpoints -> [Slots -> Slot]]
    BY <1>0, <1>3, <1>n, Zenon DEF TypeOK
  <2>2. client' \in [Requests -> {"new", "waiting", "done"}]
    BY <1>0, <1>f, Zenon DEF TypeOK
  <2>3. got' \in [Requests -> Requests \cup {Nobody}]
    BY <1>0, <1>p, <1>o, Zenon DEF TypeOK, Slot
  <2>4. \A t \in Requests : client'[t] # "new" => sent[t].endpoint \in Endpoints
    BY <1>0, <1>5, <1>e, Zenon DEF TypeOK
  <2> QED
    BY <1>0, <1>f, <2>1, <2>2, <2>3, <2>4, Zenon DEF TypeOK
<1>8. ASSUME NEW d \in Endpoints, NEW i \in Slots, Live(d, i)'
      PROVE  <<d, i>> # <<e, s>> /\ slot'[d][i] = slot[d][i] /\ Live(d, i)
  BY <1>8, <1>4, <1>n, Zenon DEF Live
<1>9. SlotsApart'
  <2> SUFFICES ASSUME NEW d \in Endpoints, used[d], NEW i \in Slots, NEW j \in Slots,
                      Live(d, i)', Live(d, j)', slot'[d][i].token = slot'[d][j].token
               PROVE  i = j
    BY <1>f, Zenon DEF SlotsApart
  <2>1. Live(d, i) /\ Live(d, j) /\ slot[d][i].token = slot[d][j].token
    BY <1>8, Zenon
  <2> QED
    BY <2>1, <1>0, Zenon DEF SlotsApart
<1>10. SlotsTrue'
  <2> SUFFICES ASSUME NEW d \in Endpoints, used[d], NEW i \in Slots, Live(d, i)'
               PROVE  /\ SlotTrue(d, slot[d][i])'
                      /\ slot'[d][i].ready => ReadyTrue(slot[d][i])'
                      /\ slot'[d][i].completed => CompletedTrue(slot[d][i])'
    BY <1>f, Zenon DEF SlotsTrue, Live
  <2>p. PICK p \in Slot : p = slot[d][i]
    BY <1>0, Zenon DEF TypeOK
  <2>1. <<d, i>> # <<e, s>> /\ slot'[d][i] = p /\ Live(d, i)
    BY <1>8, <2>p, Zenon
  <2>2. /\ SlotTrue(d, p)
        /\ p.ready => ReadyTrue(p)
        /\ p.completed => CompletedTrue(p)
    BY <1>0, <2>1, <2>p, ZenonT(30) DEF SlotsTrue
  <2>3. p.request \in Requests \ {q}
    BY <2>1, <2>2, <2>p, <1>0, <1>1, <1>g, <1>o, <1>q, RequestsApart DEF SlotTrue
  <2>4. p.request # r
    BY <2>2, <2>3, <1>2, Zenon DEF SlotTrue
  <2>5. client'[p.request] = client[p.request]
    BY <2>3, <2>4, <1>5, Zenon
  <2>6. SlotTrue(d, slot[d][i])'
    BY <2>1, <2>2, <2>5, <1>f, Zenon DEF SlotTrue
  <2> QED
    BY <2>1, <2>2, <2>6, <1>f, Zenon DEF ReadyTrue, CompletedTrue
<1>11. WaitersHeld'
  <2> SUFFICES ASSUME NEW t \in Requests \ crossed, client'[t] = "waiting"
               PROVE  /\ used[sent[t].endpoint]
                      /\ sent[t].token < next_token[sent[t].endpoint]
                      /\ \/ \E i \in Slots : Holds(t, i)'
                         \/ \E c \in crossed : client'[c] = "done" /\ sent[c] = sent[t]
    BY <1>f, Zenon DEF WaitersHeld
  <2>1. t # r /\ client[t] = "waiting" /\ sent[t].endpoint \in Endpoints
    BY <1>0, <1>5, Zenon DEF TypeOK
  <2>2. /\ used[sent[t].endpoint]
        /\ sent[t].token < next_token[sent[t].endpoint]
        /\ \/ \E i \in Slots : Holds(t, i)
           \/ \E c \in crossed : client[c] = "done" /\ sent[c] = sent[t]
    BY <2>1, <1>0, Zenon DEF WaitersHeld
  <2>3. CASE t = q
    <3>1. r \in crossed /\ client'[r] = "done" /\ sent[r] = sent[t]
      BY <2>1, <2>3, <1>2, <1>5, <1>t, Zenon
    <3> QED
      BY <2>2, <3>1, Zenon
  <2>4. ASSUME t # q, NEW i \in Slots, Holds(t, i) PROVE Holds(t, i)'
    <3>1. <<sent[t].endpoint, i>> # <<e, s>>
      BY <2>4, <1>o, <1>q, Zenon DEF Holds
    <3> QED
      BY <2>1, <2>4, <3>1, <1>4, <1>f DEF Holds
  <2>5. ASSUME NEW c \in crossed, client[c] = "done" PROVE client'[c] = "done"
    BY <2>5, <1>0, <1>5, Zenon DEF TypeOK
  <2> QED
    BY <2>2, <2>3, <2>4, <2>5, Zenon
<1>12. WaitersApart'
  <2>1. \A t \in Requests : client'[t] = "waiting" => client[t] = "waiting"
    BY <1>5, Zenon
  <2> QED
    BY <2>1, <1>0, <1>f, Zenon DEF WaitersApart
<1>13. HostsTrue'
  <2> SUFFICES ASSUME NEW h \in Hosts, host[h] # NoPacket PROVE HostTrue(host[h])'
    BY <1>f, Zenon DEF HostsTrue
  <2>p. PICK p : p = host[h]
    BY Zenon
  <2>1. HostTrue(p) /\ p.endpoint \in Endpoints
    BY <2>p, <1>0, Zenon DEF HostsTrue, TypeOK
  <2>2. ASSUME NEW i \in Slots, Live(p.endpoint, i)'
        PROVE  slot'[p.endpoint][i] = slot[p.endpoint][i] /\ Live(p.endpoint, i)
    BY <2>1, <2>2, <1>8, Zenon
  <2>3. p.request \in Requests /\ client[p.request] # "new" => client'[p.request] # "new"
    BY <1>5, Zenon
  <2>4. HostTrue(p)'
    BY <2>1, <2>2, <2>3, <1>f, Zenon DEF HostTrue
  <2> QED
    BY <2>4, <2>p, <1>f, Zenon
<1>14. ClientsTrue'
  <2> SUFFICES ASSUME NEW t \in Requests
               PROVE  /\ client'[t] = "new" => t \notin crossed /\ written[t] = 0
                      /\ client'[t] = "done" /\ t \notin crossed =>
                           got'[t] = t \/ got'[t] \in crossed
    BY <1>f, Zenon DEF ClientsTrue
  <2>1. CASE t = r
    BY <2>1, <1>1, <1>2, <1>5, <1>6, <1>q, Zenon DEF CompletedTrue
  <2>2. CASE t # r
    BY <2>2, <1>0, <1>5, <1>6, Zenon DEF ClientsTrue
  <2> QED
    BY <2>1, <2>2, Zenon
<1> QED
  BY <1>7, <1>9, <1>10, <1>11, <1>12, <1>13, <1>14, Zenon DEF IInv

\* Every step of the transport, its clients and its hosts preserves the invariant.
LEMMA StepPreserves == IInv /\ [Next]_vars => IInv'
<1> SUFFICES ASSUME IInv, [Next]_vars PROVE IInv'
  BY Zenon
<1>1. CASE UNCHANGED vars
  <2>1. /\ used' = used /\ next_token' = next_token /\ slot' = slot /\ host' = host
        /\ client' = client /\ sent' = sent /\ got' = got
        /\ written' = written /\ crossed' = crossed
    BY <1>1, Zenon DEF vars, queueVars, clientVars
  <2>2. TypeOK' = TypeOK
    BY <2>1, Zenon DEF TypeOK
  <2>3. SlotsApart' = SlotsApart
    BY <2>1 DEF SlotsApart, Live
  <2>4. SlotsTrue' = SlotsTrue
    BY <2>1 DEF SlotsTrue, Live, SlotTrue, ReadyTrue, CompletedTrue
  <2>5. WaitersHeld' = WaitersHeld
    <3>1. \A r, s : Holds(r, s)' = Holds(r, s)
      BY <2>1, Zenon DEF Holds
    <3> QED BY <2>1, <3>1, Zenon DEF WaitersHeld
  <2>6. HostsTrue' = HostsTrue
    <3>1. \A p : HostTrue(p)' = HostTrue(p)
      BY <2>1, Zenon DEF HostTrue, Live
    <3> QED BY <2>1, <3>1, Zenon DEF HostsTrue
  <2>7. WaitersApart' = WaitersApart /\ ClientsTrue' = ClientsTrue
    BY <2>1, Zenon DEF WaitersApart, ClientsTrue
  <2> QED
    BY <2>2, <2>3, <2>4, <2>5, <2>6, <2>7, Zenon DEF IInv
<1>2. CASE Next
  BY <1>2, RegisterPreserves, UnregisterPreserves, SubmitPreserves, PollPreserves,
     RejectPreserves, CompletePreserves, FetchPreserves, Zenon DEF Next
<1> QED
  BY <1>1, <1>2, Zenon

\* The inductive invariant holds in every state.
THEOREM Invariance == Spec => []IInv
<1> QED
  BY InitIInv, StepPreserves, PTL DEF Spec

\* Every variable of the transport keeps its type, for any number of endpoints, slots
\* and host threads.
THEOREM TypeCorrect == Spec => []TypeOK
<1>1. IInv => TypeOK
  BY Zenon DEF IInv
<1> QED
  BY <1>1, Invariance, PTL

\* Clients that fetch by token get the answer to their own request, in whatever order
\* slots are reused, polled and completed; the one wrong answer there is, is that to a
\* request that was under way at an unregistration.
THEOREM AnswersAreOwn == Spec => []AnswerIsOwn
<1>1. IInv => AnswerIsOwn
  BY Zenon DEF IInv, ClientsTrue, AnswerIsOwn
<1> QED
  BY <1>1, Invariance, PTL

\* No submission takes the slot of a request that is still waited for, and tokens of live
\* packets differ; only a request under way at an unregistration can take a completion
\* away.
THEOREM NothingIsLost == Spec => []NothingLost
<1>1. ASSUME IInv PROVE NothingLost
  <2> SUFFICES ASSUME NEW r \in Requests \ crossed, client[r] = "waiting"
               PROVE  /\ used[sent[r].endpoint]
                      /\ \/ \E s \in Slots :
                              /\ Holds(r, s)
                              /\ \A i \in Slots \ {s} :
                                   LET p == slot[sent[r].endpoint][i]
                                   IN  p.ready \/ p.completed => p.token # sent[r].token
                         \/ \E q \in crossed : client[q] = "done" /\ sent[q] = sent[r]
    BY Zenon DEF NothingLost
  <2>e. PICK e \in Endpoints : e = sent[r].endpoint
    BY <1>1, Zenon DEF IInv, TypeOK
  <2>u. used[e] /\ (\/ \E s \in Slots : Holds(r, s)
                    \/ \E q \in crossed : client[q] = "done" /\ sent[q] = sent[r])
    BY <1>1, <2>e, Zenon DEF IInv, WaitersHeld
  <2>1. ASSUME NEW s \in Slots, Holds(r, s)
        PROVE  \A i \in Slots \ {s} : Live(e, i) => slot[e][i].token # sent[r].token
    <3>1. slot[e][s].ready \in BOOLEAN /\ slot[e][s].completed \in BOOLEAN
      BY <1>1, SlotTypes, Zenon DEF IInv
    <3>2. Live(e, s) /\ slot[e][s].token = sent[r].token
      BY <2>1, <3>1, <2>e, Zenon DEF Holds, Live
    <3> QED
      BY <1>1, <2>u, <3>2, Zenon DEF IInv, SlotsApart
  <2> QED
    BY <2>u, <2>1, <2>e, Zenon DEF Live
<1> QED
  BY <1>1, Invariance, PTL

\* A buffer is written in no other step than a completion's.
LEMMA OnlyCompletionsWrite ==
  ASSUME NEW r \in Requests, [Next]_vars, written'[r] # written[r]
  PROVE  \E h \in Hosts : host[h] # NoPacket /\ \E s \in Slots :
           Answers(host[h], s) /\ Store(host[h], s)
<1>1. written' # written
  BY Zenon
<1>2. PICK h \in Hosts : WudfTransportComplete(h)
  BY <1>1, Zenon
  DEF Next, vars, WudfTransportRegisterEndpoint, WudfTransportUnregisterEndpoint,
      WudfTransportSubmit, Fill, WudfTransportPoll, RejectPacket, WudfTransportGetCompletion
<1> QED
  BY <1>1, <1>2, Zenon DEF WudfTransportComplete

\* However many hosts complete one packet, and whoever has the endpoint by then, a
\* client's buffer is written once and only while its client waits for it.
THEOREM WritesWhileWaiting == Spec => WrittenWhileWaiting
<1>1. ASSUME IInv, [Next]_vars
      PROVE  [\A r \in Requests : written'[r] # written[r] =>
                client[r] = "waiting" /\ written[r] = 0]_vars
  <2> SUFFICES ASSUME NEW r \in Requests, written'[r] # written[r]
               PROVE  client[r] = "waiting" /\ written[r] = 0
    BY Zenon
  <2>1. PICK h \in Hosts, s \in Slots :
          host[h] # NoPacket /\ Answers(host[h], s) /\ Store(host[h], s)
    BY <1>1, OnlyCompletionsWrite, Zenon
  <2>2. PICK e \in Endpoints : e = host[h].endpoint
    BY <2>1, <1>1, Zenon DEF IInv, TypeOK
  <2>3. used[e] /\ slot[e][s].ready
    BY <2>1, <2>2, Zenon DEF Answers
  <2>4. SlotTrue(e, slot[e][s]) /\ ReadyTrue(slot[e][s])
    BY <1>1, <2>3, Zenon DEF IInv, SlotsTrue, Live
  <2>5. PICK q \in Requests : q = slot[e][s].buffer /\ q = slot[e][s].request
    BY <2>4, Zenon DEF SlotTrue, ReadyTrue
  <2>6. written' = [written EXCEPT ![q] = @ + 1]
    BY <2>1, <2>2, <2>5, RequestsAssumption, Zenon DEF Store
  <2>7. q = r
    BY <2>6, <1>1, Zenon DEF IInv, TypeOK
  <2> QED
    BY <2>4, <2>5, <2>7, Zenon DEF SlotTrue, ReadyTrue
<1> QED
  BY <1>1, Invariance, PTL DEF Spec, WrittenWhileWaiting
=============================================================================
