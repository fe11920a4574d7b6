-------------------------- MODULE LdGatewayProofs --------------------------
(***************************************************************************)
(* Proofs about LdGateway for every set of connections, every ring capacity *)
(* and every choice of what the environment does.                           *)
(***************************************************************************)
EXTENDS LdGateway, TLAPS

(***************************************************************************)
(* The transmit ring                                                        *)
(***************************************************************************)

\* Inserting into the ring: it stays a ring of payloads within its capacity.
LEMMA InsertType ==
    ASSUME NEW r \in Seq(TxPayload), Len(r) <= Capacity, NEW p \in TxPayload
    PROVE  /\ RingInsert(r, p) \in Seq(TxPayload)
           /\ Len(RingInsert(r, p)) <= Capacity
  BY RingAssumption DEF RingInsert, RingFree

\* Consuming from the ring: what is taken out and what stays are payloads.
LEMMA RestType ==
    ASSUME NEW r \in Seq(TxPayload), Len(r) <= Capacity, RingWaiting(r) # 0
    PROVE  /\ RingOldest(r) \in TxPayload
           /\ RingRest(r) \in Seq(TxPayload)
           /\ Len(RingRest(r)) <= Capacity
  <1>1. r # <<>> /\ Len(r) \in Nat
    BY DEF RingWaiting
  <1> QED
    BY <1>1, RingAssumption DEF RingOldest, RingRest

\* An IDENTIFY adds no heartbeat to the ring.
LEMMA InsertIdentify ==
    ASSUME NEW r \in Seq(TxPayload)
    PROVE  HeartbeatsIn(RingInsert(r, "IDENTIFY")) = HeartbeatsIn(r)
  <1>1. CASE RingFree(r) = 0
    BY <1>1 DEF RingInsert
  <1>2. CASE RingFree(r) # 0
    <2>1. RingInsert(r, "IDENTIFY") = Append(r, "IDENTIFY")
      BY <1>2 DEF RingInsert
    <2>2. HeartbeatsIn(Append(r, "IDENTIFY")) = HeartbeatsIn(r)
      BY DEF HeartbeatsIn
    <2> QED
      BY <2>1, <2>2
  <1> QED
    BY <1>1, <1>2

\* A heartbeat that fits into a ring without one is the only one there.
LEMMA InsertHeartbeat ==
    ASSUME NEW r \in Seq(TxPayload), RingFree(r) # 0, HeartbeatsIn(r) = {}
    PROVE  HeartbeatsIn(RingInsert(r, "HEARTBEAT")) = {Len(r) + 1}
  <1>1. RingInsert(r, "HEARTBEAT") = Append(r, "HEARTBEAT")
    BY DEF RingInsert
  <1>2. \A i \in DOMAIN r : r[i] # "HEARTBEAT"
    BY DEF HeartbeatsIn
  <1>3. HeartbeatsIn(Append(r, "HEARTBEAT")) = {Len(r) + 1}
    BY <1>2 DEF HeartbeatsIn
  <1> QED
    BY <1>1, <1>3

\* Consuming shifts the heartbeats in the ring by one place, and takes the first
\* one out if it was in front.
LEMMA RestHeartbeats ==
    ASSUME NEW r \in Seq(TxPayload), RingWaiting(r) # 0
    PROVE  /\ \A i \in HeartbeatsIn(RingRest(r)) : i \in Nat /\ i >= 1 /\ i + 1 \in HeartbeatsIn(r)
           /\ RingOldest(r) = "HEARTBEAT" => 1 \in HeartbeatsIn(r)
  <1>1. r # <<>> /\ Len(r) \in Nat
    BY DEF RingWaiting
  <1> QED
    BY <1>1 DEF HeartbeatsIn, RingRest, RingOldest

(***************************************************************************)
(* The accounting of heartbeats                                             *)
(***************************************************************************)

\* OneHeartbeatOutstanding, place by place: the form the induction uses.
OneQueued   == \A i, j \in HeartbeatsIn(ring) : i = j
OneSent     == \A v, w \in Wsis : unacked[v] > 0 /\ unacked[w] > 0 => v = w
OneEach     == \A w \in Wsis : unacked[w] <= 1
OneAnswered == \A v, w \in Wsis : rx_message[v] = "ACK" /\ rx_message[w] = "ACK" => v = w
QueuedAlone == HeartbeatsIn(ring) # {} =>
                   hb_count >= 1 /\ \A w \in Wsis : unacked[w] = 0 /\ rx_message[w] # "ACK"
SentAlone   == \A w \in Wsis : unacked[w] > 0 =>
                   hb_count >= 1 /\ \A v \in Wsis : rx_message[v] # "ACK"
AnswerCounted == \A w \in Wsis : rx_message[w] = "ACK" => hb_count >= 1

Accounting ==
    /\ OneQueued /\ OneSent /\ OneEach /\ OneAnswered
    /\ QueuedAlone /\ SentAlone /\ AnswerCounted

\* The two forms say the same of a well-typed state.
LEMMA AccountingMeaning ==
    ASSUME TypeOK, Accounting
    PROVE  OneHeartbeatOutstanding
  <1> USE DEF Accounting
  <1> DEFINE Queued == {<<"queued", i>> : i \in HeartbeatsIn(ring)}
             Sent == {<<"sent", w>> : w \in {v \in Wsis : unacked[v] > 0}}
             Answered == {<<"answered", w>> : w \in {v \in Wsis : rx_message[v] = "ACK"}}
  <1>1. Outstanding = Queued \cup Sent \cup Answered
    BY DEF Outstanding
  <1>2. \A x, y \in Queued : x = y
    BY DEF OneQueued
  <1>3. \A x, y \in Sent : x = y
    BY DEF OneSent
  <1>4. \A x, y \in Answered : x = y
    BY DEF OneAnswered
  <1>5. Queued # {} => hb_count >= 1 /\ Sent = {} /\ Answered = {}
    BY DEF QueuedAlone, TypeOK
  <1>6. Sent # {} => hb_count >= 1 /\ Answered = {}
    BY DEF SentAlone
  <1>7. Answered # {} => hb_count >= 1
    BY DEF AnswerCounted
  <1>8. \A x, y \in Outstanding : x = y
    <2> HIDE DEF Queued, Sent, Answered
    <2> QED
      BY <1>1, <1>2, <1>3, <1>4, <1>5, <1>6
  <1>9. Outstanding # {} => hb_count >= 1
    <2> HIDE DEF Queued, Sent, Answered
    <2> QED
      BY <1>1, <1>5, <1>6, <1>7
  <1> QED
    BY <1>8, <1>9 DEF OneHeartbeatOutstanding, OneEach

(***************************************************************************)
(* Type correctness                                                         *)
(***************************************************************************)

\* What parsing one payload does to the types: the counter stays in range when an
\* ACK is only parsed while it is positive.
LEMMA ParseType ==
    ASSUME TypeOK, NEW w \in Wsis, NEW p \in RxPayload, Parse(w, p),
           p = "ACK" => hb_count >= 1
    PROVE  /\ phase' \in {"app", "service", "crashed"}
           /\ hb_armed' \in BOOLEAN /\ hb_elapsed' \in BOOLEAN
           /\ hb_count' \in 0..HbMax
           /\ ring' \in Seq(TxPayload) /\ Len(ring') <= Capacity
           /\ session' \in BOOLEAN
           /\ wsi_state' \in [Wsis -> {"free", "connecting", "open", "closing"}]
           /\ hello_parsed' \in [Wsis -> BOOLEAN]
  <1> USE GatewayAssumption DEF TypeOK, Hangup
  <1>1. CASE p = "HELLO" /\ ParseHello(w)
    <2>1. WithIdentify(ring) \in Seq(TxPayload) /\ Len(WithIdentify(ring)) <= Capacity
      BY InsertType DEF WithIdentify, TxPayload
    <2> QED
      BY <1>1, <2>1 DEF ParseHello
  <1>2. CASE p = "ACK" /\ ParseAck
    BY <1>2 DEF ParseAck, CountedDown
  <1>3. CASE p \in {"READY", "DISPATCH"} /\ ParseDispatch(w, p)
    BY <1>3 DEF ParseDispatch, MayHangup
  <1>4. CASE p = "INVALID" /\ ParseInvalidSession
    BY <1>4 DEF ParseInvalidSession
  <1>5. CASE p = "CONTROL" /\ UNCHANGED parser_vars
    BY <1>5 DEF parser_vars
  <1>6. CASE p = "BAD" /\ ParseBad(w)
    BY <1>6 DEF ParseBad
  <1> QED
    BY <1>1, <1>2, <1>3, <1>4, <1>5, <1>6 DEF Parse

\* What parsing does to the heartbeats: only an ACK counts down, and no payload
\* queues a heartbeat.
LEMMA ParseHeartbeats ==
    ASSUME TypeOK, NEW w \in Wsis, NEW p \in RxPayload, Parse(w, p)
    PROVE  /\ hb_count' = IF p = "ACK" THEN hb_count - 1 ELSE hb_count
           /\ HeartbeatsIn(ring') = HeartbeatsIn(ring)
  <1>1. CASE p = "HELLO" /\ ParseHello(w)
    <2>1. HeartbeatsIn(WithIdentify(ring)) = HeartbeatsIn(ring)
      BY InsertIdentify DEF WithIdentify, TypeOK
    <2> QED
      BY <1>1, <2>1 DEF ParseHello
  <1>2. CASE p = "ACK" /\ ParseAck
    BY <1>2 DEF ParseAck, CountedDown
  <1>3. CASE p \in {"READY", "DISPATCH"} /\ ParseDispatch(w, p)
    BY <1>3 DEF ParseDispatch
  <1>4. CASE p = "INVALID" /\ ParseInvalidSession
    BY <1>4 DEF ParseInvalidSession
  <1>5. CASE p = "CONTROL" /\ UNCHANGED parser_vars
    BY <1>5 DEF parser_vars
  <1>6. CASE p = "BAD" /\ ParseBad(w)
    BY <1>6 DEF ParseBad
  <1> QED
    BY <1>1, <1>2, <1>3, <1>4, <1>5, <1>6 DEF Parse

\* The struct as ld_init_context leaves it is well typed.
LEMMA InitType == Init => TypeOK
  <1> SUFFICES ASSUME Init PROVE TypeOK
    OBVIOUS
  <1>1. ring \in Seq(TxPayload) /\ Len(ring) <= Capacity
    BY RingAssumption DEF Init
  <1>2. hb_count \in 0..HbMax
    BY GatewayAssumption DEF Init
  <1> QED
    BY <1>1, <1>2 DEF Init, TypeOK

\* What the gateway sends keeps the types of its side of the conversation.
LEMMA GatewaySendsType ==
    ASSUME greeted \in [Wsis -> BOOLEAN], unacked \in [Wsis -> Nat],
           NEW w \in Wsis, NEW p, GatewaySends(w, p)
    PROVE  greeted' \in [Wsis -> BOOLEAN] /\ unacked' \in [Wsis -> Nat]
  <1>1. CASE unacked' = [unacked EXCEPT ![w] = @ - 1] /\ unacked[w] > 0 /\ UNCHANGED greeted
    BY <1>1
  <1>2. CASE greeted' = [greeted EXCEPT ![w] = TRUE] /\ UNCHANGED unacked
    BY <1>2
  <1> QED
    BY <1>1, <1>2 DEF GatewaySends

\* So does a payload put on the wire.
LEMMA OnTheWireType ==
    ASSUME identified \in [Wsis -> BOOLEAN], unacked \in [Wsis -> Nat],
           NEW w \in Wsis, NEW p \in TxPayload, OnTheWire(w, p)
    PROVE  identified' \in [Wsis -> BOOLEAN] /\ unacked' \in [Wsis -> Nat]
  <1>1. CASE p = "HEARTBEAT"
    BY <1>1 DEF OnTheWire
  <1>2. CASE p = "IDENTIFY"
    BY <1>2 DEF OnTheWire
  <1> QED
    BY <1>1, <1>2 DEF TxPayload

\* Every step keeps the types.  The accounting is needed for the lower bound of
\* hb_count.
LEMMA TypeStep ==
    ASSUME TypeOK, Accounting, [Next]_vars
    PROVE  TypeOK'
  <1> USE GatewayAssumption DEF TypeOK, context_vars, wsi_vars, gateway_vars
  <1>1. CASE UNCHANGED vars
    BY <1>1 DEF vars
  <1>2. ASSUME NEW w \in Wsis, ld_connect(ConnectStarts(w)) PROVE TypeOK'
    BY <1>2 DEF ld_connect, ConnectStarts
  <1>3. CASE ld_connect(ConnectFails)
    BY <1>3 DEF ld_connect, ConnectFails
  <1>4. CASE ServiceMissedAck
    BY <1>4 DEF ServiceMissedAck, CountedAgain, DeadlineStands
  <1>5. CASE ServiceCantFitHeartbeat
    BY <1>5 DEF ServiceCantFitHeartbeat, CountTakenBack
  <1>6. CASE ServicePolls
    <2>1. ring' \in Seq(TxPayload) /\ Len(ring') <= Capacity
      BY <1>6, InsertType DEF ServicePolls, QueuesHeartbeat, NoHeartbeatNeeded, TxPayload
    <2>2. hb_count' \in 0..HbMax /\ hb_elapsed' \in BOOLEAN
      <3>1. CASE QueuesHeartbeat
        <4>1. hb_count = 0 /\ hb_count' = hb_count + 1 /\ 1 \in 0..HbMax
          BY <3>1 DEF QueuesHeartbeat, MissedAck
        <4>2. hb_count' \in 0..HbMax
          BY <4>1
        <4>3. hb_elapsed' \in BOOLEAN
          BY <3>1, Zenon DEF QueuesHeartbeat
        <4> QED
          BY <4>2, <4>3
      <3>2. CASE NoHeartbeatNeeded
        BY <3>2 DEF NoHeartbeatNeeded
      <3> QED
        BY <1>6, <3>1, <3>2 DEF ServicePolls
    <2>3. pollout' \subseteq Wsis
      BY <1>6 DEF ServicePolls, WriteableRequest
    <2> QED
      BY <1>6, <2>1, <2>2, <2>3 DEF ServicePolls, EntersService
  <1>7. CASE ServiceReturns
    BY <1>7 DEF ServiceReturns
  <1>8. CASE Elapse
    BY <1>8 DEF Elapse
  <1>9. ASSUME NEW w \in Wsis, ConnectionError(w) \/ WsiDestroy(w) PROVE TypeOK'
    <2>1. Gone(w) /\ lws_wsi' = NULL
      BY <1>9 DEF ConnectionError, WsiDestroy
    <2>2. /\ wsi_state' \in [Wsis -> {"free", "connecting", "open", "closing"}]
          /\ pollout' \subseteq Wsis
          /\ rx_message' \in [Wsis -> RxPayload \cup {NoMessage}]
          /\ rx_buffer' \in Wsis \cup {NULL, Mixed}
      BY <2>1 DEF Gone
    <2>3. /\ greeted' \in [Wsis -> BOOLEAN]
          /\ hello_parsed' \in [Wsis -> BOOLEAN]
          /\ identified' \in [Wsis -> BOOLEAN]
          /\ unacked' \in [Wsis -> Nat]
      BY <2>1 DEF Gone
    <2> QED
      BY <2>1, <2>2, <2>3 DEF Gone
  <1>10. ASSUME NEW w \in Wsis, Established(w) PROVE TypeOK'
    <2>1. wsi_state' \in [Wsis -> {"free", "connecting", "open", "closing"}]
      BY <1>10 DEF Established
    <2> QED
      BY <1>10, <2>1 DEF Established
  <1>11. ASSUME NEW w \in Wsis, Drop(w) PROVE TypeOK'
    BY <1>11 DEF Drop, Hangup
  <1>12. ASSUME NEW w \in Wsis, NEW code \in CloseCodes, PeerInitiatedClose(w, code) PROVE TypeOK'
    BY <1>12 DEF PeerInitiatedClose, Hangup, WsiWhileClosing
  <1>13. ASSUME NEW w \in Wsis, NEW p \in RxPayload, ReceiveWhole(w, p) PROVE TypeOK'
    <2>1. greeted' \in [Wsis -> BOOLEAN] /\ unacked' \in [Wsis -> Nat]
      BY <1>13, GatewaySendsType DEF ReceiveWhole
    <2>2. p = "ACK" => hb_count >= 1
      BY <1>13 DEF ReceiveWhole, GatewaySends, Accounting, SentAlone
    <2>3. CASE Parse(w, p) /\ UNCHANGED rx_buffer
      BY <1>13, <2>1, <2>2, <2>3, ParseType DEF ReceiveWhole
    <2>4. CASE rx_buffer' = w /\ UNCHANGED parser_vars
      BY <1>13, <2>1, <2>4 DEF ReceiveWhole, parser_vars
    <2> QED
      BY <1>13, <2>3, <2>4 DEF ReceiveWhole
  <1>14. ASSUME NEW w \in Wsis, NEW p \in Fragmented, ReceiveFirst(w, p) PROVE TypeOK'
    <2>1. greeted' \in [Wsis -> BOOLEAN] /\ unacked' \in [Wsis -> Nat]
      BY <1>14, GatewaySendsType DEF ReceiveFirst
    <2> QED
      BY <1>14, <2>1 DEF ReceiveFirst, BufferAfterFirst, parser_vars
  <1>15. ASSUME NEW w \in Wsis, ReceiveMiddle(w) PROVE TypeOK'
    BY <1>15 DEF ReceiveMiddle
  <1>16. ASSUME NEW w \in Wsis, ReceiveLast(w) PROVE TypeOK'
    <2> DEFINE p == IF rx_buffer = w THEN rx_message[w] ELSE "BAD"
    <2>1. p \in RxPayload
      BY <1>16 DEF ReceiveLast, RxPayload
    <2>2. p = "ACK" => hb_count >= 1
      BY DEF Accounting, AnswerCounted
    <2>3. Parse(w, p)
      BY <1>16 DEF ReceiveLast
    <2> HIDE DEF p
    <2> QED
      BY <1>16, <2>1, <2>2, <2>3, ParseType DEF ReceiveLast
  <1>17. ASSUME NEW w \in Wsis, Writeable(w) PROVE TypeOK'
    <2>1. ring' \in Seq(TxPayload) /\ Len(ring') <= Capacity
      BY <1>17, RestType DEF Writeable
    <2>2. /\ wsi_state' \in [Wsis -> {"free", "connecting", "open", "closing"}]
          /\ identified' \in [Wsis -> BOOLEAN]
          /\ unacked' \in [Wsis -> Nat]
      <3>1. CASE UNCHANGED <<wsi_state, identified, unacked>>
        BY <3>1
      <3>2. CASE RingWaiting(ring) # 0 /\ OnTheWire(w, RingOldest(ring))
        <4>1. RingOldest(ring) \in TxPayload
          BY <3>2, RestType
        <4>2. identified' \in [Wsis -> BOOLEAN] /\ unacked' \in [Wsis -> Nat]
          BY <3>2, <4>1, OnTheWireType
        <4> QED
          BY <3>2, <4>2 DEF OnTheWire
      <3>3. CASE WriteFails(w)
        BY <3>3 DEF WriteFails, Hangup
      <3> QED
        BY <1>17, <3>1, <3>2, <3>3 DEF Writeable
    <2> QED
      BY <1>17, <2>1, <2>2 DEF Writeable
  <1> QED
    BY <1>1, <1>2, <1>3, <1>4, <1>5, <1>6, <1>7, <1>8, <1>9, <1>10, <1>11, <1>12, <1>13, <1>14,
       <1>15, <1>16, <1>17
       DEF Next, Service, Callback, ServiceConnects, ServiceCantConnect, AppConnects,
           AppCantConnect, Crashed

(***************************************************************************)
(* The accounting is inductive                                              *)
(***************************************************************************)

\* It owes no answer, and has counted none.
LEMMA InitAccounting == Init => Accounting
  <1> SUFFICES ASSUME Init PROVE Accounting
    OBVIOUS
  <1>1. HeartbeatsIn(ring) = {}
    BY DEF Init, HeartbeatsIn
  <1> QED
    BY <1>1 DEF Init, NoMessage, Accounting, OneQueued, OneSent, OneEach, OneAnswered,
                QueuedAlone, SentAlone, AnswerCounted

\* A step that brings no heartbeat to a new place and does not count down keeps
\* the accounting.
LEMMA AccountingShrinks ==
    ASSUME TypeOK, TypeOK', Accounting,
           hb_count' >= hb_count,
           OneQueued', HeartbeatsIn(ring') # {} => HeartbeatsIn(ring) # {},
           \A v \in Wsis : unacked'[v] = unacked[v] \/ unacked'[v] = 0,
           \A v \in Wsis : rx_message'[v] = "ACK" => rx_message[v] = "ACK"
    PROVE  Accounting'
  <1> USE DEF Accounting
  <1>0. hb_count \in Nat /\ hb_count' \in Nat /\ \A v \in Wsis : unacked[v] \in Nat
    BY GatewayAssumption DEF TypeOK
  <1>1. OneSent'
    BY <1>0 DEF OneSent
  <1>2. OneEach'
    BY <1>0 DEF OneEach
  <1>3. OneAnswered'
    BY DEF OneAnswered
  <1>4. QueuedAlone'
    BY <1>0 DEF QueuedAlone
  <1>5. SentAlone'
    BY <1>0 DEF SentAlone
  <1>6. AnswerCounted'
    BY <1>0 DEF AnswerCounted
  <1> QED
    BY <1>1, <1>2, <1>3, <1>4, <1>5, <1>6

\* Without any heartbeat in any place the accounting holds.
LEMMA AccountingOfNothing ==
    ASSUME HeartbeatsIn(ring') = {},
           \A v \in Wsis : unacked'[v] = 0 /\ rx_message'[v] # "ACK"
    PROVE  Accounting'
  BY DEF Accounting, OneQueued, OneSent, OneEach, OneAnswered, QueuedAlone, SentAlone,
         AnswerCounted

\* A new heartbeat in the ring: there was none anywhere, for hb_count was zero.
LEMMA AccountingQueues ==
    ASSUME TypeOK, Accounting, QueuesHeartbeat, UNCHANGED <<unacked, rx_message>>
    PROVE  Accounting'
  <1>1. hb_count = 0 /\ hb_count' = 1
    BY GatewayAssumption DEF QueuesHeartbeat, MissedAck, TypeOK
  <1>2. HeartbeatsIn(ring) = {}
    BY <1>1 DEF Accounting, QueuedAlone
  <1>3. \A v \in Wsis : unacked[v] = 0 /\ rx_message[v] # "ACK"
    BY <1>1 DEF Accounting, SentAlone, AnswerCounted, TypeOK
  <1>4. HeartbeatsIn(ring') = {Len(ring) + 1}
    BY <1>2, InsertHeartbeat DEF QueuesHeartbeat, TypeOK
  <1> QED
    BY <1>1, <1>3, <1>4 DEF Accounting, OneQueued, OneSent, OneEach, OneAnswered, QueuedAlone,
                            SentAlone, AnswerCounted

\* A payload leaves the ring: a heartbeat that was there is on the wire or lost.
LEMMA AccountingWrites ==
    ASSUME TypeOK, TypeOK', Accounting, NEW w \in Wsis, Writeable(w)
    PROVE  Accounting'
  <1>0. hb_count' = hb_count /\ rx_message' = rx_message /\ hb_count \in Nat
    BY GatewayAssumption DEF Writeable, TypeOK
  <1>1. CASE RingWaiting(ring) = 0
    <2>1. ring' = ring /\ unacked' = unacked
      BY <1>1 DEF Writeable
    <2> QED
      BY <1>0, <2>1, AccountingShrinks DEF Accounting, OneQueued
  <1>2. CASE RingWaiting(ring) # 0
    <2>1. ring' = RingRest(ring) /\ ring \in Seq(TxPayload)
      BY <1>2 DEF Writeable, TypeOK
    <2>2. \A i \in HeartbeatsIn(ring') : i \in Nat /\ i >= 1 /\ i + 1 \in HeartbeatsIn(ring)
      BY <1>2, <2>1, RestHeartbeats
    <2>3. OneQueued'
      BY <2>2 DEF Accounting, OneQueued
    <2>4. HeartbeatsIn(ring') # {} => HeartbeatsIn(ring) # {}
      BY <2>2
    <2>5. CASE unacked' = unacked
      BY <1>0, <2>3, <2>4, <2>5, AccountingShrinks
    <2>6. CASE OnTheWire(w, RingOldest(ring)) /\ RingOldest(ring) = "HEARTBEAT"
      <3>1. 1 \in HeartbeatsIn(ring)
        BY <1>2, <2>1, <2>6, RestHeartbeats
      <3>2. HeartbeatsIn(ring') = {}
        BY <2>2, <3>1 DEF Accounting, OneQueued
      <3>3. hb_count >= 1 /\ \A v \in Wsis : unacked[v] = 0 /\ rx_message[v] # "ACK"
        BY <3>1 DEF Accounting, QueuedAlone
      <3>4. unacked' = [unacked EXCEPT ![w] = unacked[w] + 1]
        BY <2>6 DEF OnTheWire
      <3>5. \A v \in Wsis : unacked'[v] = IF v = w THEN 1 ELSE 0
        BY <3>3, <3>4 DEF TypeOK
      <3> QED
        BY <1>0, <3>2, <3>3, <3>5 DEF Accounting, OneQueued, OneSent, OneEach, OneAnswered,
                                       QueuedAlone, SentAlone, AnswerCounted
    <2> QED
      BY <1>2, <2>5, <2>6 DEF Writeable, OnTheWire, WriteFails
  <1> QED
    BY <1>1, <1>2 DEF RingWaiting, TypeOK

\* The gateway answers: the only heartbeat there is was the one it had received.
LEMMA AnswerTakesTheOnlyOne ==
    ASSUME TypeOK, Accounting, NEW w \in Wsis, GatewaySends(w, "ACK")
    PROVE  /\ hb_count >= 1
           /\ HeartbeatsIn(ring) = {}
           /\ \A v \in Wsis : unacked'[v] = 0 /\ rx_message[v] # "ACK"
  <1>1. unacked[w] > 0 /\ unacked' = [unacked EXCEPT ![w] = @ - 1]
    BY DEF GatewaySends
  <1>2. unacked[w] = 1
    BY <1>1 DEF Accounting, OneEach, TypeOK
  <1>3. \A v \in Wsis : v # w => unacked[v] = 0
    BY <1>1 DEF Accounting, OneSent, TypeOK
  <1>4. \A v \in Wsis : unacked'[v] = 0
    BY <1>1, <1>2, <1>3 DEF TypeOK
  <1>5. hb_count >= 1 /\ \A v \in Wsis : rx_message[v] # "ACK"
    BY <1>1 DEF Accounting, SentAlone
  <1>6. HeartbeatsIn(ring) = {}
    BY <1>2 DEF Accounting, QueuedAlone
  <1> QED
    BY <1>4, <1>5, <1>6

\* Anything else the gateway sends leaves the heartbeats it has received alone.
LEMMA OtherSends ==
    ASSUME NEW w, NEW p, p # "ACK", GatewaySends(w, p)
    PROVE  unacked' = unacked
  BY DEF GatewaySends

\* Every step of the client and of its environment keeps the accounting.
LEMMA AccountingStep ==
    ASSUME TypeOK, TypeOK', Accounting, [Next]_vars
    PROVE  Accounting'
  <1> USE DEF context_vars, wsi_vars, gateway_vars
  <1>0. hb_count \in Nat /\ hb_count' \in Nat
    BY GatewayAssumption DEF TypeOK
  \* Steps that leave every heartbeat where it is.
  <1>a. ASSUME hb_count' >= hb_count, UNCHANGED <<unacked, rx_message>>,
               HeartbeatsIn(ring') = HeartbeatsIn(ring)
        PROVE  Accounting'
    <2>1. OneQueued'
      BY <1>a DEF Accounting, OneQueued
    <2> QED
      BY <1>a, <2>1, AccountingShrinks
  <1>1. CASE UNCHANGED vars
    BY <1>0, <1>1, <1>a DEF vars
  <1>2. ASSUME NEW w \in Wsis, ld_connect(ConnectStarts(w)) PROVE Accounting'
    BY <1>0, <1>2, <1>a DEF ld_connect
  <1>17. CASE ld_connect(ConnectFails)
    BY <1>0, <1>17, <1>a DEF ld_connect
  <1>3. CASE ServiceMissedAck
    <2>1. hb_count' >= hb_count
      BY <1>0, <1>3, GatewayAssumption DEF ServiceMissedAck, CountedAgain, TypeOK
    <2> QED
      BY <1>3, <2>1, <1>a DEF ServiceMissedAck
  <1>4. CASE ServiceCantFitHeartbeat
    BY <1>0, <1>4, <1>a DEF ServiceCantFitHeartbeat, CountTakenBack
  <1>5. CASE ServicePolls
    <2>1. CASE QueuesHeartbeat
      BY <1>5, <2>1, AccountingQueues DEF ServicePolls
    <2>2. CASE NoHeartbeatNeeded
      BY <1>0, <1>5, <2>2, <1>a DEF ServicePolls, NoHeartbeatNeeded
    <2> QED
      BY <1>5, <2>1, <2>2 DEF ServicePolls
  <1>6. CASE ServiceReturns
    BY <1>0, <1>6, <1>a DEF ServiceReturns
  <1>7. CASE Elapse
    BY <1>0, <1>7, <1>a DEF Elapse
  <1>8. ASSUME NEW w \in Wsis, ConnectionError(w) \/ WsiDestroy(w) PROVE Accounting'
    <2>1. Gone(w)
      BY <1>8 DEF ConnectionError, WsiDestroy
    <2>2. \A v \in Wsis : unacked'[v] = unacked[v] \/ unacked'[v] = 0
      BY <2>1 DEF Gone, TypeOK
    <2>3. \A v \in Wsis : rx_message'[v] = "ACK" => rx_message[v] = "ACK"
      BY <2>1 DEF Gone, TypeOK, NoMessage
    <2>4. hb_count' = hb_count /\ ring' = ring
      BY <2>1 DEF Gone
    <2>5. OneQueued'
      BY <2>4 DEF Accounting, OneQueued
    <2> QED
      BY <1>0, <2>2, <2>3, <2>4, <2>5, AccountingShrinks
  <1>9. ASSUME NEW w \in Wsis, Established(w) PROVE Accounting'
    BY <1>0, <1>9, <1>a DEF Established
  <1>10. ASSUME NEW w \in Wsis, Drop(w) PROVE Accounting'
    BY <1>0, <1>10, <1>a DEF Drop
  <1>11. ASSUME NEW w \in Wsis, NEW code \in CloseCodes, PeerInitiatedClose(w, code)
         PROVE  Accounting'
    BY <1>0, <1>11, <1>a DEF PeerInitiatedClose
  <1>12. ASSUME NEW w \in Wsis, NEW p \in RxPayload, ReceiveWhole(w, p) PROVE Accounting'
    <2>1. GatewaySends(w, p) /\ rx_message' = rx_message
      BY <1>12 DEF ReceiveWhole
    <2>2. HeartbeatsIn(ring') = HeartbeatsIn(ring)
      BY <1>12, ParseHeartbeats DEF ReceiveWhole, parser_vars
    <2>3. CASE p = "ACK"
      BY <2>1, <2>2, <2>3, AnswerTakesTheOnlyOne, AccountingOfNothing
    <2>4. CASE p # "ACK"
      <3>1. hb_count' = hb_count
        BY <1>12, <2>4, ParseHeartbeats DEF ReceiveWhole, parser_vars
      <3> QED
        BY <1>0, <2>1, <2>2, <2>4, <3>1, OtherSends, <1>a
    <2> QED
      BY <2>3, <2>4
  <1>13. ASSUME NEW w \in Wsis, NEW p \in Fragmented, ReceiveFirst(w, p) PROVE Accounting'
    <2>1. GatewaySends(w, p) /\ rx_message' = [rx_message EXCEPT ![w] = p]
      BY <1>13 DEF ReceiveFirst
    <2>2. hb_count' = hb_count /\ ring' = ring
      BY <1>13 DEF ReceiveFirst, parser_vars
    <2>3. CASE p = "ACK"
      <3>1. /\ hb_count >= 1 /\ HeartbeatsIn(ring) = {}
            /\ \A v \in Wsis : unacked'[v] = 0 /\ rx_message[v] # "ACK"
        BY <2>1, <2>3, AnswerTakesTheOnlyOne
      <3>2. \A v \in Wsis : rx_message'[v] = "ACK" => v = w
        BY <2>1, <3>1 DEF TypeOK
      <3>3. HeartbeatsIn(ring') = {}
        BY <2>2, <3>1
      <3> QED
        BY <2>2, <3>1, <3>2, <3>3 DEF Accounting, OneQueued, OneSent, OneEach, OneAnswered,
                                       QueuedAlone, SentAlone, AnswerCounted
    <2>4. CASE p # "ACK"
      <3>1. unacked' = unacked
        BY <2>1, <2>4, OtherSends
      <3>2. \A v \in Wsis : rx_message'[v] = "ACK" => rx_message[v] = "ACK"
        BY <2>1, <2>4 DEF TypeOK
      <3>3. OneQueued'
        BY <2>2 DEF Accounting, OneQueued
      <3> QED
        BY <1>0, <2>2, <3>1, <3>2, <3>3, AccountingShrinks
    <2> QED
      BY <2>3, <2>4
  <1>14. ASSUME NEW w \in Wsis, ReceiveMiddle(w) PROVE Accounting'
    BY <1>0, <1>14, <1>a DEF ReceiveMiddle
  <1>15. ASSUME NEW w \in Wsis, ReceiveLast(w) PROVE Accounting'
    <2> DEFINE p == IF rx_buffer = w THEN rx_message[w] ELSE "BAD"
    <2>1. p \in RxPayload /\ Parse(w, p)
      BY <1>15 DEF ReceiveLast, RxPayload, TypeOK
    <2>2. unacked' = unacked /\ rx_message' = [rx_message EXCEPT ![w] = NoMessage]
      BY <1>15 DEF ReceiveLast
    <2>3. p = "ACK" => rx_message[w] = "ACK"
      OBVIOUS
    <2>4. \A v \in Wsis : rx_message'[v] = "ACK" => v # w /\ rx_message[v] = "ACK"
      BY <2>2 DEF TypeOK, NoMessage
    <2> HIDE DEF p
    <2>5. /\ hb_count' = IF p = "ACK" THEN hb_count - 1 ELSE hb_count
          /\ HeartbeatsIn(ring') = HeartbeatsIn(ring)
      BY <2>1, ParseHeartbeats
    <2>6. CASE p = "ACK"
      <3>1. \A v \in Wsis : rx_message'[v] # "ACK"
        BY <2>3, <2>4, <2>6 DEF Accounting, OneAnswered
      <3>2. HeartbeatsIn(ring) = {}
        BY <2>3, <2>6 DEF Accounting, QueuedAlone
      <3>3. \A v \in Wsis : unacked[v] = 0
        BY <2>3, <2>6 DEF Accounting, SentAlone, TypeOK
      <3> QED
        BY <2>2, <2>5, <3>1, <3>2, <3>3, AccountingOfNothing
    <2>7. CASE p # "ACK"
      <3>1. OneQueued'
        BY <2>5 DEF Accounting, OneQueued
      <3> QED
        BY <1>0, <2>2, <2>4, <2>5, <2>7, <3>1, AccountingShrinks
    <2> QED
      BY <2>6, <2>7
  <1>16. ASSUME NEW w \in Wsis, Writeable(w) PROVE Accounting'
    BY <1>16, AccountingWrites
  <1> QED
    BY <1>1, <1>2, <1>3, <1>4, <1>5, <1>6, <1>7, <1>8, <1>9, <1>10, <1>11, <1>12, <1>13, <1>14,
       <1>15, <1>16, <1>17, GatewayAssumption
       DEF Next, Service, Callback, ServiceConnects, ServiceCantConnect, AppConnects,
           AppCantConnect, Crashed

\* The types hold of every reachable state, the bounds of hb_count included: an
\* ACK never takes it below zero.
THEOREM TypeCorrect == Spec => []TypeOK
  <1>1. Init => TypeOK /\ Accounting
    BY InitType, InitAccounting
  <1>2. TypeOK /\ Accounting /\ [Next]_vars => (TypeOK /\ Accounting)'
    BY TypeStep, AccountingStep
  <1> QED
    BY <1>1, <1>2, PTL DEF Spec

\* At most one heartbeat can still be acknowledged, and it is counted, over any
\* number of connections, however they break, and with any ring.
THEOREM HeartbeatAccounting == Spec => []OneHeartbeatOutstanding
  <1>1. Init => TypeOK /\ Accounting
    BY InitType, InitAccounting
  <1>2. TypeOK /\ Accounting /\ [Next]_vars => (TypeOK /\ Accounting)'
    BY TypeStep, AccountingStep
  <1>3. TypeOK /\ Accounting => OneHeartbeatOutstanding
    BY AccountingMeaning
  <1> QED
    BY <1>1, <1>2, <1>3, PTL DEF Spec
============================================================================
