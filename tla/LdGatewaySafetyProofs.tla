----------------------- MODULE LdGatewaySafetyProofs -----------------------
(***************************************************************************)
(* Proofs of the other safety properties of LdGateway, and that it          *)
(* implements HeartbeatMonitor.  They rest on the types and the accounting  *)
(* of LdGatewayProofs, which hold of every state.                           *)
(***************************************************************************)
EXTENDS LdGatewayProofs

(***************************************************************************)
(* Nothing runs after a missed acknowledgement                              *)
(***************************************************************************)

\* A callback runs inside lws_service, and none counts up.
LEMMA CallbackCount ==
    ASSUME TypeOK, NEW w \in Wsis, Callback(w)
    PROVE  phase = "service" /\ hb_count' <= hb_count
  <1> USE GatewayAssumption DEF TypeOK
  <1>1. CASE ConnectionError(w) \/ WsiDestroy(w)
    BY <1>1 DEF ConnectionError, WsiDestroy, Gone
  <1>2. CASE Established(w)
    BY <1>2 DEF Established
  <1>3. CASE Drop(w)
    BY <1>3 DEF Drop, context_vars
  <1>4. ASSUME NEW code \in CloseCodes, PeerInitiatedClose(w, code)
        PROVE  phase = "service" /\ hb_count' <= hb_count
    BY <1>4 DEF PeerInitiatedClose
  <1>5. ASSUME NEW p \in RxPayload, ReceiveWhole(w, p)
        PROVE  phase = "service" /\ hb_count' <= hb_count
    BY <1>5, ParseHeartbeats DEF ReceiveWhole, Receiving, parser_vars
  <1>6. ASSUME NEW p \in Fragmented, ReceiveFirst(w, p)
        PROVE  phase = "service" /\ hb_count' <= hb_count
    BY <1>6 DEF ReceiveFirst, Receiving, parser_vars
  <1>7. CASE ReceiveMiddle(w)
    BY <1>7 DEF ReceiveMiddle, Receiving
  <1>8. CASE ReceiveLast(w)
    <2> DEFINE p == IF rx_buffer = w THEN rx_message[w] ELSE "BAD"
    <2>1. p \in RxPayload /\ Parse(w, p)
      BY <1>8 DEF ReceiveLast, RxPayload
    <2> HIDE DEF p
    <2> QED
      BY <1>8, <2>1, ParseHeartbeats DEF ReceiveLast, Receiving
  <1>9. CASE Writeable(w)
    BY <1>9 DEF Writeable
  <1> QED
    BY <1>1, <1>2, <1>3, <1>4, <1>5, <1>6, <1>7, <1>8, <1>9 DEF Callback

\* The counter passes one only at the return that does not call lws_service, and
\* nothing but a callback could move the deadline that leads to this return.
LEMMA MissedAckStep ==
    ASSUME TypeOK, TypeOK', MissedAckStopsService, [Next]_vars
    PROVE  MissedAckStopsService'
  <1> USE DEF MissedAckStopsService, HeartbeatDue
  <1>0. hb_count \in Nat /\ hb_count' \in Nat
    BY GatewayAssumption DEF TypeOK
  <1>1. CASE UNCHANGED vars
    BY <1>1 DEF vars, context_vars
  <1>2. ASSUME NEW w \in Wsis, ld_connect(ConnectStarts(w)) PROVE MissedAckStopsService'
    BY <1>2 DEF ld_connect, ConnectStarts
  <1>3. CASE ld_connect(ConnectFails)
    <2>1. hb_elapsed' = hb_elapsed \/ hb_elapsed' = TRUE
      BY <1>3 DEF ld_connect, ConnectFails
    <2> QED
      BY <1>3, <2>1, Zenon DEF ld_connect
  <1>4. CASE ServiceMissedAck
    BY <1>4 DEF ServiceMissedAck, DeadlineStands
  <1>5. CASE ServiceCantFitHeartbeat
    BY <1>5 DEF ServiceCantFitHeartbeat, CountTakenBack
  <1>6. CASE ServicePolls
    <2>1. CASE QueuesHeartbeat
      <3>1. hb_count = 0 /\ hb_count' = hb_count + 1
        BY <1>0, <2>1 DEF QueuesHeartbeat, MissedAck
      <3> QED
        BY <3>1
    <2>2. CASE NoHeartbeatNeeded
      BY <1>0, <2>2 DEF NoHeartbeatNeeded
    <2> QED
      BY <1>6, <2>1, <2>2 DEF ServicePolls
  <1>7. CASE ServiceReturns
    BY <1>7 DEF ServiceReturns, context_vars
  <1>8. CASE Elapse
    BY <1>8 DEF Elapse
  <1>9. ASSUME NEW w \in Wsis, Callback(w) PROVE MissedAckStopsService'
    <2>1. phase = "service" /\ hb_count' <= hb_count
      BY <1>9, CallbackCount
    <2>2. hb_count <= 1 /\ hb_count' <= 1
      BY <1>0, <2>1
    <2> QED
      BY <1>0, <2>2
  <1> QED
    BY <1>1, <1>2, <1>3, <1>4, <1>5, <1>6, <1>7, <1>8, <1>9
       DEF Next, Service, ServiceConnects, ServiceCantConnect, AppConnects, AppCantConnect,
           Crashed

\* MissedAckStopsService, for any number of connections.
THEOREM MissedAckIsFinal == Spec => []MissedAckStopsService
  <1>1. Init => TypeOK /\ Accounting /\ MissedAckStopsService
    <2>1. Init => MissedAckStopsService
      BY DEF Init, MissedAckStopsService
    <2> QED
      BY <2>1, InitType, InitAccounting
  <1>2. TypeOK /\ Accounting /\ MissedAckStopsService /\ [Next]_vars
            => (TypeOK /\ Accounting /\ MissedAckStopsService)'
    BY TypeStep, AccountingStep, MissedAckStep
  <1> QED
    BY <1>1, <1>2, PTL DEF Spec

(***************************************************************************)
(* Nothing happens before the first HELLO                                   *)
(***************************************************************************)

\* The interval is set by HELLO and never taken back.
LEMMA StaysArmed ==
    ASSUME [Next]_vars, hb_armed = TRUE
    PROVE  hb_armed' = TRUE
  <1>1. ASSUME NEW w \in Wsis, NEW p, Parse(w, p) PROVE hb_armed' = TRUE
    BY <1>1 DEF Parse, ParseHello, ParseAck, ParseDispatch, ParseInvalidSession, ParseBad,
                parser_vars
  <1>2. ASSUME NEW w \in Wsis, Callback(w) PROVE hb_armed' = TRUE
    BY <1>1, <1>2
       DEF Callback, ConnectionError, Gone, Established, Drop, PeerInitiatedClose, WsiDestroy,
           ReceiveWhole, ReceiveFirst, ReceiveMiddle, ReceiveLast, Writeable, parser_vars,
           context_vars
  <1>3. ASSUME NEW w \in Wsis, ld_connect(ConnectStarts(w)) PROVE hb_armed' = TRUE
    BY <1>3 DEF ld_connect
  <1>4. CASE ld_connect(ConnectFails)
    BY <1>4 DEF ld_connect
  <1> QED
    BY <1>2, <1>3, <1>4
       DEF Next, Service, ServiceConnects, ServiceCantConnect, ServiceMissedAck,
           ServiceCantFitHeartbeat, ServicePolls, ServiceReturns, AppConnects, AppCantConnect,
           Elapse, Crashed, vars, context_vars

\* A step from a state without an interval to another one queues, sends and counts
\* nothing: a heartbeat is not due, an ACK is not owed, and the ring stays empty.
LEMMA NothingBeforeStep ==
    ASSUME TypeOK, TypeOK', Accounting, NothingBeforeFirstHello, [Next]_vars
    PROVE  NothingBeforeFirstHello'
  <1> SUFFICES ASSUME ~hb_armed'
               PROVE  /\ ring' = <<>> /\ hb_count' = 0
                      /\ \A w \in Wsis : ~identified'[w] /\ unacked'[w] = 0
    BY DEF NothingBeforeFirstHello
  <1>0. /\ ~hb_armed
        /\ ring = <<>> /\ hb_count = 0
        /\ \A w \in Wsis : ~identified[w] /\ unacked[w] = 0
    BY StaysArmed DEF NothingBeforeFirstHello, TypeOK
  <1>a. ASSUME UNCHANGED <<ring, hb_count, identified, unacked>>
        PROVE  /\ ring' = <<>> /\ hb_count' = 0
               /\ \A w \in Wsis : ~identified'[w] /\ unacked'[w] = 0
    BY <1>0, <1>a
  <1>1. CASE UNCHANGED vars
    BY <1>a, <1>1 DEF vars, context_vars, gateway_vars
  <1>2. ASSUME NEW w \in Wsis, ld_connect(ConnectStarts(w))
        PROVE  UNCHANGED <<ring, hb_count, identified, unacked>>
    BY <1>2 DEF ld_connect, gateway_vars
  <1>3. CASE ld_connect(ConnectFails)
    BY <1>a, <1>3 DEF ld_connect, gateway_vars
  <1>4. CASE ServiceMissedAck \/ ServiceCantFitHeartbeat
    BY <1>0, <1>4 DEF ServiceMissedAck, ServiceCantFitHeartbeat, HeartbeatDue
  <1>5. CASE ServicePolls
    <2>1. NoHeartbeatNeeded
      BY <1>0, <1>5 DEF ServicePolls, QueuesHeartbeat, HeartbeatDue
    <2> QED
      BY <1>a, <1>5, <2>1 DEF ServicePolls, NoHeartbeatNeeded, gateway_vars
  <1>6. CASE ServiceReturns
    BY <1>a, <1>6 DEF ServiceReturns, context_vars, gateway_vars
  <1>7. CASE Elapse
    BY <1>a, <1>7 DEF Elapse, gateway_vars
  <1>8. ASSUME NEW w \in Wsis, ConnectionError(w) \/ WsiDestroy(w)
        PROVE  /\ ring' = <<>> /\ hb_count' = 0
               /\ \A v \in Wsis : ~identified'[v] /\ unacked'[v] = 0
    <2>1. Gone(w)
      BY <1>8 DEF ConnectionError, WsiDestroy
    <2> QED
      BY <1>0, <2>1 DEF Gone, TypeOK
  <1>9. ASSUME NEW w \in Wsis, Established(w)
        PROVE  UNCHANGED <<ring, hb_count, identified, unacked>>
    BY <1>9 DEF Established, gateway_vars
  <1>10. ASSUME NEW w \in Wsis, Drop(w)
         PROVE  UNCHANGED <<ring, hb_count, identified, unacked>>
    BY <1>10 DEF Drop, context_vars, gateway_vars
  <1>11. ASSUME NEW w \in Wsis, NEW code \in CloseCodes, PeerInitiatedClose(w, code)
         PROVE  UNCHANGED <<ring, hb_count, identified, unacked>>
    BY <1>11 DEF PeerInitiatedClose, gateway_vars
  \* What is parsed is no HELLO, which would arm, and no ACK, which is not owed.
  <1>b. ASSUME NEW w \in Wsis, NEW p \in RxPayload, Parse(w, p), p # "ACK"
        PROVE  UNCHANGED <<ring, hb_count>>
    BY <1>b DEF Parse, ParseHello, ParseDispatch, ParseInvalidSession, ParseBad, parser_vars
  <1>12. ASSUME NEW w \in Wsis, NEW p \in RxPayload, ReceiveWhole(w, p)
         PROVE  UNCHANGED <<ring, hb_count, identified, unacked>>
    <2>1. p # "ACK" /\ UNCHANGED <<identified, unacked>>
      BY <1>0, <1>12 DEF ReceiveWhole, GatewaySends
    <2> QED
      BY <1>12, <1>b, <2>1 DEF ReceiveWhole, parser_vars
  <1>13. ASSUME NEW w \in Wsis, NEW p \in Fragmented, ReceiveFirst(w, p)
         PROVE  UNCHANGED <<ring, hb_count, identified, unacked>>
    BY <1>0, <1>13 DEF ReceiveFirst, GatewaySends, parser_vars
  <1>14. ASSUME NEW w \in Wsis, ReceiveMiddle(w)
         PROVE  UNCHANGED <<ring, hb_count, identified, unacked>>
    BY <1>14 DEF ReceiveMiddle, gateway_vars
  <1>15. ASSUME NEW w \in Wsis, ReceiveLast(w)
         PROVE  UNCHANGED <<ring, hb_count, identified, unacked>>
    <2> DEFINE p == IF rx_buffer = w THEN rx_message[w] ELSE "BAD"
    <2>1. p \in RxPayload /\ Parse(w, p)
      BY <1>15 DEF ReceiveLast, RxPayload, TypeOK
    <2>2. p # "ACK"
      BY <1>0 DEF Accounting, AnswerCounted
    <2> HIDE DEF p
    <2> QED
      BY <1>15, <1>b, <2>1, <2>2 DEF ReceiveLast
  <1>16. ASSUME NEW w \in Wsis, Writeable(w)
         PROVE  UNCHANGED <<ring, hb_count, identified, unacked>>
    BY <1>0, <1>16 DEF Writeable, RingWaiting
  <1> QED
    BY <1>a, <1>1, <1>2, <1>3, <1>4, <1>5, <1>6, <1>7, <1>8, <1>9, <1>10, <1>11, <1>12, <1>13,
       <1>14, <1>15, <1>16, GatewayAssumption
       DEF Next, Service, Callback, ServiceConnects, ServiceCantConnect, AppConnects,
           AppCantConnect, Crashed

\* NothingBeforeFirstHello: until the first HELLO of all has brought an interval,
\* no number of losses and reconnects, and no expiry of the timer, queues, sends or
\* counts anything.
THEOREM NothingBeforeHello == Spec => []NothingBeforeFirstHello
  <1>1. Init => TypeOK /\ Accounting /\ NothingBeforeFirstHello
    <2>1. Init => NothingBeforeFirstHello
      BY DEF Init, NothingBeforeFirstHello
    <2> QED
      BY <2>1, InitType, InitAccounting
  <1>2. TypeOK /\ Accounting /\ NothingBeforeFirstHello /\ [Next]_vars
            => (TypeOK /\ Accounting /\ NothingBeforeFirstHello)'
    BY TypeStep, AccountingStep, NothingBeforeStep
  <1> QED
    BY <1>1, <1>2, PTL DEF Spec

(***************************************************************************)
(* One connection                                                           *)
(***************************************************************************)

\* A callback is about a connection that exists, disturbs no other one, and takes
\* lws_wsi away only when it is gone.
LEMMA CallbackOwn ==
    ASSUME TypeOK, NEW w \in Wsis, Callback(w)
    PROVE  /\ wsi_state[w] # "free"
           /\ \A v \in Wsis \ {w} : /\ wsi_state'[v] = wsi_state[v]
                                    /\ rx_message'[v] = rx_message[v]
           /\ lws_wsi' = lws_wsi \/ wsi_state'[w] = "free"
  <1> DEFINE Own == /\ wsi_state[w] # "free"
                    /\ \A v \in Wsis \ {w} : /\ wsi_state'[v] = wsi_state[v]
                                             /\ rx_message'[v] = rx_message[v]
                    /\ lws_wsi' = lws_wsi \/ wsi_state'[w] = "free"
  <1> SUFFICES Own
    OBVIOUS
  <1>0. /\ wsi_state \in [Wsis -> {"free", "connecting", "open", "closing"}]
        /\ rx_message \in [Wsis -> RxPayload \cup {NoMessage}]
    BY DEF TypeOK
  <1>1. CASE ConnectionError(w) \/ WsiDestroy(w)
    BY <1>0, <1>1 DEF ConnectionError, WsiDestroy, Gone
  <1>2. CASE Established(w)
    BY <1>0, <1>2 DEF Established
  <1>3. CASE Drop(w)
    BY <1>0, <1>3 DEF Drop, Hangup, context_vars
  <1>4. ASSUME NEW code \in CloseCodes, PeerInitiatedClose(w, code) PROVE Own
    BY <1>0, <1>4 DEF PeerInitiatedClose, Hangup, WsiWhileClosing
  <1>a. ASSUME NEW p, Parse(w, p)
        PROVE  \A v \in Wsis \ {w} : wsi_state'[v] = wsi_state[v]
    BY <1>0, <1>a DEF Parse, ParseHello, ParseAck, ParseDispatch, ParseInvalidSession, ParseBad,
                      MayHangup, Hangup, parser_vars
  <1>5. ASSUME NEW p \in RxPayload, ReceiveWhole(w, p) PROVE Own
    BY <1>0, <1>5, <1>a DEF ReceiveWhole, Receiving, parser_vars
  <1>6. ASSUME NEW p \in Fragmented, ReceiveFirst(w, p) PROVE Own
    BY <1>0, <1>6 DEF ReceiveFirst, Receiving, parser_vars
  <1>7. CASE ReceiveMiddle(w)
    BY <1>0, <1>7 DEF ReceiveMiddle, Receiving, wsi_vars
  <1>8. CASE ReceiveLast(w)
    BY <1>0, <1>8, <1>a DEF ReceiveLast, Receiving
  <1>9. CASE Writeable(w)
    BY <1>0, <1>9 DEF Writeable, OnTheWire, WriteFails, Hangup
  <1> QED
    BY <1>1, <1>2, <1>3, <1>4, <1>5, <1>6, <1>7, <1>8, <1>9 DEF Callback

\* While only ld_service connects, a connection is made only when there is none.
LEMMA OneConnectionStep ==
    ASSUME ~AppMayConnect, TypeOK, OneGatewayConnection, [Next]_vars
    PROVE  OneGatewayConnection'
  <1> USE DEF OneGatewayConnection
  <1>1. CASE UNCHANGED <<lws_wsi, wsi_state>>
    BY <1>1
  <1>2. CASE ServiceConnects
    <2>1. PICK w \in Wsis : ld_connect(ConnectStarts(w))
      BY <1>2 DEF ServiceConnects
    <2>2. \A v \in Wsis : wsi_state[v] = "free"
      BY <1>2, GatewayAssumption DEF ServiceConnects
    <2> QED
      BY <2>1, <2>2 DEF ld_connect, ConnectStarts, TypeOK
  <1>3. CASE ServiceCantConnect
    BY <1>3 DEF ServiceCantConnect, ld_connect, ConnectFails
  <1>4. ASSUME NEW w \in Wsis, Callback(w) PROVE OneGatewayConnection'
    BY <1>4, CallbackOwn
  <1> QED
    BY <1>1, <1>2, <1>3, <1>4
       DEF Next, Service, ServiceMissedAck, ServiceCantFitHeartbeat, ServicePolls,
           ServiceReturns, AppConnects, AppCantConnect, Elapse, Crashed, vars, context_vars,
           wsi_vars

\* A connection that receives a message is there, and the buffer holds the message.
Reassembly ==
    \A w \in Wsis : rx_message[w] # NoMessage => rx_buffer = w /\ wsi_state[w] # "free"

\* Reassembly is kept: the fragments of two connections never meet.
LEMMA ReassemblyStep ==
    ASSUME ~AppMayConnect, TypeOK, OneGatewayConnection, Reassembly, [Next]_vars
    PROVE  Reassembly'
  <1> USE DEF Reassembly
  <1>0. /\ wsi_state \in [Wsis -> {"free", "connecting", "open", "closing"}]
        /\ rx_message \in [Wsis -> RxPayload \cup {NoMessage}]
    BY DEF TypeOK
  <1>1. CASE UNCHANGED <<rx_buffer, rx_message, wsi_state>>
    BY <1>1
  <1>2. ASSUME NEW w \in Wsis, ld_connect(ConnectStarts(w)) PROVE Reassembly'
    BY <1>0, <1>2 DEF ld_connect, ConnectStarts
  <1>3. CASE ld_connect(ConnectFails)
    BY <1>1, <1>3 DEF ld_connect, ConnectFails
  <1>4. ASSUME NEW w \in Wsis, Callback(w) PROVE Reassembly'
    <2>1. \A v \in Wsis \ {w} : rx_message'[v] = NoMessage
      BY <1>4, CallbackOwn DEF OneGatewayConnection
    <2> SUFFICES ASSUME rx_message'[w] # NoMessage
                 PROVE  rx_buffer' = w /\ wsi_state'[w] # "free"
      BY <2>1
    <2>2. CASE ConnectionError(w) \/ WsiDestroy(w)
      BY <1>0, <2>2 DEF ConnectionError, WsiDestroy, Gone
    <2>3. CASE Established(w)
      BY <1>0, <2>3 DEF Established
    <2>4. CASE Drop(w)
      BY <1>0, <2>4 DEF Drop, Hangup, context_vars
    <2>5. ASSUME NEW code \in CloseCodes, PeerInitiatedClose(w, code)
          PROVE  rx_buffer' = w /\ wsi_state'[w] # "free"
      BY <1>0, <2>5 DEF PeerInitiatedClose, Hangup
    <2>6. ASSUME NEW p \in RxPayload, ReceiveWhole(w, p)
          PROVE  rx_buffer' = w /\ wsi_state'[w] # "free"
      BY <2>6 DEF ReceiveWhole
    <2>7. ASSUME NEW p \in Fragmented, ReceiveFirst(w, p)
          PROVE  rx_buffer' = w /\ wsi_state'[w] # "free"
      BY <2>7 DEF ReceiveFirst, BufferAfterFirst, Receiving, parser_vars
    <2>8. CASE ReceiveMiddle(w)
      BY <2>8 DEF ReceiveMiddle, Receiving, wsi_vars
    <2>9. CASE ReceiveLast(w)
      BY <1>0, <2>9 DEF ReceiveLast
    <2>10. CASE Writeable(w)
      BY <1>0, <2>10 DEF Writeable, OnTheWire, WriteFails, Hangup
    <2> QED
      BY <1>4, <2>2, <2>3, <2>4, <2>5, <2>6, <2>7, <2>8, <2>9, <2>10 DEF Callback
  <1> QED
    BY <1>1, <1>2, <1>3, <1>4
       DEF Next, Service, ServiceConnects, ServiceCantConnect, ServiceMissedAck,
           ServiceCantFitHeartbeat, ServicePolls, ServiceReturns, AppConnects, AppCantConnect,
           Elapse, Crashed, vars, context_vars, wsi_vars

\* OneGatewayConnection, for any number of connections that come and go.
THEOREM SingleConnection == ~AppMayConnect /\ Spec => []OneGatewayConnection
  <1> SUFFICES ASSUME ~AppMayConnect PROVE Spec => []OneGatewayConnection
    OBVIOUS
  <1>1. Init => TypeOK /\ Accounting /\ OneGatewayConnection
    <2>1. Init => OneGatewayConnection
      BY DEF Init, OneGatewayConnection
    <2> QED
      BY <2>1, InitType, InitAccounting
  <1>2. TypeOK /\ Accounting /\ OneGatewayConnection /\ [Next]_vars
            => (TypeOK /\ Accounting /\ OneGatewayConnection)'
    BY TypeStep, AccountingStep, OneConnectionStep
  <1> QED
    BY <1>1, <1>2, PTL DEF Spec

\* FragmentsReassemble: although no connection resets the rx buffer, what one leaves
\* in it never ends up in another one's message.
THEOREM MessagesReassemble == ~AppMayConnect /\ Spec => []FragmentsReassemble
  <1> SUFFICES ASSUME ~AppMayConnect PROVE Spec => []FragmentsReassemble
    OBVIOUS
  <1> DEFINE I == TypeOK /\ Accounting /\ OneGatewayConnection /\ Reassembly
  <1>1. Init => I
    <2>1. Init => OneGatewayConnection /\ Reassembly
      BY DEF Init, OneGatewayConnection, Reassembly
    <2> QED
      BY <2>1, InitType, InitAccounting
  <1>2. I /\ [Next]_vars => I'
    BY TypeStep, AccountingStep, OneConnectionStep, ReassemblyStep
  <1>3. I => FragmentsReassemble
    BY DEF Reassembly, FragmentsReassemble
  <1> QED
    BY <1>1, <1>2, <1>3, PTL DEF Spec

(***************************************************************************)
(* HELLO is answered                                                        *)
(***************************************************************************)

HasIdentify(r) == \E i \in DOMAIN r : r[i] = "IDENTIFY"

\* An insertion, into a full ring or not, keeps what is there.
LEMMA InsertKeepsIdentify ==
    ASSUME NEW r \in Seq(TxPayload), NEW p \in TxPayload, HasIdentify(r)
    PROVE  HasIdentify(RingInsert(r, p))
  <1>1. CASE RingFree(r) = 0
    BY <1>1 DEF RingInsert
  <1>2. CASE RingFree(r) # 0
    <2>1. HasIdentify(Append(r, p))
      BY DEF HasIdentify
    <2> QED
      BY <1>2, <2>1 DEF RingInsert
  <1> QED
    BY <1>1, <1>2

\* After the insertion of an IDENTIFY there is one, even if the ring was full and
\* took nothing: then it has two payloads, and they are not both heartbeats.
LEMMA IdentifyIsThere ==
    ASSUME Capacity >= 2, NEW r \in Seq(TxPayload), Len(r) <= Capacity,
           \A i, j \in HeartbeatsIn(r) : i = j
    PROVE  HasIdentify(RingInsert(r, "IDENTIFY"))
  <1>0. Capacity \in Nat /\ Len(r) \in Nat
    BY RingAssumption
  <1>1. CASE RingFree(r) = 0
    <2>1. Len(r) >= 2
      BY <1>0, <1>1 DEF RingFree
    <2>2. 1 \in DOMAIN r /\ 2 \in DOMAIN r
      BY <2>1
    <2>3. ~(r[1] = "HEARTBEAT" /\ r[2] = "HEARTBEAT")
      BY <2>2 DEF HeartbeatsIn
    <2>4. r[1] \in TxPayload /\ r[2] \in TxPayload
      BY <2>2
    <2> QED
      BY <1>1, <2>2, <2>3, <2>4 DEF HasIdentify, RingInsert, TxPayload
  <1>2. CASE RingFree(r) # 0
    <2>1. HasIdentify(Append(r, "IDENTIFY"))
      BY DEF HasIdentify
    <2> QED
      BY <1>2, <2>1 DEF RingInsert
  <1> QED
    BY <1>1, <1>2

\* Taking a heartbeat out of the ring leaves the IDENTIFYs.
LEMMA RestKeepsIdentify ==
    ASSUME NEW r \in Seq(TxPayload), RingWaiting(r) # 0, RingOldest(r) = "HEARTBEAT",
           HasIdentify(r)
    PROVE  HasIdentify(RingRest(r))
  <1>1. r # <<>> /\ Len(r) \in Nat
    BY DEF RingWaiting
  <1>2. PICK i \in DOMAIN r : r[i] = "IDENTIFY"
    BY DEF HasIdentify
  <1>3. i # 1
    BY <1>1, <1>2 DEF RingOldest
  <1>4. i - 1 \in DOMAIN Tail(r) /\ Tail(r)[i - 1] = r[i]
    BY <1>1, <1>2, <1>3
  <1> QED
    BY <1>2, <1>4 DEF HasIdentify, RingRest

\* HelloAnswered, and that a connection in progress has handled no HELLO.
Answered ==
    /\ \A w \in Wsis : wsi_state[w] = "connecting" => ~hello_parsed[w]
    /\ \A w \in Wsis : wsi_state[w] = "free" => ~hello_parsed[w]
    /\ phase # "crashed" =>
           \A w \in Wsis : wsi_state[w] = "open" /\ hello_parsed[w]
                               => identified[w] \/ HasIdentify(ring)

\* What a connection needs of a callback about it: this is Answered' for one w.
AnsweredFor(w) ==
    /\ wsi_state[w] \in {"connecting", "free"} => ~hello_parsed[w]
    /\ phase # "crashed" /\ wsi_state[w] = "open" /\ hello_parsed[w]
           => identified[w] \/ HasIdentify(ring)

\* Parsing keeps it: only a HELLO asks for something, and gets it.
LEMMA AnsweredParse ==
    ASSUME Capacity >= 2, TypeOK, Accounting, phase = "service",
           NEW w \in Wsis, AnsweredFor(w), NEW p \in RxPayload, Parse(w, p),
           wsi_state[w] = "open", UNCHANGED identified
    PROVE  AnsweredFor(w)'
  <1> USE DEF AnsweredFor
  <1>0. /\ wsi_state \in [Wsis -> {"free", "connecting", "open", "closing"}]
        /\ hello_parsed \in [Wsis -> BOOLEAN]
        /\ ring \in Seq(TxPayload) /\ Len(ring) <= Capacity
    BY DEF TypeOK
  <1>1. CASE p = "HELLO" /\ ParseHello(w)
    <2>1. HasIdentify(WithIdentify(ring))
      BY <1>0, IdentifyIsThere DEF WithIdentify, Accounting, OneQueued
    <2>2. CASE ring' = WithIdentify(ring) /\ UNCHANGED wsi_state
      BY <2>1, <2>2
    <2>3. CASE Hangup(w)
      BY <1>0, <2>3 DEF Hangup
    <2>4. CASE phase' = "crashed" /\ UNCHANGED wsi_state
      BY <2>4
    <2> QED
      BY <1>1, <2>2, <2>3, <2>4 DEF ParseHello
  <1>2. CASE UNCHANGED <<ring, hello_parsed, phase>> /\ (Hangup(w) \/ UNCHANGED wsi_state)
    BY <1>0, <1>2 DEF Hangup
  <1> QED
    BY <1>1, <1>2 DEF Parse, ParseAck, ParseDispatch, MayHangup, ParseInvalidSession, ParseBad,
                      parser_vars

\* Every step keeps it.
LEMMA AnsweredStep ==
    ASSUME ~AppMayConnect, Capacity >= 2, TypeOK, Accounting, OneGatewayConnection, Answered,
           [Next]_vars
    PROVE  Answered'
  <1>0. /\ wsi_state \in [Wsis -> {"free", "connecting", "open", "closing"}]
        /\ hello_parsed \in [Wsis -> BOOLEAN]
        /\ ring \in Seq(TxPayload) /\ Len(ring) <= Capacity
    BY DEF TypeOK
  \* Steps outside the callback: the ring may only gain.
  <1>a. ASSUME UNCHANGED <<wsi_state, hello_parsed, identified>>, phase' # "crashed",
               HasIdentify(ring) => HasIdentify(ring'), phase # "crashed"
        PROVE  Answered'
    BY <1>a DEF Answered
  <1>1. CASE UNCHANGED vars
    BY <1>1 DEF vars, context_vars, wsi_vars, gateway_vars, Answered
  <1>2. ASSUME NEW w \in Wsis, ld_connect(ConnectStarts(w)) PROVE Answered'
    <2>1. wsi_state' = [wsi_state EXCEPT ![w] = "connecting"] /\ wsi_state[w] = "free"
      BY <1>2 DEF ld_connect, ConnectStarts
    <2> QED
      BY <1>0, <1>2, <2>1 DEF ld_connect, gateway_vars, Answered
  <1>3. CASE ld_connect(ConnectFails)
    BY <1>3, <1>a DEF ld_connect, ConnectFails, gateway_vars
  <1>4. CASE ServiceMissedAck \/ ServiceCantFitHeartbeat
    BY <1>4, <1>a DEF ServiceMissedAck, ServiceCantFitHeartbeat, gateway_vars, wsi_vars
  <1>5. CASE ServicePolls
    <2>1. HasIdentify(ring) => HasIdentify(ring')
      BY <1>0, <1>5, InsertKeepsIdentify
         DEF ServicePolls, QueuesHeartbeat, NoHeartbeatNeeded, TxPayload
    <2> QED
      BY <1>5, <2>1, <1>a DEF ServicePolls, EntersService, gateway_vars
  <1>6. CASE ServiceReturns
    BY <1>6, <1>a DEF ServiceReturns, context_vars, wsi_vars, gateway_vars
  <1>7. CASE Elapse
    BY <1>7, <1>a DEF Elapse, wsi_vars, gateway_vars
  <1>8. ASSUME NEW w \in Wsis, Callback(w) PROVE Answered'
    <2>1. \A v \in Wsis \ {w} : wsi_state'[v] = "free"
      BY <1>8, CallbackOwn DEF OneGatewayConnection
    <2>2. AnsweredFor(w)
      BY <1>0 DEF Answered, AnsweredFor
    <2>3. AnsweredFor(w)'
      <3> USE <2>2 DEF AnsweredFor
      <3>1. CASE ConnectionError(w) \/ WsiDestroy(w)
        BY <1>0, <3>1 DEF ConnectionError, WsiDestroy, Gone
      <3>2. CASE Established(w)
        BY <1>0, <3>2 DEF Established, gateway_vars
      <3>3. CASE Drop(w)
        BY <1>0, <3>3 DEF Drop, Hangup, context_vars, gateway_vars
      <3>4. ASSUME NEW code \in CloseCodes, PeerInitiatedClose(w, code) PROVE AnsweredFor(w)'
        BY <1>0, <3>4 DEF PeerInitiatedClose, Hangup, gateway_vars
      <3>5. ASSUME NEW p \in RxPayload, ReceiveWhole(w, p) PROVE AnsweredFor(w)'
        <4>1. CASE Parse(w, p)
          BY <3>5, <4>1, AnsweredParse DEF ReceiveWhole, Receiving
        <4>2. CASE UNCHANGED parser_vars
          BY <3>5, <4>2 DEF ReceiveWhole, Receiving, parser_vars
        <4> QED
          BY <3>5, <4>1, <4>2 DEF ReceiveWhole
      <3>6. ASSUME NEW p \in Fragmented, ReceiveFirst(w, p) PROVE AnsweredFor(w)'
        BY <3>6 DEF ReceiveFirst, Receiving, parser_vars
      <3>7. CASE ReceiveMiddle(w)
        BY <3>7 DEF ReceiveMiddle, Receiving, wsi_vars, gateway_vars
      <3>8. CASE ReceiveLast(w)
        <4> DEFINE p == IF rx_buffer = w THEN rx_message[w] ELSE "BAD"
        <4>1. p \in RxPayload /\ Parse(w, p)
          BY <3>8 DEF ReceiveLast, RxPayload, TypeOK
        <4> HIDE DEF p
        <4> QED
          BY <3>8, <4>1, AnsweredParse DEF ReceiveLast, Receiving
      <3>9. CASE Writeable(w)
        <4>1. CASE RingWaiting(ring) = 0
          BY <3>9, <4>1 DEF Writeable
        <4>2. CASE RingWaiting(ring) # 0 /\ WriteFails(w)
          BY <1>0, <3>9, <4>2 DEF Writeable, WriteFails, Hangup
        <4>3. CASE RingWaiting(ring) # 0 /\ OnTheWire(w, RingOldest(ring))
          <5>1. RingOldest(ring) \in TxPayload
            BY <1>0, <4>3, RestType
          <5>2. CASE RingOldest(ring) = "IDENTIFY"
            <6>1. identified'[w]
              BY <4>3, <5>2 DEF OnTheWire, TypeOK
            <6> QED
              BY <3>9, <4>3, <6>1 DEF Writeable, OnTheWire
          <5>3. CASE RingOldest(ring) = "HEARTBEAT"
            <6>1. HasIdentify(ring) => HasIdentify(RingRest(ring))
              BY <1>0, <4>3, <5>3, RestKeepsIdentify
            <6> QED
              BY <3>9, <4>3, <5>3, <6>1 DEF Writeable, OnTheWire
          <5> QED
            BY <5>1, <5>2, <5>3 DEF TxPayload
        <4> QED
          BY <3>9, <4>1, <4>2, <4>3 DEF Writeable
      <3> QED
        BY <1>8, <3>1, <3>2, <3>3, <3>4, <3>5, <3>6, <3>7, <3>8, <3>9 DEF Callback
    <2>4. \A v \in Wsis \ {w} : ~hello_parsed'[v]
      <3>1. \A v \in Wsis \ {w} : ~hello_parsed[v]
        BY <1>8, CallbackOwn DEF OneGatewayConnection, Answered
      <3>2. ASSUME NEW p, Parse(w, p)
            PROVE  \A v \in Wsis \ {w} : hello_parsed'[v] = hello_parsed[v]
        BY <1>0, <3>2 DEF Parse, ParseHello, ParseAck, ParseDispatch, ParseInvalidSession,
                          ParseBad, parser_vars
      <3>3. \A v \in Wsis \ {w} : hello_parsed'[v] = hello_parsed[v]
        BY <1>0, <1>8, <3>2
           DEF Callback, ConnectionError, Gone, Established, Drop, PeerInitiatedClose,
               WsiDestroy, ReceiveWhole, ReceiveFirst, ReceiveMiddle, ReceiveLast, Writeable,
               parser_vars, gateway_vars
      <3> QED
        BY <3>1, <3>3
    <2> QED
      BY <2>1, <2>3, <2>4 DEF Answered, AnsweredFor
  <1> QED
    BY <1>1, <1>2, <1>3, <1>4, <1>5, <1>6, <1>7, <1>8
       DEF Next, Service, ServiceConnects, ServiceCantConnect, AppConnects, AppCantConnect,
           Crashed

\* HelloAnswered: although the result of the insertion is ignored, every HELLO that
\* is handled has its IDENTIFY sent or waiting, if the ring holds two payloads at
\* least (gateway_ringbuffer_size of three or more).
THEOREM HelloGetsIdentify == ~AppMayConnect /\ Capacity >= 2 /\ Spec => []HelloAnswered
  <1> SUFFICES ASSUME ~AppMayConnect, Capacity >= 2 PROVE Spec => []HelloAnswered
    OBVIOUS
  <1> DEFINE I == TypeOK /\ Accounting /\ OneGatewayConnection /\ Answered
  <1>1. Init => I
    <2>1. Init => OneGatewayConnection /\ Answered
      BY DEF Init, OneGatewayConnection, Answered
    <2> QED
      BY <2>1, InitType, InitAccounting
  <1>2. I /\ [Next]_vars => I'
    BY TypeStep, AccountingStep, OneConnectionStep, AnsweredStep
  <1>3. I => HelloAnswered
    BY DEF Answered, HelloAnswered, HasIdentify
  <1> QED
    BY <1>1, <1>2, <1>3, PTL DEF Spec

(***************************************************************************)
(* The client implements the heartbeat monitor                              *)
(***************************************************************************)

\* That an answer may still come, without the set of places.
Owed ==
    \/ HeartbeatsIn(ring) # {}
    \/ \E w \in Wsis : unacked[w] > 0
    \/ \E w \in Wsis : rx_message[w] = "ACK"

\* The two ways to say it agree.
LEMMA OwedMeaning == Outstanding # {} <=> Owed
  <1> DEFINE Queued == {<<"queued", i>> : i \in HeartbeatsIn(ring)}
             Sent == {<<"sent", w>> : w \in {v \in Wsis : unacked[v] > 0}}
             Answers == {<<"answered", w>> : w \in {v \in Wsis : rx_message[v] = "ACK"}}
  <1>1. Outstanding = Queued \cup Sent \cup Answers
    BY DEF Outstanding
  <1>2. Queued # {} <=> HeartbeatsIn(ring) # {}
    OBVIOUS
  <1>3. Sent # {} <=> \E w \in Wsis : unacked[w] > 0
    OBVIOUS
  <1>4. Answers # {} <=> \E w \in Wsis : rx_message[w] = "ACK"
    OBVIOUS
  <1> HIDE DEF Queued, Sent, Answers
  <1> QED
    BY <1>1, <1>2, <1>3, <1>4 DEF Owed

\* What the induction has established of a state.
MonitorInv == TypeOK /\ Accounting /\ MissedAckStopsService

\* A step that does not touch the counter and creates no heartbeat loses one, or is
\* none of the monitor's.
LEMMA MonitorLoses ==
    ASSUME hb_count' = hb_count, Owed' => Owed
    PROVE  [Monitor!Next]_(Monitor!vars)
  <1>1. Outstanding' # {} => Outstanding # {}
    <2>1. (Outstanding # {} <=> Owed)'
      BY OwedMeaning, PTL
    <2> QED
      BY <2>1, OwedMeaning
  <1> QED
    BY <1>1 DEF Monitor!Next, Monitor!Lose, Monitor!vars

\* An ACK is parsed: it answers the only heartbeat there is.
LEMMA MonitorAnswers ==
    ASSUME MonitorInv, Owed, ~Owed', phase = "service", hb_count' = hb_count - 1
    PROVE  [Monitor!Next]_(Monitor!vars)
  <1>1. hb_count = 1
    BY GatewayAssumption
       DEF MonitorInv, Accounting, QueuedAlone, SentAlone, AnswerCounted, Owed, TypeOK,
           MissedAckStopsService
  <1>2. Outstanding # {} /\ Outstanding' = {}
    <2>1. (Outstanding # {} <=> Owed)'
      BY OwedMeaning, PTL
    <2> QED
      BY <2>1, OwedMeaning
  <1> QED
    BY <1>1, <1>2 DEF Monitor!Next, Monitor!Answer

\* Every step of the client is one of the monitor, or none.
LEMMA MonitorStep ==
    ASSUME MonitorInv, [Next]_vars
    PROVE  [Monitor!Next]_(Monitor!vars)
  <1> DEFINE Goal == [Monitor!Next]_(Monitor!vars)
  <1> SUFFICES Goal
    OBVIOUS
  <1> HIDE DEF Goal
  <1> USE DEF context_vars, wsi_vars, gateway_vars
  <1>0. TypeOK /\ Accounting /\ MissedAckStopsService
    BY DEF MonitorInv
  <1>lose. ASSUME hb_count' = hb_count, Owed' => Owed PROVE Goal
    BY <1>lose, MonitorLoses DEF Goal
  <1>same. ASSUME UNCHANGED <<hb_count, ring, unacked, rx_message>> PROVE Goal
    <2>1. Owed' => Owed
      BY <1>same DEF Owed
    <2> QED
      BY <1>same, <1>lose, <2>1
  <1>1. CASE UNCHANGED vars
    BY <1>1, <1>same DEF vars
  <1>2. ASSUME NEW w \in Wsis, ld_connect(ConnectStarts(w)) PROVE Goal
    BY <1>2, <1>same DEF ld_connect
  <1>3. CASE ld_connect(ConnectFails)
    BY <1>3, <1>same DEF ld_connect
  <1>4. CASE ServiceMissedAck
    <2>1. hb_count \in Nat /\ hb_count >= 1 /\ hb_count' >= 2
      BY <1>0, <1>4, GatewayAssumption DEF ServiceMissedAck, MissedAck, CountedAgain, TypeOK
    <2>2. Outstanding' = Outstanding
      BY <1>4 DEF ServiceMissedAck, Outstanding
    <2>3. hb_count' \in Nat
      BY <1>0, <1>4, GatewayAssumption DEF ServiceMissedAck, CountedAgain, TypeOK
    <2> QED
      BY <2>1, <2>2, <2>3 DEF Goal, Monitor!Next, Monitor!Miss, Monitor!vars
  <1>5. CASE ServiceCantFitHeartbeat
    BY <1>5, <1>same DEF ServiceCantFitHeartbeat, CountTakenBack
  <1>6. CASE ServicePolls
    <2>1. CASE NoHeartbeatNeeded
      BY <1>6, <2>1, <1>same DEF ServicePolls, NoHeartbeatNeeded
    <2>2. CASE QueuesHeartbeat
      <3>1. hb_count = 0 /\ hb_count' = 1
        BY <1>0, <2>2, GatewayAssumption DEF QueuesHeartbeat, MissedAck, TypeOK
      <3>2. Outstanding = {}
        BY <1>0, <3>1, AccountingMeaning DEF OneHeartbeatOutstanding
      <3>3. HeartbeatsIn(ring) = {}
        BY <1>0, <3>1 DEF Accounting, QueuedAlone
      <3>4. HeartbeatsIn(ring') = {Len(ring) + 1}
        BY <1>0, <2>2, <3>3, InsertHeartbeat DEF QueuesHeartbeat, TypeOK
      <3>5. (Outstanding # {} <=> Owed)'
        BY OwedMeaning, PTL
      <3>6. Outstanding' # {}
        BY <3>4, <3>5 DEF Owed
      <3> QED
        BY <3>1, <3>2, <3>6 DEF Goal, Monitor!Next, Monitor!Send
    <2> QED
      BY <1>6, <2>1, <2>2 DEF ServicePolls
  <1>7. CASE ServiceReturns
    BY <1>7, <1>same DEF ServiceReturns
  <1>8. CASE Elapse
    BY <1>8, <1>same DEF Elapse
  <1>9. ASSUME NEW w \in Wsis, ConnectionError(w) \/ WsiDestroy(w) PROVE Goal
    <2>1. Gone(w)
      BY <1>9 DEF ConnectionError, WsiDestroy
    <2>2. Owed' => Owed
      <3>1. \A v \in Wsis : unacked'[v] > 0 => unacked[v] > 0
        BY <1>0, <2>1 DEF Gone, TypeOK
      <3>2. \A v \in Wsis : rx_message'[v] = "ACK" => rx_message[v] = "ACK"
        BY <1>0, <2>1 DEF Gone, TypeOK, NoMessage
      <3> QED
        BY <2>1, <3>1, <3>2 DEF Owed, Gone
    <2> QED
      BY <1>lose, <2>1, <2>2 DEF Gone
  <1>10. ASSUME NEW w \in Wsis, Established(w) PROVE Goal
    BY <1>10, <1>same DEF Established
  <1>11. ASSUME NEW w \in Wsis, Drop(w) PROVE Goal
    BY <1>11, <1>same DEF Drop
  <1>12. ASSUME NEW w \in Wsis, NEW code \in CloseCodes, PeerInitiatedClose(w, code) PROVE Goal
    BY <1>12, <1>same DEF PeerInitiatedClose
  <1>13. ASSUME NEW w \in Wsis, NEW p \in RxPayload, ReceiveWhole(w, p) PROVE Goal
    <2>0. GatewaySends(w, p) /\ rx_message' = rx_message /\ phase = "service"
      BY <1>13 DEF ReceiveWhole, Receiving
    <2>1. CASE p = "ACK"
      <3>1. Owed
        BY <2>0, <2>1 DEF GatewaySends, Owed
      <3>2. CASE Parse(w, p)
        <4>1. hb_count' = hb_count - 1 /\ HeartbeatsIn(ring') = HeartbeatsIn(ring)
          BY <1>0, <2>1, <3>2, ParseHeartbeats
        <4>2. HeartbeatsIn(ring) = {} /\ \A v \in Wsis : unacked'[v] = 0 /\ rx_message[v] # "ACK"
          BY <1>0, <2>0, <2>1, AnswerTakesTheOnlyOne
        <4>3. ~Owed'
          BY <2>0, <4>1, <4>2 DEF Owed
        <4> QED
          BY <2>0, <3>1, <4>1, <4>3, MonitorAnswers DEF Goal
      <3>3. CASE UNCHANGED parser_vars
        BY <3>1, <3>3, <1>lose DEF parser_vars
      <3> QED
        BY <1>13, <3>2, <3>3 DEF ReceiveWhole
    <2>2. CASE p # "ACK"
      <3>1. hb_count' = hb_count /\ HeartbeatsIn(ring') = HeartbeatsIn(ring)
        BY <1>0, <1>13, <2>2, ParseHeartbeats DEF ReceiveWhole, parser_vars
      <3>2. unacked' = unacked
        BY <2>0, <2>2, OtherSends
      <3> QED
        BY <2>0, <3>1, <3>2, <1>lose DEF Owed
    <2> QED
      BY <2>1, <2>2
  <1>14. ASSUME NEW w \in Wsis, NEW p \in Fragmented, ReceiveFirst(w, p) PROVE Goal
    <2>0. /\ GatewaySends(w, p) /\ rx_message' = [rx_message EXCEPT ![w] = p]
          /\ hb_count' = hb_count /\ ring' = ring
      BY <1>14 DEF ReceiveFirst, parser_vars
    <2>1. CASE p = "ACK"
      BY <2>0, <2>1, <1>lose DEF GatewaySends, Owed
    <2>2. CASE p # "ACK"
      <3>1. unacked' = unacked
        BY <2>0, <2>2, OtherSends
      <3>2. \A v \in Wsis : rx_message'[v] = "ACK" => rx_message[v] = "ACK"
        BY <1>0, <2>0, <2>2 DEF TypeOK
      <3>3. Owed' => Owed
        BY <2>0, <3>1, <3>2 DEF Owed
      <3> QED
        BY <2>0, <3>3, <1>lose
    <2> QED
      BY <2>1, <2>2
  <1>15. ASSUME NEW w \in Wsis, ReceiveMiddle(w) PROVE Goal
    BY <1>15, <1>same DEF ReceiveMiddle
  <1>16. ASSUME NEW w \in Wsis, ReceiveLast(w) PROVE Goal
    <2> DEFINE p == IF rx_buffer = w THEN rx_message[w] ELSE "BAD"
    <2>0. p \in RxPayload /\ Parse(w, p) /\ phase = "service"
      BY <1>0, <1>16 DEF ReceiveLast, Receiving, RxPayload, TypeOK
    <2>1. p = "ACK" => rx_message[w] = "ACK"
      OBVIOUS
    <2> HIDE DEF p
    <2>2. unacked' = unacked /\ rx_message' = [rx_message EXCEPT ![w] = NoMessage]
      BY <1>16 DEF ReceiveLast
    <2>3. \A v \in Wsis : rx_message'[v] = "ACK" => v # w /\ rx_message[v] = "ACK"
      BY <1>0, <2>2 DEF TypeOK, NoMessage
    <2>4. /\ hb_count' = IF p = "ACK" THEN hb_count - 1 ELSE hb_count
          /\ HeartbeatsIn(ring') = HeartbeatsIn(ring)
      BY <1>0, <2>0, ParseHeartbeats
    <2>5. CASE p = "ACK"
      <3>1. Owed
        BY <2>1, <2>5 DEF Owed
      <3>2. \A v \in Wsis : rx_message'[v] # "ACK"
        BY <1>0, <2>1, <2>3, <2>5 DEF Accounting, OneAnswered
      <3>3. HeartbeatsIn(ring') = {} /\ \A v \in Wsis : ~(unacked'[v] > 0)
        BY <1>0, <2>1, <2>2, <2>4, <2>5 DEF Accounting, QueuedAlone, SentAlone
      <3>4. ~Owed'
        BY <3>2, <3>3 DEF Owed
      <3> QED
        BY <2>0, <2>4, <2>5, <3>1, <3>4, MonitorAnswers DEF Goal
    <2>6. CASE p # "ACK"
      <3>1. Owed' => Owed
        BY <2>2, <2>3, <2>4 DEF Owed
      <3> QED
        BY <2>4, <2>6, <3>1, <1>lose
    <2> QED
      BY <2>5, <2>6
  <1>17. ASSUME NEW w \in Wsis, Writeable(w) PROVE Goal
    <2>0. hb_count' = hb_count /\ rx_message' = rx_message /\ ring \in Seq(TxPayload)
      BY <1>0, <1>17 DEF Writeable, TypeOK
    <2>1. CASE RingWaiting(ring) = 0
      BY <1>17, <2>0, <2>1, <1>same DEF Writeable
    <2>2. CASE RingWaiting(ring) # 0
      <3>1. HeartbeatsIn(ring') # {} => HeartbeatsIn(ring) # {}
        BY <1>17, <2>0, <2>2, RestHeartbeats DEF Writeable
      <3>2. unacked' = unacked \/ HeartbeatsIn(ring) # {}
        BY <1>17, <2>0, <2>2, RestHeartbeats DEF Writeable, OnTheWire, WriteFails
      <3>3. Owed' => Owed
        BY <2>0, <3>1, <3>2 DEF Owed
      <3> QED
        BY <2>0, <3>3, <1>lose
    <2> QED
      BY <2>1, <2>2
  <1> QED
    BY <1>1, <1>2, <1>3, <1>4, <1>5, <1>6, <1>7, <1>8, <1>9, <1>10, <1>11, <1>12, <1>13, <1>14,
       <1>15, <1>16, <1>17, GatewayAssumption
       DEF Next, Service, Callback, ServiceConnects, ServiceCantConnect, AppConnects,
           AppCantConnect, Crashed

\* HeartbeatsAreMonitored: the bookkeeping spread over ld_service, the ring, the
\* callback and the parser implements HeartbeatMonitor.
THEOREM ImplementsMonitor == Spec => HeartbeatsAreMonitored
  <1>1. Init => MonitorInv /\ Monitor!Init
    <2>1. Init => MissedAckStopsService
      BY DEF Init, MissedAckStopsService
    <2>2. Init => Monitor!Init
      <3> SUFFICES ASSUME Init PROVE Monitor!Init
        OBVIOUS
      <3>1. ~Owed
        BY DEF Init, Owed, HeartbeatsIn, NoMessage
      <3>2. Outstanding = {}
        BY <3>1, OwedMeaning
      <3> QED
        BY <3>2 DEF Init, Monitor!Init
    <2> QED
      BY <2>1, <2>2, InitType, InitAccounting DEF MonitorInv
  <1>2. MonitorInv /\ [Next]_vars => MonitorInv'
    BY TypeStep, AccountingStep, MissedAckStep DEF MonitorInv
  <1>3. MonitorInv /\ [Next]_vars => [Monitor!Next]_(Monitor!vars)
    BY MonitorStep
  <1> QED
    BY <1>1, <1>2, <1>3, PTL DEF Spec, HeartbeatsAreMonitored, Monitor!Spec
============================================================================
