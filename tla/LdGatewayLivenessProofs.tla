---------------------- MODULE LdGatewayLivenessProofs ----------------------
(***************************************************************************)
(* Proofs of the liveness properties of LdGateway, for every ring and every *)
(* set of connections.  The prover knows nothing of ENABLED; that the steps *)
(* which fairness is about can be taken is the hypothesis []ClientCanStep   *)
(* of the theorems, a property of states that TLC checks.                   *)
(***************************************************************************)
EXTENDS LdGatewaySafetyProofs

\* What holds of every state.
Known == TypeOK /\ Accounting /\ OneGatewayConnection

\* It does.
LEMMA KnownHolds == ~AppMayConnect /\ Spec => []Known
  <1> SUFFICES ASSUME ~AppMayConnect PROVE Spec => []Known
    OBVIOUS
  <1>1. Init => Known
    BY InitType, InitAccounting DEF Init, OneGatewayConnection, Known
  <1>2. Known /\ [Next]_vars => Known'
    BY TypeStep, AccountingStep, OneConnectionStep DEF Known
  <1> QED
    BY <1>1, <1>2, PTL DEF Spec

\* A connection that is there is the one ld_service looks after: outside lws_service the
\* next step of a client that is not stuck is into it.
LEMMA EntersWhenBusy ==
    ASSUME Known, NEW w \in Wsis, wsi_state[w] # "free", phase = "app", ~Stuck, Service
    PROVE  phase' = "service" /\ ServicePolls
  <1>1. lws_wsi = w /\ lws_wsi # NULL
    BY GatewayAssumption DEF Known, OneGatewayConnection
  <1>2. ServicePolls
    BY <1>1 DEF Service, ServiceConnects, ServiceCantConnect, ServiceMissedAck,
                ServiceCantFitHeartbeat, Stuck, Stalled
  <1> QED
    BY <1>2 DEF ServicePolls, EntersService

----------------------------------------------------------------------------
(***************************************************************************)
(* Connections settle                                                       *)
(***************************************************************************)

\* What the theorems are about: a fair client whose steps can be taken.
LiveClient == FairSpec /\ []ClientCanStep

\* The fairness of a single connection.
LEMMA LiveFacts ==
    ASSUME ~AppMayConnect, NEW w \in Wsis
    PROVE  LiveClient => /\ []Known /\ []ClientCanStep /\ [][Next]_vars
                         /\ WF_vars(Service) /\ WF_vars(ServiceReturns)
                         /\ ConnectionFairness(w)
  <1>1. LwsFairness => ConnectionFairness(w)
    BY DEF LwsFairness
  <1> QED
    BY <1>1, KnownHolds, PTL DEF LiveClient, FairSpec, Fairness, Spec

\* A connection in progress succeeds or fails, because the client keeps calling lws_service
\* until it does, and lws gets round to every descriptor.
LEMMA ConnectingSettles ==
    ASSUME ~AppMayConnect, NEW w \in Wsis
    PROVE  LiveClient => Settles(w, "connecting")
  <1> DEFINE In == wsi_state[w] = "connecting"
             Out == ConnectionError(w) \/ Established(w)
             App == phase = "app"
             Inside == phase = "service"
  <1>1. Known /\ In /\ ~Stuck /\ App /\ <<Service>>_vars => Inside'
    BY EntersWhenBusy
  <1>2. Known /\ ~Stuck => App \/ Inside
    BY DEF Known, TypeOK, Stuck
  <1>3. Known /\ <<Out>>_vars => ~In'
    BY DEF Known, TypeOK, ConnectionError, Established, Gone
  <1>4. Known /\ ClientCanStep /\ In /\ ~Stuck /\ App => ENABLED <<Service>>_vars
    BY GatewayAssumption DEF ClientCanStep, Known, OneGatewayConnection, Stuck
  <1>5. ClientCanStep /\ In /\ Inside => ENABLED <<Out>>_vars
    BY DEF ClientCanStep
  <1>6. ~In <=> wsi_state[w] # "connecting"
    OBVIOUS
  <1>7. LiveClient => /\ []Known /\ []ClientCanStep
                      /\ WF_vars(Service) /\ SF_vars(Out)
    BY LiveFacts, PTL DEF ConnectionFairness
  <1> QED
    BY <1>1, <1>2, <1>3, <1>4, <1>5, <1>6, <1>7, PTL DEF Settles

\* A connection that is closing is let go of, for the same reason.
LEMMA ClosingSettles ==
    ASSUME ~AppMayConnect, NEW w \in Wsis
    PROVE  LiveClient => Settles(w, "closing")
  <1> DEFINE In == wsi_state[w] = "closing"
             Out == WsiDestroy(w)
             App == phase = "app"
             Inside == phase = "service"
  <1>1. Known /\ In /\ ~Stuck /\ App /\ <<Service>>_vars => Inside'
    BY EntersWhenBusy
  <1>2. Known /\ ~Stuck => App \/ Inside
    BY DEF Known, TypeOK, Stuck
  <1>3. Known /\ <<Out>>_vars => ~In'
    BY DEF Known, TypeOK, WsiDestroy, Gone
  <1>4. Known /\ ClientCanStep /\ In /\ ~Stuck /\ App => ENABLED <<Service>>_vars
    BY GatewayAssumption DEF ClientCanStep, Known, OneGatewayConnection, Stuck
  <1>5. ClientCanStep /\ In /\ Inside => ENABLED <<Out>>_vars
    BY DEF ClientCanStep
  <1>6. ~In <=> wsi_state[w] # "closing"
    OBVIOUS
  <1>7. LiveClient => /\ []Known /\ []ClientCanStep
                      /\ WF_vars(Service) /\ SF_vars(Out)
    BY LiveFacts, PTL DEF ConnectionFairness
  <1> QED
    BY <1>1, <1>2, <1>3, <1>4, <1>5, <1>6, <1>7, PTL DEF Settles

\* ConnectionsSettle, for any ring and set of connections: neither ld_service's early
\* returns (short of the stuck client's) nor the order of callbacks can leave a connection
\* half made or half closed.
THEOREM ConnectionsDoSettle == ~AppMayConnect /\ LiveClient => ConnectionsSettle
  <1> SUFFICES ASSUME ~AppMayConnect PROVE LiveClient => ConnectionsSettle
    OBVIOUS
  <1>1. ASSUME NEW w \in Wsis
        PROVE  LiveClient => Settles(w, "connecting") /\ Settles(w, "closing")
    BY ConnectingSettles, ClosingSettles
  <1> QED
    BY <1>1 DEF ConnectionsSettle

----------------------------------------------------------------------------
(***************************************************************************)
(* HELLO is answered on the wire                                            *)
(***************************************************************************)

\* A connection that has handled HELLO and still owes IDENTIFY.
OwesIdentify(w) == wsi_state[w] = "open" /\ hello_parsed[w] /\ ~identified[w] /\ ~Stuck

\* IDENTIFY is what the next writeable callback takes out of the ring.
Foremost == ring # <<>> /\ RingOldest(ring) = "IDENTIFY"

\* An insertion leaves the oldest payload where it is.
LEMMA InsertBehind ==
    ASSUME NEW r \in Seq(TxPayload), NEW p \in TxPayload, r # <<>>
    PROVE  RingInsert(r, p) # <<>> /\ RingOldest(RingInsert(r, p)) = RingOldest(r)
  <1>1. Append(r, p) # <<>> /\ Head(Append(r, p)) = Head(r)
    OBVIOUS
  <1> QED
    BY <1>1 DEF RingInsert, RingOldest

\* While a connection is open, nothing but its own writeable callback takes from the ring or
\* takes back a request for that callback.
LEMMA OnlyWriteableTakes ==
    ASSUME Known, NEW w \in Wsis, wsi_state[w] = "open", [Next]_vars, ~Writeable(w)
    PROVE  /\ pollout \subseteq pollout'
           /\ ring' = ring \/ \E p \in TxPayload : ring' = RingInsert(ring, p)
  <1> DEFINE Kept == /\ pollout \subseteq pollout'
                     /\ ring' = ring \/ \E p \in TxPayload : ring' = RingInsert(ring, p)
  <1> SUFFICES Kept
    OBVIOUS
  <1>1. CASE UNCHANGED <<pollout, ring>>
    BY <1>1
  <1>2. CASE ServicePolls
    BY <1>2 DEF ServicePolls, QueuesHeartbeat, NoHeartbeatNeeded, WriteableRequest, TxPayload
  <1>3. ASSUME NEW v \in Wsis, Callback(v)
        PROVE  Kept
    <2>1. v = w
      BY <1>3, CallbackOwn, GatewayAssumption DEF Known, OneGatewayConnection
    <2>2. ASSUME NEW p, Parse(w, p) PROVE ring' = ring \/ ring' = RingInsert(ring, "IDENTIFY")
      BY <2>2 DEF Parse, ParseHello, WithIdentify, ParseAck, ParseDispatch, ParseInvalidSession,
                  ParseBad, parser_vars
    <2>3. CASE \E p \in RxPayload : ReceiveWhole(w, p)
      BY <2>2, <2>3 DEF ReceiveWhole, parser_vars, TxPayload
    <2>4. CASE \E p \in Fragmented : ReceiveFirst(w, p)
      BY <2>4 DEF ReceiveFirst, parser_vars
    <2>5. CASE ReceiveLast(w)
      BY <2>2, <2>5 DEF ReceiveLast, TxPayload
    <2>6. CASE Drop(w) \/ ReceiveMiddle(w) \/ \E code \in CloseCodes : PeerInitiatedClose(w, code)
      BY <2>6 DEF Drop, ReceiveMiddle, PeerInitiatedClose, context_vars, wsi_vars
    <2> QED
      BY <1>3, <2>1, <2>3, <2>4, <2>5, <2>6
         DEF Callback, ConnectionError, Established, WsiDestroy
  <1> QED
    BY <1>1, <1>2, <1>3
       DEF Next, Service, ServiceConnects, ServiceCantConnect, AppConnects, AppCantConnect,
           ld_connect, ServiceMissedAck, ServiceCantFitHeartbeat, ServiceReturns, Elapse,
           Crashed, vars, context_vars, wsi_vars

\* A writeable callback brings IDENTIFY to the front, since there is one heartbeat at most
\* before it, and the next one sends it or loses the connection.
LEMMA WriteableAdvances ==
    ASSUME Known, HelloAnswered, NEW w \in Wsis, OwesIdentify(w), Writeable(w)
    PROVE  ~OwesIdentify(w)' \/ (~Foremost /\ Foremost')
  <1>0. /\ wsi_state \in [Wsis -> {"free", "connecting", "open", "closing"}]
        /\ identified \in [Wsis -> BOOLEAN]
        /\ ring \in Seq(TxPayload) /\ Len(ring) <= Capacity /\ Len(ring) \in Nat
    BY DEF Known, TypeOK
  <1>1. PICK i \in DOMAIN ring : ring[i] = "IDENTIFY"
    BY DEF HelloAnswered, OwesIdentify, Stuck
  <1>2. RingWaiting(ring) # 0 /\ ring # <<>> /\ RingOldest(ring) = ring[1]
    BY <1>0, <1>1 DEF RingWaiting, RingOldest
  <1>3. CASE WriteFails(w)
    BY <1>0, <1>3 DEF WriteFails, Hangup, OwesIdentify
  <1>4. CASE OnTheWire(w, RingOldest(ring)) /\ RingOldest(ring) = "IDENTIFY"
    <2>1. identified'[w]
      BY <1>0, <1>4 DEF OnTheWire
    <2> QED
      BY <2>1 DEF OwesIdentify
  <1>5. CASE RingOldest(ring) # "IDENTIFY" /\ ring' = RingRest(ring)
    <2>1. ring[1] = "HEARTBEAT" /\ i # 1
      BY <1>0, <1>1, <1>2, <1>5 DEF TxPayload
    <2>2. 2 \in DOMAIN ring /\ 1 \in DOMAIN ring
      BY <1>0, <1>1, <2>1
    <2>3. ring[2] # "HEARTBEAT"
      BY <2>1, <2>2 DEF Known, Accounting, OneQueued, HeartbeatsIn
    <2>4. ring[2] = "IDENTIFY"
      BY <1>0, <2>2, <2>3 DEF TxPayload
    <2>5. Tail(ring) # <<>> /\ Head(Tail(ring)) = ring[2]
      <3>1. Len(ring) >= 2 /\ Tail(ring) \in Seq(TxPayload) /\ Len(Tail(ring)) = Len(ring) - 1
        BY <1>0, <1>2, <2>2
      <3>2. Tail(ring)[1] = ring[2]
        BY <1>0, <3>1
      <3> QED
        <4> DEFINE t == Tail(ring)
        <4>1. t \in Seq(TxPayload) /\ Len(t) >= 1 /\ t[1] = ring[2]
          BY <1>0, <3>1, <3>2
        <4> HIDE DEF t
        <4>2. t # <<>> /\ Head(t) = t[1]
          BY <4>1
        <4> QED
          BY <4>1, <4>2 DEF t
    <2> QED
      BY <1>5, <2>4, <2>5 DEF Foremost, RingRest, RingOldest
  <1> QED
    BY <1>2, <1>3, <1>4, <1>5 DEF Writeable

\* What is at the front stays there, and what was asked for stays asked for, until then.
LEMMA WaitsForWriteable ==
    ASSUME Known, NEW w \in Wsis, OwesIdentify(w), [Next]_vars, ~Writeable(w)
    PROVE  (Foremost => Foremost') /\ (w \in pollout => w \in pollout')
  <1>1. /\ pollout \subseteq pollout'
        /\ ring' = ring \/ \E p \in TxPayload : ring' = RingInsert(ring, p)
    BY OnlyWriteableTakes DEF OwesIdentify
  <1>2. ring \in Seq(TxPayload)
    BY DEF Known, TypeOK
  <1> QED
    BY <1>1, <1>2, InsertBehind DEF Foremost

\* Every ld_service asks for the callback, since something waits.
LEMMA ServiceAsks ==
    ASSUME Known, HelloAnswered, NEW w \in Wsis, OwesIdentify(w), phase = "app", Service
    PROVE  phase' = "service" /\ w \in pollout'
  <1>1. phase' = "service" /\ ServicePolls
    BY EntersWhenBusy DEF OwesIdentify
  <1>2. lws_wsi = w
    BY DEF Known, OneGatewayConnection, OwesIdentify
  <1>3. ring \in Seq(TxPayload) /\ ring # <<>>
    BY DEF HelloAnswered, OwesIdentify, Stuck, Known, TypeOK
  <1>4. ring' # <<>> /\ ring' \in Seq(TxPayload)
    BY <1>1, <1>3, InsertBehind, InsertType
       DEF ServicePolls, QueuesHeartbeat, NoHeartbeatNeeded, TxPayload, Known, TypeOK
  <1>5. RingWaiting(ring') # 0
    BY <1>4 DEF RingWaiting
  <1> QED
    BY <1>1, <1>2, <1>5 DEF ServicePolls, WriteableRequest, OwesIdentify

\* The thread gets into lws_service by ld_service only.
LEMMA LeavesAppByService ==
    ASSUME Known, phase = "app", [Next]_vars
    PROVE  phase' = "app" \/ <<Service>>_vars
  <1>1. \A v \in Wsis : ~Callback(v)
    BY CallbackCount DEF Known
  <1>2. CASE UNCHANGED phase
    BY <1>2
  <1>3. CASE Service /\ vars' # vars
    BY <1>3
  <1>4. CASE vars' = vars
    BY <1>4 DEF vars
  <1> QED
    BY <1>1, <1>2, <1>3, <1>4
       DEF Next, ServiceReturns, AppConnects, AppCantConnect, ld_connect, Elapse, Crashed

\* Only the end of a connection takes back that its HELLO was handled.
LEMMA StaysParsed ==
    ASSUME Known, NEW w \in Wsis, hello_parsed[w], [Next]_vars
    PROVE  hello_parsed'[w] \/ wsi_state'[w] = "free"
  <1>0. /\ wsi_state \in [Wsis -> {"free", "connecting", "open", "closing"}]
        /\ hello_parsed \in [Wsis -> BOOLEAN]
    BY DEF Known, TypeOK
  <1>1. CASE UNCHANGED hello_parsed
    BY <1>1
  <1>2. ASSUME NEW v \in Wsis, Callback(v)
        PROVE  hello_parsed'[w] \/ wsi_state'[w] = "free"
    <2>1. ASSUME NEW p, Parse(v, p) PROVE hello_parsed'[w]
      BY <1>0, <2>1 DEF Parse, ParseHello, ParseAck, ParseDispatch, ParseInvalidSession,
                        ParseBad, parser_vars
    <2>2. CASE ConnectionError(v) \/ WsiDestroy(v)
      BY <1>0, <2>2 DEF ConnectionError, WsiDestroy, Gone
    <2>3. CASE (\E p \in RxPayload : ReceiveWhole(v, p)) \/ (\E p \in Fragmented : ReceiveFirst(v, p))
      BY <2>1, <2>3 DEF ReceiveWhole, ReceiveFirst, parser_vars
    <2>4. CASE ReceiveLast(v)
      BY <2>1, <2>4 DEF ReceiveLast
    <2> QED
      BY <1>2, <2>2, <2>3, <2>4
         DEF Callback, Established, Drop, PeerInitiatedClose, ReceiveMiddle, Writeable,
             gateway_vars
  <1> QED
    BY <1>1, <1>2
       DEF Next, Service, ServiceConnects, ServiceCantConnect, AppConnects, AppCantConnect,
           ld_connect, ServiceMissedAck, ServiceCantFitHeartbeat, ServicePolls, ServiceReturns,
           Elapse, Crashed, vars, gateway_vars

\* One connection's HELLO is answered.
LEMMA HelloAnsweredOnWire ==
    ASSUME ~AppMayConnect, Capacity >= 2, NEW w \in Wsis
    PROVE  LiveClient => AnswersHello(w)
  <1> DEFINE Owes == OwesIdentify(w)
             Asked == w \in pollout
             App == phase = "app"
             Inside == phase = "service"
             Left == wsi_state[w] = "open" /\ hello_parsed[w]
             Right == identified[w] \/ wsi_state[w] # "open" \/ Stuck
  <1>1. Known /\ HelloAnswered /\ Owes /\ App /\ <<Service>>_vars => Inside' /\ Asked'
    BY ServiceAsks
  <1>2. Known /\ Owes => App \/ Inside
    BY DEF Known, TypeOK, OwesIdentify, Stuck
  <1>3. Inside /\ <<ServiceReturns>>_vars => App'
    BY DEF ServiceReturns
  <1>4. Known /\ Owes /\ [Next]_vars => \/ <<Writeable(w)>>_vars
                                        \/ (Foremost => Foremost') /\ (Asked => Asked')
    <2>1. CASE Writeable(w) /\ vars' = vars
      BY <2>1 DEF Foremost, vars, context_vars, wsi_vars
    <2>2. CASE ~Writeable(w)
      BY <2>2, WaitsForWriteable
    <2> QED
      BY <2>1, <2>2
  <1>5. Known /\ HelloAnswered /\ Owes /\ <<Writeable(w)>>_vars => ~Owes' \/ (~Foremost /\ Foremost')
    BY WriteableAdvances
  <1>6. Known /\ ClientCanStep /\ Owes /\ App => ENABLED <<Service>>_vars
    BY GatewayAssumption DEF ClientCanStep, Known, OneGatewayConnection, OwesIdentify, Stuck
  <1>7. ClientCanStep /\ Inside => ENABLED <<ServiceReturns>>_vars
    BY DEF ClientCanStep
  <1>8. ClientCanStep /\ Inside /\ Owes /\ Asked => ENABLED <<Writeable(w)>>_vars
    BY DEF ClientCanStep, OwesIdentify
  <1>9. Left => Right \/ Owes
    BY DEF OwesIdentify
  <1>10. Known /\ Owes /\ [Next]_vars => Right' \/ Owes'
    BY StaysParsed DEF OwesIdentify
  <1>11. LiveClient => /\ []Known /\ []ClientCanStep /\ []HelloAnswered /\ [][Next]_vars
                       /\ WF_vars(Service) /\ WF_vars(ServiceReturns) /\ SF_vars(Writeable(w))
    BY LiveFacts, HelloGetsIdentify, PTL DEF ConnectionFairness, LiveClient, FairSpec
  <1>12. Known /\ App /\ [Next]_vars => App' \/ <<Service>>_vars
    BY LeavesAppByService
  <1> QED
    BY <1>1, <1>2, <1>3, <1>4, <1>5, <1>6, <1>7, <1>8, <1>9, <1>10, <1>11, <1>12, PTL
       DEF AnswersHello

\* HelloIsAnswered, for any ring that holds two payloads: whatever waits in the ring, and
\* however often the connection before broke, IDENTIFY is sent while the connection lasts.
THEOREM HelloAnsweredInTheEnd ==
    ~AppMayConnect /\ Capacity >= 2 /\ LiveClient => HelloIsAnswered
  <1> SUFFICES ASSUME ~AppMayConnect, Capacity >= 2 PROVE LiveClient => HelloIsAnswered
    OBVIOUS
  <1>1. ASSUME NEW w \in Wsis PROVE LiveClient => AnswersHello(w)
    BY HelloAnsweredOnWire
  <1> QED
    BY <1>1 DEF HelloIsAnswered
============================================================================
