--------------------------- MODULE LdClientProofs ---------------------------
(***************************************************************************)
(* Proofs about LdClient, for any number of contexts and any set of          *)
(* connections: LdContext and LdGateway keep what they promise when each is  *)
(* the environment of the other.                                             *)
(***************************************************************************)
EXTENDS LdClient, LdContextProofs

(***************************************************************************)
(* The gateway client                                                       *)
(***************************************************************************)

\* The theorems about the gateway client, read in the terms of this module.
Proved == INSTANCE LdGatewaySafetyProofs WITH AppMayConnect <- FALSE

\* It is the same gateway client.
LEMMA SameNext ==
    ASSUME Gateway!Next
    PROVE  Proved!Next
  BY DEF Gateway!RingWaiting, Proved!RingWaiting, Gateway!RingFree, Proved!RingFree, Gateway!RingInsert,
         Proved!RingInsert, Gateway!RingOldest, Proved!RingOldest, Gateway!RingRest,
         Proved!RingRest, Gateway!TxPayload, Proved!TxPayload, Gateway!RxPayload,
         Proved!RxPayload, Gateway!NoMessage, Proved!NoMessage, Gateway!FatalCloseCodes,
         Proved!FatalCloseCodes, Gateway!context_vars, Proved!context_vars, Gateway!wsi_vars,
         Proved!wsi_vars, Gateway!gateway_vars, Proved!gateway_vars, Gateway!vars, Proved!vars,
         Gateway!parser_vars, Proved!parser_vars, Gateway!ConnectStarts, Proved!ConnectStarts,
         Gateway!ConnectFails, Proved!ConnectFails, Gateway!ld_connect, Proved!ld_connect,
         Gateway!ServiceConnects, Proved!ServiceConnects, Gateway!ServiceCantConnect,
         Proved!ServiceCantConnect, Gateway!HeartbeatDue, Proved!HeartbeatDue,
         Gateway!CountedAgain, Proved!CountedAgain, Gateway!MissedAck, Proved!MissedAck,
         Gateway!DeadlineStands, Proved!DeadlineStands, Gateway!ServiceMissedAck,
         Proved!ServiceMissedAck, Gateway!CountTakenBack, Proved!CountTakenBack,
         Gateway!ServiceCantFitHeartbeat, Proved!ServiceCantFitHeartbeat,
         Gateway!QueuesHeartbeat, Proved!QueuesHeartbeat, Gateway!NoHeartbeatNeeded,
         Proved!NoHeartbeatNeeded, Gateway!WriteableRequest, Proved!WriteableRequest,
         Gateway!EntersService, Proved!EntersService, Gateway!ServicePolls,
         Proved!ServicePolls, Gateway!ServiceReturns, Proved!ServiceReturns, Gateway!Hangup,
         Proved!Hangup, Gateway!MayHangup, Proved!MayHangup, Gateway!Gone, Proved!Gone,
         Gateway!ConnectionError, Proved!ConnectionError, Gateway!Established,
         Proved!Established, Gateway!Drop, Proved!Drop, Gateway!WsiWhileClosing,
         Proved!WsiWhileClosing, Gateway!PeerInitiatedClose, Proved!PeerInitiatedClose,
         Gateway!WsiDestroy, Proved!WsiDestroy, Gateway!WithIdentify, Proved!WithIdentify,
         Gateway!IdentifyOutcomes, Proved!IdentifyOutcomes, Gateway!ParseHello,
         Proved!ParseHello, Gateway!CountedDown, Proved!CountedDown, Gateway!ParseAck,
         Proved!ParseAck, Gateway!ParseDispatch, Proved!ParseDispatch,
         Gateway!ParseInvalidSession, Proved!ParseInvalidSession, Gateway!ParseBad,
         Proved!ParseBad, Gateway!Parse, Proved!Parse, Gateway!GatewaySends,
         Proved!GatewaySends, Gateway!Receiving, Proved!Receiving, Gateway!ReceiveWhole,
         Proved!ReceiveWhole, Gateway!BufferAfterFirst, Proved!BufferAfterFirst,
         Gateway!ReceiveFirst, Proved!ReceiveFirst, Gateway!ReceiveMiddle,
         Proved!ReceiveMiddle, Gateway!ReceiveLast, Proved!ReceiveLast, Gateway!OnTheWire,
         Proved!OnTheWire, Gateway!WriteFails, Proved!WriteFails, Gateway!Writeable,
         Proved!Writeable, Gateway!AppConnects, Proved!AppConnects, Gateway!AppCantConnect,
         Proved!AppCantConnect, Gateway!Elapse, Proved!Elapse, Gateway!Crashed, Proved!Crashed,
         Gateway!Service, Proved!Service, Gateway!Callback, Proved!Callback, Gateway!Next,
         Proved!Next

LEMMA SameVars ==
    ASSUME UNCHANGED gateway_vars
    PROVE  UNCHANGED Proved!vars
  BY DEF gateway_vars, connection_vars, conversation_vars, Proved!vars, Proved!context_vars,
         Proved!wsi_vars, Proved!gateway_vars

LEMMA SameInit ==
    ASSUME Gateway!Init
    PROVE  Proved!Init
  BY DEF Gateway!Init, Proved!Init, Gateway!NoMessage, Proved!NoMessage

\* Its instance is one it was proved for.
LEMMA Applies ==
    /\ NULL \notin Wsis /\ Mixed \notin Wsis /\ Mixed # NULL
    /\ HbMax \in Nat /\ HbMax >= 2
    /\ Fragmented \subseteq Proved!RxPayload
    /\ UninitOutcomes \subseteq {"identify", "error", "crash"}
    /\ FALSE \in BOOLEAN
    /\ Capacity \in Nat
  BY ClientAssumption DEF Proved!RxPayload

\* The inductive invariants of LdGateway's promises, in one.
GatewayInv ==
    /\ Proved!TypeOK /\ Proved!Accounting
    /\ Proved!OneGatewayConnection /\ Proved!Reassembly
    /\ Proved!NothingBeforeFirstHello /\ Proved!MissedAckStopsService
    /\ Capacity >= 2 => Proved!Answered

\* A new client has it,
LEMMA GatewayInvStarts ==
    ASSUME Proved!Init
    PROVE  GatewayInv
  <1>1. Proved!TypeOK /\ Proved!Accounting
    BY Applies, Proved!InitType, Proved!InitAccounting
  <1>2. /\ Proved!OneGatewayConnection /\ Proved!Reassembly
        /\ Proved!NothingBeforeFirstHello /\ Proved!MissedAckStopsService /\ Proved!Answered
    BY DEF Proved!Init, Proved!OneGatewayConnection, Proved!Reassembly,
           Proved!NothingBeforeFirstHello, Proved!MissedAckStopsService, Proved!Answered
  <1> QED
    BY <1>1, <1>2 DEF GatewayInv

\* and its steps keep it.
LEMMA GatewayInvStep ==
    ASSUME GatewayInv, [Gateway!Next]_gateway_vars
    PROVE  GatewayInv'
  <1>0. [Proved!Next]_(Proved!vars)
    BY SameNext, SameVars
  <1>1. Proved!TypeOK'
    BY Applies, <1>0, Proved!TypeStep DEF GatewayInv
  <1>2. Proved!Accounting'
    BY Applies, <1>0, <1>1, Proved!AccountingStep DEF GatewayInv
  <1>3. Proved!OneGatewayConnection'
    BY Applies, <1>0, Proved!OneConnectionStep DEF GatewayInv
  <1>4. Proved!Reassembly'
    BY Applies, <1>0, Proved!ReassemblyStep DEF GatewayInv
  <1>5. Proved!NothingBeforeFirstHello'
    BY Applies, <1>0, <1>1, Proved!NothingBeforeStep DEF GatewayInv
  <1>6. Proved!MissedAckStopsService'
    BY Applies, <1>0, <1>1, Proved!MissedAckStep DEF GatewayInv
  <1>7. Capacity >= 2 => Proved!Answered'
    BY Applies, <1>0, Proved!AnsweredStep DEF GatewayInv
  <1> QED
    BY <1>1, <1>2, <1>3, <1>4, <1>5, <1>6, <1>7 DEF GatewayInv

(***************************************************************************)
(* One invariant for the two                                                *)
(***************************************************************************)

\* lws has no connection, and the application's thread is not in lws_service.
AtRest ==
    /\ phase = "app" /\ lws_wsi = NULL
    /\ wsi_state = [w \in Wsis |-> "free"] /\ pollout = {}
    /\ rx_message = [w \in Wsis |-> Gateway!NoMessage]
    /\ greeted = [w \in Wsis |-> FALSE] /\ hello_parsed = [w \in Wsis |-> FALSE]
    /\ identified = [w \in Wsis |-> FALSE] /\ unacked = [w \in Wsis |-> 0]

\* The fields that both have are the same in both.
Agree ==
    /\ connected = (lws_wsi # NULL)
    /\ held \cap Shared = Pointers

\* A context that connects has its ring, without one nothing goes on, and ld_connect runs
\* without a connection.
InContext ==
    /\ life = "made" => Agree /\ "gateway_ring" \in held
    /\ life # "made" => AtRest
    /\ pc # "return" => phase = "app" /\ lws_wsi = NULL

ClientInv == Ledger /\ ConnectsInside /\ GatewayInv /\ InContext

\* Types of what follows.
LEMMA TypesOfBoth ==
    ASSUME ClientInv
    PROVE  /\ connected \in BOOLEAN
           /\ lws_wsi \in Wsis \cup {NULL} /\ rx_buffer \in Wsis \cup {NULL, Mixed}
           /\ obtained \in [Fields -> Nat] /\ held \subseteq OwnFields
           /\ NULL \notin Wsis /\ Mixed # NULL
           /\ \A w \in Wsis : wsi_state[w] # "free" => lws_wsi = w
  BY ClientAssumption
     DEF ClientInv, GatewayInv, Proved!TypeOK, Proved!OneGatewayConnection, Ledger,
         ContextTypeOK, TypeOK

\* What parsing a payload does to the session id.
LEMMA ParseSession ==
    ASSUME NEW w, NEW p, Gateway!Parse(w, p)
    PROVE  /\ p = "READY" => session'
           /\ p = "INVALID" => ~session'
           /\ p \notin {"READY", "INVALID"} => (session' <=> session)
  <1>1. CASE p = "HELLO" /\ Gateway!ParseHello(w)
    BY <1>1 DEF Gateway!ParseHello
  <1>2. CASE p = "ACK" /\ Gateway!ParseAck
    BY <1>2 DEF Gateway!ParseAck
  <1>3. CASE p \in {"READY", "DISPATCH"} /\ Gateway!ParseDispatch(w, p)
    BY <1>3 DEF Gateway!ParseDispatch
  <1>4. CASE p = "INVALID" /\ Gateway!ParseInvalidSession
    BY <1>4 DEF Gateway!ParseInvalidSession
  <1>5. CASE p = "CONTROL" /\ UNCHANGED Gateway!parser_vars
    BY <1>5 DEF Gateway!parser_vars
  <1>6. CASE p = "BAD" /\ Gateway!ParseBad(w)
    BY <1>6 DEF Gateway!ParseBad
  <1> QED
    BY <1>1, <1>2, <1>3, <1>4, <1>5, <1>6 DEF Gateway!Parse

(***************************************************************************)
(* The ledger enters steps of LdContext                                     *)
(***************************************************************************)

\* What a ledger entry leaves alone, and what it writes.
LEMMA EntersFrame ==
    ASSUME ClientInv, InUse, NEW got, NEW freed, Enters(got, freed)
    PROVE  /\ \A f \in got : obtained[f] <= MaxLost
           /\ obtained' = [f \in Fields |-> obtained[f] + (IF f \in got THEN 1 ELSE 0)
                                                        - (IF f \in freed THEN 1 ELSE 0)]
           /\ held' = (held \ Shared) \cup Pointers'
           /\ held = (held \ Shared) \cup Pointers
           /\ connected = (lws_wsi # NULL) /\ connected' = (lws_wsi' # NULL)
           /\ UNCHANGED <<rest_vars, pc, gateway_url, gateway_bot_url, shards, current_user, life,
                          contexts>>
           /\ life = "made" /\ pc = "return"
  <1>1. Agree
    BY DEF ClientInv, InContext, InUse
  <1> QED
    BY <1>1 DEF Enters, Agree, InUse

\* A step that neither obtains nor frees, on a connection that stays.
LEMMA EntersNothing ==
    ASSUME ClientInv, InUse, Enters({}, {}), Pointers' = Pointers, UNCHANGED lws_wsi
    PROVE  UNCHANGED context_vars
  <1>1. obtained \in [Fields -> Nat]
    BY TypesOfBoth
  <1>2. obtained' = obtained
    BY <1>1, EntersFrame
  <1>3. held' = held /\ connected' = connected
    BY EntersFrame
  <1> QED
    BY <1>2, <1>3, EntersFrame DEF context_vars, vars, life_vars

\* The connection is lost.
LEMMA EntersLoss ==
    ASSUME ClientInv, InUse, Enters({}, {}), Pointers' = Pointers, lws_wsi # NULL, lws_wsi' = NULL
    PROVE  Disconnect /\ Stores
  <1>1. obtained \in [Fields -> Nat]
    BY TypesOfBoth
  <1>2. obtained' = obtained
    BY <1>1, EntersFrame
  <1>3. held' = held /\ connected /\ ~connected' /\ connected' = FALSE
    BY EntersFrame
  <1>4. Disconnect
    BY <1>3, EntersFrame DEF Disconnect, KeepsUrls
  <1>5. held' = held /\ UNCHANGED <<life, contexts>> /\ life = "made"
    BY <1>3, EntersFrame
  <1>6. UNCHANGED <<gateway_url, gateway_bot_url, current_user>>
    BY EntersFrame
  <1>7. Stores
    BY <1>1, <1>2, <1>5, <1>6 DEF Stores, Obtain
  <1> QED
    BY <1>4, <1>7

\* A pointer is overwritten.
LEMMA EntersOne ==
    ASSUME ClientInv, InUse, NEW f \in Shared, Enters({f}, {}), Pointers' = Pointers \cup {f},
           lws_wsi # NULL, UNCHANGED lws_wsi
    PROVE  Overwrites(f)
  <1>1. obtained \in [Fields -> Nat]
    BY TypesOfBoth
  <1>2. obtained' = Obtain({f})
    BY <1>1, EntersFrame DEF Obtain
  <1>3. held' = held \cup {f} /\ connected /\ connected' = connected
    BY EntersFrame
  <1> QED
    BY <1>2, <1>3, EntersFrame DEF Overwrites, vars

\* A pointer is freed.
LEMMA FreesOne ==
    ASSUME ClientInv, InUse, NEW f \in Pointers, Enters({}, {f}), Pointers' = Pointers \ {f},
           lws_wsi # NULL, UNCHANGED lws_wsi
    PROVE  FreesField(f) /\ ClearsPointer(f) /\ f \in held
  <1>1. obtained \in [Fields -> Nat] /\ f \in Shared /\ Shared \subseteq Fields
    BY TypesOfBoth DEF Pointers, Shared, Fields, OwnFields, SessionId, RxBuffer
  <1>2. obtained' = Release({f})
    BY <1>1, EntersFrame DEF Release
  <1>3. held' = held \ {f} /\ f \in held /\ connected /\ connected' = connected
    BY <1>1, EntersFrame
  <1> QED
    BY <1>2, <1>3, EntersFrame DEF FreesField, ClearsPointer, vars

\* The session id is among the pointers or not, and so is the buffer.
LEMMA PointersAre ==
    /\ SessionId \in Pointers <=> session
    /\ RxBuffer \in Pointers <=> rx_buffer # NULL
    /\ Pointers \subseteq Shared
    /\ SessionId # RxBuffer /\ SessionId \in Shared /\ RxBuffer \in Shared
  BY DEF Pointers, Shared, SessionId, RxBuffer

LEMMA PointersNext ==
    /\ (session' <=> session) /\ (rx_buffer' = NULL <=> rx_buffer = NULL) => Pointers' = Pointers
    /\ session' /\ rx_buffer' = rx_buffer => Pointers' = Pointers \cup {SessionId}
    /\ ~session' /\ rx_buffer' = rx_buffer => Pointers' = Pointers \ {SessionId}
    /\ (session' <=> session) /\ rx_buffer' # NULL => Pointers' = Pointers \cup {RxBuffer}
    /\ (session' <=> session) /\ rx_buffer' = NULL => Pointers' = Pointers \ {RxBuffer}
    /\ session' /\ rx_buffer' = NULL =>
           Pointers' = (Pointers \cup {SessionId}) \ {RxBuffer}
    /\ ~session' /\ rx_buffer' = NULL => Pointers' = {}
  BY DEF Pointers, SessionId, RxBuffer

\* A message in one fragment.
LEMMA WholeStep ==
    ASSUME ClientInv, InUse, NEW w \in Wsis, NEW p, ReceivesWhole(w, p)
    PROVE  Receives \/ UNCHANGED context_vars
  <1>1. Gateway!ReceiveWhole(w, p)
    BY DEF ReceivesWhole
  <1>2. lws_wsi = w /\ lws_wsi # NULL /\ UNCHANGED lws_wsi
    BY <1>1, TypesOfBoth DEF Gateway!ReceiveWhole, Gateway!Receiving
  <1>3. CASE rx_buffer = NULL
    <2>1. Gateway!Parse(w, p) /\ UNCHANGED rx_buffer /\ Enters(Saves(p), Frees(p))
      BY <1>1, <1>3 DEF Gateway!ReceiveWhole, ReceivesWhole
    <2>2. /\ p = "READY" => session'
          /\ p = "INVALID" => ~session'
          /\ p \notin {"READY", "INVALID"} => (session' <=> session)
      BY <2>1, ParseSession
    <2>3. CASE p = "READY"
      <3>1. Saves(p) = {SessionId} /\ Frees(p) = {} /\ SessionId \in Shared
        BY <2>3, PointersAre DEF Saves, Frees
      <3>2. Pointers' = Pointers \cup {SessionId}
        BY <2>1, <2>2, <2>3, PointersNext
      <3>3. Overwrites(SessionId)
        BY <1>2, <2>1, <3>1, <3>2, EntersOne
      <3> QED
        BY <3>3 DEF Receives, Ready, SessionId
    <2>4. CASE p = "INVALID" /\ session
      <3>1. Saves(p) = {} /\ Frees(p) = {SessionId} /\ SessionId \in Pointers
        BY <2>4, PointersAre DEF Saves, Frees
      <3>2. Pointers' = Pointers \ {SessionId}
        BY <2>1, <2>2, <2>4, PointersNext
      <3>3. FreesField(SessionId) /\ ClearsPointer(SessionId)
        BY <1>2, <2>1, <3>1, <3>2, FreesOne
      <3> QED
        BY <3>3 DEF Receives, InvalidSession, ClearsSession, SessionId
    <2>5. CASE p # "READY" /\ ~(p = "INVALID" /\ session)
      <3>1. Saves(p) = {} /\ Frees(p) = {}
        BY <2>5 DEF Saves, Frees
      <3>2. session' <=> session
        BY <2>2, <2>5
      <3>3. Pointers' = Pointers
        BY <2>1, <3>2, PointersNext
      <3> QED
        BY <1>2, <2>1, <3>1, <3>3, EntersNothing
    <2> QED
      BY <2>3, <2>4, <2>5
  <1>4. CASE rx_buffer # NULL
    <2>1. rx_buffer' = w /\ (session' <=> session) /\ Enters({RxBuffer}, {})
      BY <1>1, <1>4 DEF Gateway!ReceiveWhole, Gateway!parser_vars, ReceivesWhole
    <2>2. rx_buffer' # NULL
      BY <2>1, TypesOfBoth
    <2>3. Pointers' = Pointers \cup {RxBuffer} /\ RxBuffer \in Shared
      BY <2>1, <2>2, PointersNext, PointersAre
    <2>4. Overwrites(RxBuffer)
      BY <1>2, <2>1, <2>3, EntersOne
    <2> QED
      BY <2>4 DEF Receives, FirstFragment, RxBuffer
  <1> QED
    BY <1>3, <1>4

\* The last fragment: the buffer is there, and is freed after the session id is dealt with.
LEMMA LastStep ==
    ASSUME ClientInv, InUse, NEW w \in Wsis, ReceivesLast(w)
    PROVE  Receives
  <1>1. Gateway!ReceiveLast(w)
    BY DEF ReceivesLast
  <1>2. lws_wsi = w /\ lws_wsi # NULL /\ UNCHANGED lws_wsi
    BY <1>1, TypesOfBoth DEF Gateway!ReceiveLast, Gateway!Receiving
  <1>3. rx_buffer = w /\ rx_buffer # NULL
    BY <1>1, TypesOfBoth
       DEF ClientInv, GatewayInv, Proved!Reassembly, Proved!NoMessage, Gateway!ReceiveLast,
           Gateway!NoMessage
  <1> DEFINE p == rx_message[w]
  <1>4. Gateway!Parse(w, p) /\ rx_buffer' = NULL
    BY <1>1, <1>3 DEF Gateway!ReceiveLast
  <1>5. Enters(Saves(p), Frees(p) \cup {RxBuffer})
    BY <1>3 DEF ReceivesLast, BufferIfThere
  <1> HIDE DEF p
  <1>6. /\ p = "READY" => session'
        /\ p = "INVALID" => ~session'
        /\ p \notin {"READY", "INVALID"} => (session' <=> session)
    BY <1>4, ParseSession
  <1>7. /\ obtained \in [Fields -> Nat] /\ held \subseteq OwnFields /\ RxBuffer \in Pointers
        /\ SessionId \in Fields /\ RxBuffer \in Fields /\ SessionId # RxBuffer
    BY <1>3, TypesOfBoth, PointersAre DEF Shared, Fields, OwnFields, SessionId, RxBuffer
  <1>8. CASE p = "READY"
    <2>1. Saves(p) = {SessionId} /\ Frees(p) \cup {RxBuffer} = {RxBuffer}
      BY <1>8 DEF Saves, Frees
    <2>2. Pointers' = (Pointers \cup {SessionId}) \ {RxBuffer}
      BY <1>4, <1>6, <1>8, PointersNext
    <2>3. Enters({SessionId}, {RxBuffer})
      BY <1>5, <2>1
    <2>4. held' = (held \cup {SessionId}) \ {RxBuffer} /\ RxBuffer \in held
      BY <1>7, <2>2, <2>3, EntersFrame, PointersAre DEF Shared
    <2>5. obtained' = [obtained EXCEPT ![SessionId] = @ + 1, ![RxBuffer] = @ - 1]
      BY <1>7, <2>3, EntersFrame
    <2>6. obtained[SessionId] <= MaxLost /\ connected /\ connected' = connected
      BY <1>2, <2>3, EntersFrame
    <2>7. LastOfReady
      BY <2>3, <2>4, <2>5, <2>6, EntersFrame DEF LastOfReady, vars, SessionId, RxBuffer
    <2> QED
      BY <2>7 DEF Receives
  <1>9. CASE p = "INVALID" /\ session
    <2>1. Saves(p) = {} /\ Frees(p) \cup {RxBuffer} = {SessionId, RxBuffer}
      BY <1>9 DEF Saves, Frees
    <2>2. Pointers' = {} /\ Pointers = Shared
      BY <1>4, <1>6, <1>7, <1>9, PointersNext, PointersAre DEF Shared
    <2>3. Enters({}, {SessionId, RxBuffer})
      BY <1>5, <2>1
    <2>4. held' = held \ {SessionId, RxBuffer} /\ {SessionId, RxBuffer} \subseteq held
      BY <2>2, <2>3, EntersFrame DEF Shared
    <2>5. obtained' = Release({SessionId, RxBuffer})
      BY <1>7, <2>3, EntersFrame DEF Release
    <2>6. held \cap {SessionId, RxBuffer} = {SessionId, RxBuffer}
      BY <2>4
    <2>7. "gateway_rx_buffer" \in held /\ connected /\ connected' = connected
      BY <1>2, <2>3, <2>4, EntersFrame DEF RxBuffer
    <2>8. LastOfInvalidSession
      BY <2>3, <2>4, <2>5, <2>6, <2>7, EntersFrame
         DEF LastOfInvalidSession, vars, SessionId, RxBuffer
    <2> QED
      BY <2>8 DEF Receives
  <1>10. CASE p # "READY" /\ ~(p = "INVALID" /\ session)
    <2>1. Saves(p) = {} /\ Frees(p) \cup {RxBuffer} = {RxBuffer}
      BY <1>10 DEF Saves, Frees
    <2>2. Enters({}, {RxBuffer})
      BY <1>5, <2>1
    <2>3. session' <=> session
      BY <1>6, <1>10
    <2>4. Pointers' = Pointers \ {RxBuffer}
      BY <1>4, <2>3, PointersNext
    <2>5. FreesField(RxBuffer) /\ ClearsPointer(RxBuffer) /\ RxBuffer \in held
      BY <1>2, <1>7, <2>2, <2>4, FreesOne
    <2> QED
      BY <2>5 DEF Receives, LastFragment, RxBuffer
  <1> QED
    BY <1>8, <1>9, <1>10

\* The other fragments: the first overwrites the pointer, the rest finds one or makes one.
LEMMA FragmentStep ==
    ASSUME ClientInv, InUse, NEW w \in Wsis,
           \/ (\E p \in Fragmented : Gateway!ReceiveFirst(w, p)) /\ Enters({RxBuffer}, {})
           \/ Gateway!ReceiveMiddle(w) /\ Enters(BufferIfNot, {})
    PROVE  Receives \/ UNCHANGED context_vars
  <1>1. lws_wsi = w /\ lws_wsi # NULL /\ UNCHANGED lws_wsi
    BY TypesOfBoth DEF Gateway!ReceiveFirst, Gateway!ReceiveMiddle, Gateway!Receiving
  <1>2. rx_buffer' # NULL /\ (session' <=> session)
    BY TypesOfBoth
       DEF Gateway!ReceiveFirst, Gateway!BufferAfterFirst, Gateway!parser_vars,
           Gateway!ReceiveMiddle
  <1>3. CASE Enters({RxBuffer}, {})
    <2>1. Pointers' = Pointers \cup {RxBuffer} /\ RxBuffer \in Shared
      BY <1>2, PointersNext, PointersAre
    <2>2. Overwrites(RxBuffer)
      BY <1>1, <1>3, <2>1, EntersOne
    <2> QED
      BY <2>2 DEF Receives, FirstFragment, RxBuffer
  <1>4. CASE rx_buffer # NULL /\ Enters(BufferIfNot, {})
    <2>1. Enters({}, {}) /\ Pointers' = Pointers
      BY <1>2, <1>4, PointersNext DEF BufferIfNot, BufferIfThere
    <2> QED
      BY <1>1, <2>1, EntersNothing
  <1>5. rx_buffer = NULL => BufferIfNot = {RxBuffer}
    BY DEF BufferIfNot, BufferIfThere
  <1> QED
    BY <1>3, <1>4, <1>5

\* A connection that goes, goes alone; every other callback leaves it and both pointers.
LEMMA ConnectionStep ==
    ASSUME ClientInv, InUse, NEW w \in Wsis, ConnectionCallback(w)
    PROVE  (Disconnect /\ Stores) \/ UNCHANGED context_vars
  <1>0. Enters({}, {})
    BY DEF ConnectionCallback
  <1>1. CASE Gateway!ConnectionError(w) \/ Gateway!WsiDestroy(w)
    <2>1. lws_wsi = w /\ lws_wsi # NULL /\ lws_wsi' = NULL
      BY <1>1, TypesOfBoth DEF Gateway!ConnectionError, Gateway!WsiDestroy
    <2>2. (session' <=> session) /\ (rx_buffer' = NULL <=> rx_buffer = NULL)
      BY <1>1, TypesOfBoth DEF Gateway!ConnectionError, Gateway!WsiDestroy, Gateway!Gone
    <2>3. Pointers' = Pointers
      BY <2>2, PointersNext
    <2> QED
      BY <1>0, <2>1, <2>3, EntersLoss
  <1>2. CASE \/ Gateway!Established(w) \/ Gateway!Drop(w) \/ Gateway!Writeable(w)
             \/ \E code \in CloseCodes : Gateway!PeerInitiatedClose(w, code)
    <2>1. UNCHANGED <<lws_wsi, session, rx_buffer>>
      BY <1>2
         DEF Gateway!Established, Gateway!Drop, Gateway!context_vars, Gateway!Writeable,
             Gateway!PeerInitiatedClose, Gateway!WsiWhileClosing
    <2>2. Pointers' = Pointers
      BY <2>1, PointersNext
    <2> QED
      BY <1>0, <2>1, <2>2, EntersNothing
  <1> QED
    BY <1>1, <1>2 DEF ConnectionCallback

\* ld_service with a connection.
LEMMA ServicesStep ==
    ASSUME ClientInv, Services
    PROVE  UNCHANGED context_vars
  <1>1. UNCHANGED <<lws_wsi, session, rx_buffer>>
    BY DEF Services, Gateway!ServiceMissedAck, Gateway!ServiceCantFitHeartbeat,
           Gateway!ServicePolls, Gateway!ServiceReturns, Gateway!context_vars
  <1>2. Pointers' = Pointers
    BY <1>1, PointersNext
  <1> QED
    BY <1>1, <1>2, EntersNothing DEF Services

\* Every step of the two is one of LdContext, or none of it.
LEMMA ContextStep ==
    ASSUME ClientInv, [ClientNext]_client_vars
    PROVE  [ContextNext]_context_vars
  <1>1. CASE NewContext
    BY <1>1, ClientAssumption DEF NewContext, ContextNext, MakesContext
  <1>2. CASE CleansUp
    BY <1>2 DEF CleansUp, ContextNext
  <1>3. CASE Bootstraps
    BY <1>3 DEF Bootstraps, ContextNext, Serves, Next
  <1>4. CASE Services
    BY <1>4, ServicesStep
  <1>5. CASE RunsCallback
    <2>1. PICK w \in Wsis : ConnectionCallback(w) \/ ReceivesOn(w)
      BY <1>5 DEF RunsCallback
    <2>2. InUse
      BY <1>5 DEF RunsCallback
    <2>3. CASE ConnectionCallback(w)
      BY <2>2, <2>3, ConnectionStep DEF ContextNext, Serves, Next
    <2>4. CASE ReceivesOn(w)
      BY <2>2, <2>4, WholeStep, FragmentStep, LastStep DEF ReceivesOn, ContextNext
    <2> QED
      BY <2>1, <2>3, <2>4
  <1>6. CASE Requests
    BY <1>6 DEF Requests, ContextNext, Serves, Next
  <1>7. CASE TimePasses
    BY <1>7 DEF TimePasses
  <1>8. CASE Ended \/ UNCHANGED client_vars
    BY <1>8 DEF Ended, client_vars
  <1> QED
    BY <1>1, <1>2, <1>3, <1>4, <1>5, <1>6, <1>7, <1>8 DEF ClientNext

(***************************************************************************)
(* The gateway client starts afresh in every context                        *)
(***************************************************************************)

\* Between contexts there is no connection, and the struct is zeroed.
LEMMA NewContextInit ==
    ASSUME ClientInv, NewContext
    PROVE  (Gateway!Init)'
  <1>1. AtRest
    BY DEF ClientInv, InContext, NewContext, MakesContext
  <1> QED
    BY <1>1
       DEF AtRest, Gateway!Init, NewContext, StructZeroed, CountCleared, connection_vars,
           conversation_vars

\* Cleaning up closes what there is.
LEMMA CleanupRests ==
    ASSUME CleansUp
    PROVE  AtRest'
  BY DEF CleansUp, ConnectionsClosed, AtRest

\* All else is a step of the gateway client, or none of it.
LEMMA ClientStep ==
    ASSUME ClientInv, [ClientNext]_client_vars, ~NewContext, ~CleansUp
    PROVE  [Gateway!Next]_gateway_vars /\ UNCHANGED life
  <1>1. CASE Bootstraps
    BY <1>1 DEF Bootstraps, Stores, Gateway!Next, Gateway!Service
  <1>2. CASE Services
    BY <1>2 DEF Services, Enters, Gateway!Next, Gateway!Service
  <1>3. CASE RunsCallback
    <2>1. PICK w \in Wsis : ConnectionCallback(w) \/ ReceivesOn(w)
      BY <1>3 DEF RunsCallback
    <2>2. CASE ConnectionCallback(w)
      BY <2>2 DEF ConnectionCallback, Enters, Gateway!Next, Gateway!Callback
    <2>3. CASE ReceivesOn(w)
      BY <2>3
         DEF ReceivesOn, ReceivesWhole, ReceivesLast, Enters, Gateway!Next, Gateway!Callback
    <2> QED
      BY <2>1, <2>2, <2>3
  <1>4. CASE Requests
    BY <1>4 DEF Requests, Stores
  <1>5. CASE TimePasses
    BY <1>5 DEF TimePasses, context_vars, life_vars, Gateway!Next
  <1>6. CASE Ended \/ UNCHANGED client_vars
    BY <1>6 DEF Ended, client_vars, context_vars, life_vars
  <1> QED
    BY <1>1, <1>2, <1>3, <1>4, <1>5, <1>6 DEF ClientNext

\* The gateway client keeps its invariant, through a cleanup too.
LEMMA GatewayInvKept ==
    ASSUME ClientInv, [ClientNext]_client_vars
    PROVE  GatewayInv'
  <1>1. CASE NewContext
    <2>1. (Proved!Init)'
      BY <1>1, NewContextInit
         DEF Gateway!Init, Proved!Init, Gateway!NoMessage, Proved!NoMessage
    <2>2. GatewayInv'
      BY <2>1, GatewayInvStarts, PTL
    <2> QED
      BY <2>2
  <1>2. CASE CleansUp
    <2>0. AtRest' /\ UNCHANGED <<phase, hb_armed, hb_elapsed, hb_count, ring, session, rx_buffer>>
      BY <1>2, CleanupRests DEF CleansUp
    <2>1. Proved!TypeOK'
      BY <2>0 DEF ClientInv, GatewayInv, Proved!TypeOK, AtRest, Gateway!NoMessage,
                  Proved!NoMessage
    <2>2. Proved!Accounting'
      BY <2>0
         DEF ClientInv, GatewayInv, AtRest, Gateway!NoMessage, Proved!Accounting,
             Proved!OneQueued, Proved!OneSent, Proved!OneEach, Proved!OneAnswered,
             Proved!QueuedAlone, Proved!SentAlone, Proved!AnswerCounted, Proved!HeartbeatsIn
    <2>3. Proved!OneGatewayConnection' /\ Proved!Reassembly' /\ Proved!Answered'
      BY <2>0
         DEF AtRest, Gateway!NoMessage, Proved!NoMessage, Proved!OneGatewayConnection,
             Proved!Reassembly, Proved!Answered
    <2>4. Proved!NothingBeforeFirstHello' /\ Proved!MissedAckStopsService'
      BY <2>0
         DEF ClientInv, GatewayInv, AtRest, Proved!NothingBeforeFirstHello,
             Proved!MissedAckStopsService, Proved!HeartbeatDue
    <2> QED
      BY <2>1, <2>2, <2>3, <2>4 DEF GatewayInv
  <1>3. CASE ~NewContext /\ ~CleansUp
    BY <1>3, ClientStep, GatewayInvStep DEF ClientInv
  <1> QED
    BY <1>1, <1>2, <1>3

(***************************************************************************)
(* What the two have in common stays so                                     *)
(***************************************************************************)

\* A context that is made has the ring, and neither of the shared fields.
LEMMA NewContextAgrees ==
    ASSUME ClientInv, NewContext
    PROVE  InContext'
  <1>1. AtRest /\ pc \in {"return", "crashed"}
    BY DEF ClientInv, InContext, ConnectsInside, NewContext, MakesContext
  <1>2. AtRest' /\ connected' = FALSE /\ Pointers' = {}
    BY <1>1 DEF NewContext, StructZeroed, MakesContext, ld_init_context, InitCopiesNull,
                InitWithoutInfo, ClearsContext, AtRest, connection_vars, conversation_vars,
                Pointers
  <1> DEFINE Steps == {"curl", "lws", "ring", "bot_token", "init_presence", "done"}
  <1>3. \A step \in Steps : ObtainedBefore(step) \cap (Shared \cup {"names"}) = {}
    BY DEF ObtainedBefore, Shared, SessionId, RxBuffer
  <1>4. "gateway_ring" \in ObtainedBefore("done")
    BY DEF ObtainedBefore
  <1>5. CASE \E info \in Infos :
                \E step \in FailsAt(info) \cup {"done"} : ld_init_context(info, step)
    <2>0. PICK info \in Infos :
              \E step \in FailsAt(info) \cup {"done"} : ld_init_context(info, step)
      BY <1>5
    <2>1. PICK step \in FailsAt(info) \cup {"done"} : ld_init_context(info, step)
      BY <2>0
    <2>2. step \in Steps
      BY <2>1 DEF FailsAt
    <2> DEFINE names == IF PastNames(step) /\ info.names = "given" THEN {"names"} ELSE {}
               got == ObtainedBefore(step) \cup names
    <2>3. /\ held' = (IF info.init_presence THEN got ELSE got \ {"init_presence"})
          /\ life' = IF step = "done" THEN "made" ELSE "failed"
      BY <2>1 DEF ld_init_context
    <2>4. got \cap Shared = {}
      BY <1>3, <2>2 DEF Shared, SessionId, RxBuffer
    <2>5. step = "done" => "gateway_ring" \in got
      BY <1>4
    <2> HIDE DEF got
    <2> QED
      BY <1>2, <2>3, <2>4, <2>5 DEF InContext, Agree, AtRest
  <1>6. CASE InitWithoutInfo \/ \E info \in Infos : InitCopiesNull(info)
    <2>1. held' = ObtainedBefore("bot_token") /\ life' # "made"
      BY <1>6 DEF InitWithoutInfo, InitCopiesNull
    <2> QED
      BY <1>2, <2>1 DEF InContext, AtRest
  <1> QED
    BY <1>5, <1>6 DEF NewContext, MakesContext

\* Cleaning up a context that has its ring ends it.
LEMMA CleanupAgrees ==
    ASSUME ClientInv, CleansUp
    PROVE  InContext'
  <1>1. life' # "made"
    BY DEF ClientInv, InContext, CleansUp, ld_cleanup_context
  <1> QED
    BY <1>1, CleanupRests DEF InContext, AtRest

\* The bootstrap ends with the connection it is for.
LEMMA BootstrapAgrees ==
    ASSUME ClientInv, Bootstraps
    PROVE  InContext'
  <1>1. CASE life = "made"
    <2>1. /\ life' = "made" /\ held' = held /\ phase = "app"
          /\ connected = (lws_wsi # NULL) /\ held \cap Shared = Pointers /\ "gateway_ring" \in held
      BY <1>1 DEF ClientInv, InContext, Agree, Bootstraps, Stores
    <2>2. ~connected
      BY <1>1, TypesOfBoth
         DEF ClientInv, InContext, Agree, Bootstraps, Connecting, ld_connect, Skip, GetGateway,
             GetGatewayBot, GetCurrentUser, GatewayConnects, GatewayCantConnect
    <2>3. \/ connected' = connected
          \/ connected' = TRUE /\ pc' = "return"
      BY DEF Bootstraps, Connecting, ld_connect, Skip, GetGateway, GetGatewayBot, GetCurrentUser,
             GatewayConnects, GatewayCantConnect
    <2>4. CASE ~connected'
      <3>1. UNCHANGED gateway_vars
        BY <2>4 DEF Bootstraps
      <3>2. lws_wsi' = lws_wsi /\ phase' = phase /\ Pointers' = Pointers
        BY <3>1, PointersNext DEF gateway_vars
      <3>3. connected' = connected /\ lws_wsi' = NULL
        BY <2>1, <2>2, <2>3, <2>4, <3>2
      <3> QED
        BY <1>1, <2>1, <3>2, <3>3 DEF InContext, Agree
    <2>5. CASE connected'
      <3>1. Gateway!ServiceConnects /\ pc' = "return" /\ connected' = TRUE
        BY <2>2, <2>3, <2>5 DEF Bootstraps
      <3>2. lws_wsi' # NULL /\ UNCHANGED <<session, rx_buffer>>
        BY <3>1, TypesOfBoth
           DEF Gateway!ServiceConnects, Gateway!ld_connect, Gateway!ConnectStarts
      <3>3. Pointers' = Pointers
        BY <3>2, PointersNext
      <3> QED
        BY <1>1, <2>1, <3>1, <3>2, <3>3 DEF InContext, Agree
    <2> QED
      BY <2>4, <2>5
  <1>2. CASE life # "made"
    <2>1. life = "bare" /\ life' = "bare" /\ UNCHANGED held
      BY <1>2 DEF Bootstraps, Stores
    <2>2. ~gateway_bot_url /\ pc \notin {"user", "lws"} /\ ~connected
      BY <2>1 DEF ClientInv, ConnectsInside, StagesInOrder
    <2>3. ~connected'
      BY <2>2 DEF Bootstraps, Connecting, ld_connect, Skip, GetGateway, GetGatewayBot,
                  GetCurrentUser, GatewayConnects, GatewayCantConnect
    <2>4. UNCHANGED gateway_vars
      BY <2>3 DEF Bootstraps
    <2> QED
      BY <1>2, <2>1, <2>4
         DEF ClientInv, InContext, AtRest, Pointers, gateway_vars, connection_vars,
             conversation_vars
  <1> QED
    BY <1>1, <1>2

\* What the ledger enters, it enters as it is.
LEMMA EntriesAgree ==
    ASSUME ClientInv, InUse, NEW got, NEW freed, Enters(got, freed)
    PROVE  InContext'
  <1>1. /\ held' = (held \ Shared) \cup Pointers' /\ connected' = (lws_wsi' # NULL)
        /\ life' = "made" /\ pc' = "return"
    BY DEF Enters, InUse
  <1>2. "gateway_ring" \in held' /\ held' \cap Shared = Pointers'
    BY <1>1 DEF ClientInv, InContext, InUse, Shared, SessionId, RxBuffer, Pointers
  <1> QED
    BY <1>1, <1>2 DEF InContext, Agree

LEMMA InContextKept ==
    ASSUME ClientInv, [ClientNext]_client_vars
    PROVE  InContext'
  <1>1. CASE NewContext \/ CleansUp \/ Bootstraps
    BY <1>1, NewContextAgrees, CleanupAgrees, BootstrapAgrees
  <1>2. CASE Services
    BY <1>2, EntriesAgree DEF Services
  <1>3. CASE RunsCallback
    <2>1. InUse /\ \E got, freed : Enters(got, freed)
      BY <1>3 DEF RunsCallback, ConnectionCallback, ReceivesOn, ReceivesWhole, ReceivesLast
    <2> QED
      BY <2>1, EntriesAgree
  <1>4. CASE Requests
    <2>1. UNCHANGED <<gateway_vars, life, held, pc, connected>>
      BY <1>4 DEF Requests, Stores, AppSends, Sends, AppGetsUser
    <2> QED
      BY <2>1
         DEF ClientInv, InContext, Agree, AtRest, Pointers, gateway_vars, connection_vars,
             conversation_vars
  <1>5. CASE TimePasses
    <2>1. UNCHANGED <<phase, lws_wsi, session, rx_buffer>> /\ UNCHANGED <<life, held, pc, connected>>
      BY <1>5 DEF TimePasses, Gateway!Elapse, context_vars, life_vars, vars
    <2>2. life = "made" /\ Pointers' = Pointers
      BY <1>5, <2>1, PointersNext DEF TimePasses
    <2> QED
      BY <2>1, <2>2 DEF ClientInv, InContext, Agree
  <1>6. CASE Ended \/ UNCHANGED client_vars
    BY <1>6
       DEF Ended, client_vars, context_vars, life_vars, vars, ClientInv, InContext, Agree,
           AtRest, Pointers, gateway_vars, connection_vars, conversation_vars
  <1> QED
    BY <1>1, <1>2, <1>3, <1>4, <1>5, <1>6 DEF ClientNext

\* The invariant of the two holds.
LEMMA ClientInvHolds == ClientSpec => []ClientInv
  <1>1. ClientInit => ClientInv
    <2> SUFFICES ASSUME ClientInit PROVE ClientInv
      OBVIOUS
    <2>1. Ledger
      BY LedgerStarts DEF ClientInit
    <2>2. ConnectsInside
      BY DEF ClientInit, ContextInit, Init, ConnectsInside, StagesInOrder
    <2>3. GatewayInv
      BY SameInit, GatewayInvStarts DEF ClientInit
    <2>4. InContext
      BY DEF ClientInit, ContextInit, Init, Gateway!Init, InContext, AtRest
    <2> QED
      BY <2>1, <2>2, <2>3, <2>4 DEF ClientInv
  <1>2. ClientInv /\ [ClientNext]_client_vars => ClientInv'
    <2> SUFFICES ASSUME ClientInv, [ClientNext]_client_vars PROVE ClientInv'
      OBVIOUS
    <2>1. [ContextNext]_context_vars
      BY ContextStep
    <2>2. Ledger' /\ ConnectsInside'
      BY <2>1, LedgerStep, InsideStep DEF ClientInv
    <2>3. GatewayInv' /\ InContext'
      BY GatewayInvKept, InContextKept
    <2> QED
      BY <2>2, <2>3 DEF ClientInv
  <1> QED
    BY <1>1, <1>2, PTL DEF ClientSpec

\* In a context the gateway client takes its own steps, and a new context has a new one.
LEMMA StepsInContext ==
    ASSUME ClientInv, [ClientNext]_client_vars
    PROVE  IF life' = life THEN [Gateway!Next]_gateway_vars
           ELSE life' = "made" => (Gateway!Init)'
  <1>1. CASE NewContext
    BY <1>1, NewContextInit
       DEF NewContext, MakesContext, ld_init_context, InitCopiesNull, InitWithoutInfo
  <1>2. CASE CleansUp
    <2>1. life' # "made" /\ (life' = life => life # "made")
      BY <1>2 DEF ClientInv, InContext, CleansUp, ld_cleanup_context
    <2>2. life # "made" => UNCHANGED gateway_vars
      BY <1>2
         DEF ClientInv, InContext, AtRest, CleansUp, ConnectionsClosed, gateway_vars,
             connection_vars, conversation_vars
    <2> QED
      BY <2>1, <2>2
  <1>3. CASE ~NewContext /\ ~CleansUp
    BY <1>3, ClientStep
  <1> QED
    BY <1>1, <1>2, <1>3

\* Which are steps of the monitor.
LEMMA MonitorInContext ==
    ASSUME ClientInv, [ClientNext]_client_vars, life' = life
    PROVE  [Gateway!Monitor!Next]_(Gateway!Monitor!vars)
  <1>1. [Gateway!Next]_gateway_vars
    BY StepsInContext
  <1>2. [Proved!Next]_(Proved!vars)
    BY <1>1, SameNext, SameVars
  <1>3. Proved!MonitorInv
    BY DEF ClientInv, GatewayInv, Proved!MonitorInv
  <1>4. [Proved!Monitor!Next]_(Proved!Monitor!vars)
    BY <1>2, <1>3, Applies, Proved!MonitorStep
  <1> QED
    BY <1>4
       DEF Proved!Monitor!Next, Gateway!Monitor!Next, Proved!Monitor!Send, Gateway!Monitor!Send,
           Proved!Monitor!Answer, Gateway!Monitor!Answer, Proved!Monitor!Lose,
           Gateway!Monitor!Lose, Proved!Monitor!Miss, Gateway!Monitor!Miss,
           Proved!Monitor!vars, Gateway!Monitor!vars, Proved!Outstanding,
           Gateway!Outstanding, Proved!HeartbeatsIn, Gateway!HeartbeatsIn

(***************************************************************************)
(* Theorems                                                                 *)
(***************************************************************************)

\* ImplementsContext: what LdContext assumes of the gateway client (which pointers it
\* overwrites and frees, and when) is what ld_lws_callback and ld_service do.
THEOREM ClientImplementsContext == ClientSpec => ImplementsContext
  <1>1. ClientInit => ContextInit
    BY DEF ClientInit
  <1>2. ClientInv /\ [ClientNext]_client_vars => [ContextNext]_context_vars
    BY ContextStep
  <1> QED
    BY <1>1, <1>2, ClientInvHolds, PTL DEF ClientSpec, ImplementsContext, ContextSpec

\* GatewayInEveryContext: ld_init_context, ld_cleanup_context, the bootstrap and the
\* application are to the gateway client what LdGateway takes them for, in the first
\* context and in every other.
THEOREM ClientImplementsGateway == ClientSpec => GatewayInEveryContext
  <1> DEFINE A == IF life' = life THEN [Gateway!Next]_gateway_vars
                  ELSE life' = "made" => (Gateway!Init)'
  <1>1. ClientInv /\ [ClientNext]_client_vars => A
    BY StepsInContext
  <1> HIDE DEF A
  <1>2. ClientSpec => [][A]_client_vars
    BY <1>1, ClientInvHolds, PTL DEF ClientSpec
  <1> QED
    BY <1>2 DEF A, GatewayInEveryContext

\* HeartbeatsAreMonitored, within every context: the bookkeeping is a HeartbeatMonitor until
\* the context is cleaned up.
THEOREM MonitoredInEveryContext ==
    ClientSpec =>
        [][life' = life => [Gateway!Monitor!Next]_(Gateway!Monitor!vars)]_client_vars
  <1> DEFINE A == life' = life => [Gateway!Monitor!Next]_(Gateway!Monitor!vars)
  <1>1. ClientInv /\ [ClientNext]_client_vars => A
    BY MonitorInContext
  <1> HIDE DEF A
  <1>2. ClientSpec => [][A]_client_vars
    BY <1>1, ClientInvHolds, PTL DEF ClientSpec
  <1> QED
    BY <1>2 DEF A

\* A missed acknowledgement, after which ld_service services nothing, is never got over but
\* with a new context: no connection that comes up, no late answer, no bootstrap takes
\* hb_count back.
THEOREM MissedUntilCleanup ==
    ClientSpec => [][life' = life /\ hb_count > 1 => hb_count' > 1]_client_vars
  <1> DEFINE A == life' = life /\ hb_count > 1 => hb_count' > 1
  <1>1. ASSUME ClientInv, [ClientNext]_client_vars PROVE A
    <2> SUFFICES ASSUME life' = life, hb_count > 1 PROVE hb_count' > 1
      OBVIOUS
    <2>1. [Gateway!Monitor!Next]_(Gateway!Monitor!vars)
      BY <1>1, MonitorInContext
    <2>2. hb_count \in Nat /\ hb_count' \in Nat
      BY <1>1, GatewayInvKept, ClientAssumption DEF ClientInv, GatewayInv, Proved!TypeOK
    <2> QED
      BY <2>1, <2>2
         DEF Gateway!Monitor!Next, Gateway!Monitor!Send, Gateway!Monitor!Answer,
             Gateway!Monitor!Lose, Gateway!Monitor!Miss, Gateway!Monitor!vars
  <1>2. ClientInv /\ [ClientNext]_client_vars => A
    BY <1>1
  <1> HIDE DEF A
  <1>3. ClientSpec => [][A]_client_vars
    BY <1>2, ClientInvHolds, PTL DEF ClientSpec
  <1> QED
    BY <1>3 DEF A

\* ClientTypeOK: in the ledger no count goes below zero (no field is freed twice), and
\* hb_count stays in its range, for any number of contexts.
THEOREM ClientTypes == ClientSpec => []ClientTypeOK
  <1>1. ClientInv => ClientTypeOK
    BY DEF ClientInv, Ledger, GatewayInv, ClientTypeOK, Gateway!TypeOK, Proved!TypeOK,
           Gateway!TxPayload, Proved!TxPayload, Gateway!RxPayload, Proved!RxPayload,
           Gateway!NoMessage, Proved!NoMessage
  <1> QED
    BY <1>1, ClientInvHolds, PTL

\* CallbacksHaveContext: no connection outlives its context, and ld_connect, called for a
\* context that lost its connection, has none that calls back before it returns.
THEOREM CallbacksInContext == ClientSpec => []CallbacksHaveContext
  <1>1. ASSUME ClientInv PROVE CallbacksHaveContext
    <2> SUFFICES ASSUME NEW w \in Wsis, wsi_state[w] # "free"
                 PROVE  life = "made" /\ pc = "return" /\ connected /\ gateway_bot_url
                            /\ current_user # "NULL"
      BY DEF CallbacksHaveContext
    <2>1. lws_wsi = w /\ lws_wsi # NULL
      BY <1>1, TypesOfBoth
    <2>2. life = "made" /\ pc = "return"
      BY <1>1, <2>1 DEF ClientInv, InContext, AtRest
    <2>3. connected
      BY <1>1, <2>1, <2>2 DEF ClientInv, InContext, Agree
    <2> QED
      BY <1>1, <2>2, <2>3 DEF ClientInv, ConnectsInside, StagesInOrder
  <1> QED
    BY <1>1, ClientInvHolds, PTL

\* What LdGateway promises of one client, every client of the program keeps, with nothing
\* assumed of the rest any more.
THEOREM PromisesInEveryContext ==
    ClientSpec => /\ []Gateway!OneGatewayConnection
                  /\ []Gateway!OneHeartbeatOutstanding
                  /\ []Gateway!NothingBeforeFirstHello
                  /\ []Gateway!FragmentsReassemble
                  /\ []Gateway!MissedAckStopsService
  <1>1. ASSUME ClientInv
        PROVE  /\ Gateway!OneGatewayConnection /\ Gateway!OneHeartbeatOutstanding
               /\ Gateway!NothingBeforeFirstHello /\ Gateway!FragmentsReassemble
               /\ Gateway!MissedAckStopsService
    <2>1. GatewayInv
      BY <1>1 DEF ClientInv
    <2>2. Proved!OneHeartbeatOutstanding
      BY <2>1, Applies, Proved!AccountingMeaning DEF GatewayInv
    <2>3. Gateway!OneHeartbeatOutstanding
      BY <2>2
         DEF Gateway!OneHeartbeatOutstanding, Proved!OneHeartbeatOutstanding,
             Gateway!Outstanding, Proved!Outstanding, Gateway!HeartbeatsIn, Proved!HeartbeatsIn
    <2>4. Gateway!OneGatewayConnection /\ Gateway!NothingBeforeFirstHello
      BY <2>1
         DEF GatewayInv, Gateway!OneGatewayConnection, Proved!OneGatewayConnection,
             Gateway!NothingBeforeFirstHello, Proved!NothingBeforeFirstHello
    <2>5. Gateway!FragmentsReassemble
      BY <2>1
         DEF GatewayInv, Gateway!FragmentsReassemble, Proved!Reassembly, Gateway!NoMessage,
             Proved!NoMessage
    <2>6. Gateway!MissedAckStopsService
      BY <2>1
         DEF GatewayInv, Gateway!MissedAckStopsService, Proved!MissedAckStopsService,
             Gateway!HeartbeatDue, Proved!HeartbeatDue
    <2> QED
      BY <2>3, <2>4, <2>5, <2>6
  <1>2. ClientInv =>
            /\ Gateway!OneGatewayConnection /\ Gateway!OneHeartbeatOutstanding
            /\ Gateway!NothingBeforeFirstHello /\ Gateway!FragmentsReassemble
            /\ Gateway!MissedAckStopsService
    BY <1>1
  <1> QED
    BY <1>2, ClientInvHolds, PTL

\* HelloAnswered, in every context with a ring that holds two payloads.
THEOREM HelloAnsweredInEveryContext == Capacity >= 2 /\ ClientSpec => []Gateway!HelloAnswered
  <1> SUFFICES ASSUME Capacity >= 2 PROVE ClientSpec => []Gateway!HelloAnswered
    OBVIOUS
  <1>1. ClientInv => Gateway!HelloAnswered
    BY DEF ClientInv, GatewayInv, Gateway!HelloAnswered, Proved!Answered, Proved!HasIdentify
  <1> QED
    BY <1>1, ClientInvHolds, PTL

\* And what LdContext promises holds with the gateway client it abstracts from: the URL is
\* there for every connection, cleanup leaves no handle behind, and no number of lost
\* connections has a field of a context allocated again, but for the session id and the rx
\* buffer.
THEOREM ContextPromisesKept ==
    ClientSpec => []ConnectHasUrl /\ []CleanupReleases /\ []FieldsObtainedOnce
  BY ClientImplementsContext, UrlInEveryContext, CleanupComplete, RetriesObtainOnce, PTL
     DEF ImplementsContext
=============================================================================
