----------------------------- MODULE LdGateway -----------------------------
(***************************************************************************)
(* The gateway client of libdiscord (lib/libdiscord.c): the service loop    *)
(* ld_service, the libwebsockets callback ld_lws_callback, the payload and  *)
(* dispatch parsers and the heartbeat queue, around one struct ld_context.  *)
(*                                                                          *)
(* Everything runs on the application's thread.  The application is either  *)
(* in its own code (phase "app") or inside lws_service (phase "service"),   *)
(* and only there does lws run the callback, any number of times, for any   *)
(* of its connections.  The gateway and the network are the environment.    *)
(*                                                                          *)
(* A connection is a struct lws *, here an identity of the set Wsis; lws    *)
(* may give a new connection the address of a destroyed one.                *)
(***************************************************************************)
EXTENDS LwsRing, Integers, FiniteSets

CONSTANTS
    Wsis,            \* the connections that may exist at once
    NULL,            \* the null pointer
    Mixed,           \* an rx buffer whose content belongs to no single message
    HbMax,           \* hb_count is kept exactly up to here (it never comes down again)
    CloseCodes,      \* the codes with which the gateway closes
    Fragmented,      \* the kinds of payload that may come in more than one fragment
    UninitOutcomes,  \* what using the uninitialised identify struct may do
    AppMayConnect    \* may the application call ld_connect while connected?

\* What the library puts in the transmit ring.
TxPayload == {"HEARTBEAT", "IDENTIFY"}

\* What the gateway sends, as far as ld_gateway_payload_parser tells it apart:
\* CONTROL is an opcode it ignores (HEARTBEAT, RECONNECT, ...), BAD one it refuses
\* (no JSON, unknown opcode or key, READY without a session_id).
RxPayload == {"HELLO", "ACK", "READY", "DISPATCH", "INVALID", "CONTROL", "BAD"}

\* No message of this connection is being received.
NoMessage == "none"

\* Close codes after which the code believes the session cannot be resumed.
FatalCloseCodes == {1000, 4006}

ASSUME GatewayAssumption ==
    /\ NULL \notin Wsis /\ Mixed \notin Wsis /\ Mixed # NULL
    /\ HbMax \in Nat /\ HbMax >= 2
    /\ Fragmented \subseteq RxPayload
    /\ UninitOutcomes \subseteq {"identify", "error", "crash"}
    /\ AppMayConnect \in BOOLEAN

VARIABLES
    phase,         \* where the application's thread is: "app", "service", "crashed"
    \* struct ld_context
    lws_wsi,       \* the connection the context services, or NULL
    hb_armed,      \* heartbeat_interval # 0
    hb_elapsed,    \* lws_now_secs() - last_hb > heartbeat_interval / 1000
    hb_count,      \* heartbeats sent minus HEARTBEAT_ACKs received
    ring,          \* gateway_ring
    session,       \* gateway_session_id # NULL
    rx_buffer,     \* gateway_rx_buffer: NULL, or the connection its content is from
    \* libwebsockets, per connection
    wsi_state,     \* "free", "connecting", "open", "closing"
    pollout,       \* connections with a pending lws_callback_on_writable
    rx_message,    \* the fragmented message being received, or NoMessage
    \* the conversation on each connection
    greeted,       \* the gateway has sent HELLO
    hello_parsed,  \* the library has handled HELLO
    identified,    \* the gateway has received IDENTIFY
    unacked        \* heartbeats the gateway has received and not acknowledged

context_vars == <<lws_wsi, hb_armed, hb_elapsed, hb_count, ring, session, rx_buffer>>
wsi_vars     == <<wsi_state, pollout, rx_message>>
gateway_vars == <<greeted, hello_parsed, identified, unacked>>
vars == <<phase, context_vars, wsi_vars, gateway_vars>>

\* The variables ld_gateway_payload_parser may change.
parser_vars == <<phase, hb_armed, hb_elapsed, hb_count, ring, session, wsi_state, hello_parsed>>

TypeOK ==
    /\ phase \in {"app", "service", "crashed"}
    /\ lws_wsi \in Wsis \cup {NULL}
    /\ hb_armed \in BOOLEAN
    /\ hb_elapsed \in BOOLEAN
    /\ hb_count \in 0..HbMax
    /\ ring \in Seq(TxPayload) /\ Len(ring) <= Capacity
    /\ session \in BOOLEAN
    /\ rx_buffer \in Wsis \cup {NULL, Mixed}
    /\ wsi_state \in [Wsis -> {"free", "connecting", "open", "closing"}]
    /\ pollout \subseteq Wsis
    /\ rx_message \in [Wsis -> RxPayload \cup {NoMessage}]
    /\ greeted \in [Wsis -> BOOLEAN]
    /\ hello_parsed \in [Wsis -> BOOLEAN]
    /\ identified \in [Wsis -> BOOLEAN]
    /\ unacked \in [Wsis -> Nat]

\* ld_init_context: the struct is zeroed, last_hb is the current time.
Init ==
    /\ phase = "app"
    /\ lws_wsi = NULL
    /\ hb_armed = FALSE
    /\ hb_elapsed = FALSE
    /\ hb_count = 0
    /\ ring = <<>>
    /\ session = FALSE
    /\ rx_buffer = NULL
    /\ wsi_state = [w \in Wsis |-> "free"]
    /\ pollout = {}
    /\ rx_message = [w \in Wsis |-> NoMessage]
    /\ greeted = [w \in Wsis |-> FALSE]
    /\ hello_parsed = [w \in Wsis |-> FALSE]
    /\ identified = [w \in Wsis |-> FALSE]
    /\ unacked = [w \in Wsis |-> 0]

----------------------------------------------------------------------------
(***************************************************************************)
(* ld_connect                                                               *)
(***************************************************************************)

\* The gateway connection is started: lws returns a connection in progress and
\* stores it in context->lws_wsi, whatever that pointed to.
ConnectStarts(w) ==
    /\ wsi_state[w] = "free"
    /\ wsi_state' = [wsi_state EXCEPT ![w] = "connecting"]
    /\ lws_wsi' = w
    /\ UNCHANGED hb_elapsed

\* A REST request fails, which leaves lws_wsi as it was, or the connection is
\* refused on the spot, and lws clears it.  ld_service then sleeps.
ConnectFails ==
    /\ lws_wsi' \in {lws_wsi, NULL}
    /\ hb_elapsed' \in {hb_elapsed, TRUE}
    /\ UNCHANGED wsi_state

ld_connect(Outcome) ==
    /\ phase = "app"
    /\ Outcome
    /\ UNCHANGED <<phase, hb_armed, hb_count, ring, session, rx_buffer, pollout, rx_message,
                   gateway_vars>>

----------------------------------------------------------------------------
(***************************************************************************)
(* ld_service                                                               *)
(***************************************************************************)

ServiceConnects    == lws_wsi = NULL /\ \E w \in Wsis : ld_connect(ConnectStarts(w))
ServiceCantConnect == lws_wsi = NULL /\ ld_connect(ConnectFails)

HeartbeatDueUnarmed == hb_elapsed              \* mutant: no interval known yet
HeartbeatDue == hb_elapsed /\ hb_armed

CountedAgain == IF hb_count < HbMax THEN hb_count + 1 ELSE HbMax

MissedTwo == hb_count >= 2                     \* mutant: one more miss tolerated
\* hb_count++ makes it exceed one: the last heartbeat is still unacknowledged.
MissedAck == hb_count >= 1

ForgottenDeadline == hb_elapsed' = FALSE       \* mutant: last_hb set before the check
\* The return for a missed acknowledgement comes before last_hb is set.
DeadlineStands == UNCHANGED hb_elapsed

\* The counter is not taken back, and lws is not serviced.
ServiceMissedAck ==
    /\ phase = "app" /\ lws_wsi # NULL
    /\ HeartbeatDue /\ MissedAck
    /\ hb_count' = CountedAgain
    /\ DeadlineStands
    /\ UNCHANGED <<phase, lws_wsi, hb_armed, ring, session, rx_buffer, wsi_vars, gateway_vars>>

CountKept == hb_count' = hb_count + 1          \* mutant: hb_count-- forgotten
CountTakenBack == UNCHANGED hb_count

\* ld_gateway_queue_heartbeat finds no room; lws is not serviced.
ServiceCantFitHeartbeat ==
    /\ phase = "app" /\ lws_wsi # NULL
    /\ HeartbeatDue /\ ~MissedAck
    /\ RingFree(ring) = 0
    /\ CountTakenBack
    /\ UNCHANGED <<phase, lws_wsi, hb_armed, hb_elapsed, ring, session, rx_buffer, wsi_vars,
                   gateway_vars>>

\* ld_gateway_queue_heartbeat finds room: the deadline moves on.
QueuesHeartbeat ==
    /\ HeartbeatDue /\ ~MissedAck
    /\ RingFree(ring) # 0
    /\ hb_count' = hb_count + 1
    /\ ring' = RingInsert(ring, "HEARTBEAT")
    /\ hb_elapsed' = FALSE

NoHeartbeatNeeded == ~HeartbeatDue /\ UNCHANGED <<hb_count, ring, hb_elapsed>>

RequestAtHeartbeat ==                          \* mutant: asked with a heartbeat only
    pollout' = IF ring' # ring /\ wsi_state[lws_wsi] = "open"
               THEN pollout \cup {lws_wsi} ELSE pollout
\* A writeable callback is asked for when something waits.  The request counts
\* once the connection is open.
WriteableRequest ==
    pollout' = IF RingWaiting(ring') # 0 /\ wsi_state[lws_wsi] = "open"
               THEN pollout \cup {lws_wsi} ELSE pollout

EntersServiceToSend ==                         \* mutant: with something to send only
    phase' = IF RingWaiting(ring') # 0 THEN "service" ELSE "app"
\* lws_service is called, whether or not anything is to be sent.
EntersService == phase' = "service"

ServicePolls ==
    /\ phase = "app" /\ lws_wsi # NULL
    /\ QueuesHeartbeat \/ NoHeartbeatNeeded
    /\ WriteableRequest
    /\ EntersService
    /\ UNCHANGED <<lws_wsi, hb_armed, session, rx_buffer, wsi_state, rx_message, gateway_vars>>

\* lws_service returns, and with it ld_service.
ServiceReturns ==
    /\ phase = "service"
    /\ phase' = "app"
    /\ UNCHANGED <<context_vars, wsi_vars, gateway_vars>>

----------------------------------------------------------------------------
(***************************************************************************)
(* ld_lws_callback: connections come and go                                 *)
(***************************************************************************)

\* lws hangs up a connection whose callback returned something other than 0.
Hangup(w) == wsi_state' = [wsi_state EXCEPT ![w] = "closing"]

\* The user's callback, or the library, may ask for it.
MayHangup(w) == Hangup(w) \/ UNCHANGED wsi_state

\* The connection is gone with all that lws and the gateway knew of it, and
\* what its fragments left in the rx buffer belongs to nobody.
Gone(w) ==
    /\ wsi_state' = [wsi_state EXCEPT ![w] = "free"]
    /\ pollout' = pollout \ {w}
    /\ rx_message' = [rx_message EXCEPT ![w] = NoMessage]
    /\ greeted' = [greeted EXCEPT ![w] = FALSE]
    /\ hello_parsed' = [hello_parsed EXCEPT ![w] = FALSE]
    /\ identified' = [identified EXCEPT ![w] = FALSE]
    /\ unacked' = [unacked EXCEPT ![w] = 0]
    /\ rx_buffer' = IF rx_buffer = w THEN Mixed ELSE rx_buffer
    /\ UNCHANGED <<phase, hb_armed, hb_elapsed, hb_count, ring, session>>

\* LWS_CALLBACK_CLIENT_CONNECTION_ERROR, then WSI_DESTROY.  Neither touches the
\* heartbeat state or the ring.
ConnectionError(w) ==
    /\ phase = "service" /\ wsi_state[w] = "connecting"
    /\ lws_wsi' = NULL
    /\ Gone(w)

\* LWS_CALLBACK_CLIENT_ESTABLISHED: last_hb is reset, hb_count is not.
Established(w) ==
    /\ phase = "service" /\ wsi_state[w] = "connecting"
    /\ \E s \in {"open", "closing"} : wsi_state' = [wsi_state EXCEPT ![w] = s]
    /\ hb_elapsed' = FALSE
    /\ UNCHANGED <<phase, lws_wsi, hb_armed, hb_count, ring, session, rx_buffer, pollout,
                   rx_message, gateway_vars>>

\* The connection breaks, and lws notices.
Drop(w) ==
    /\ phase = "service" /\ wsi_state[w] = "open"
    /\ Hangup(w)
    /\ UNCHANGED <<phase, context_vars, pollout, rx_message, gateway_vars>>

ClearsWsiEarly == NULL                         \* mutant: lws_wsi cleared on close
\* Closing does not touch lws_wsi (the assignment at CLOSED is commented out).
WsiWhileClosing == lws_wsi

\* LWS_CALLBACK_WS_PEER_INITIATED_CLOSE.  context->gi is NULL: nothing ever
\* calls _ld_init_gi, so a fatal code ends in a null dereference.
PeerInitiatedClose(w, code) ==
    /\ phase = "service" /\ wsi_state[w] = "open"
    /\ IF code \in FatalCloseCodes
       THEN phase' = "crashed" /\ UNCHANGED wsi_state
       ELSE Hangup(w) /\ UNCHANGED phase
    /\ lws_wsi' = WsiWhileClosing
    /\ UNCHANGED <<hb_armed, hb_elapsed, hb_count, ring, session, rx_buffer, pollout, rx_message,
                   gateway_vars>>

\* LWS_CALLBACK_CLIENT_CLOSED (which does nothing), then WSI_DESTROY, which
\* clears lws_wsi whichever connection was destroyed.
WsiDestroy(w) ==
    /\ phase = "service" /\ wsi_state[w] = "closing"
    /\ lws_wsi' = NULL
    /\ Gone(w)

----------------------------------------------------------------------------
(***************************************************************************)
(* ld_gateway_payload_parser: one complete payload p of connection w        *)
(***************************************************************************)

OnlyNewSessionIdentifies(r) ==                 \* mutant: no IDENTIFY beside a session
    IF session THEN r ELSE RingInsert(r, "IDENTIFY")
\* IDENTIFY is queued; that the ring may be full is not looked at.
WithIdentify(r) == RingInsert(r, "IDENTIFY")

\* Without a session the identify struct is filled in.  With one, a RESUME is
\* prepared and dropped, and the struct is used as it lies on the stack.
IdentifyOutcomes == IF session THEN UninitOutcomes ELSE {"identify"}

ParseHello(w) ==
    /\ hb_armed' = TRUE
    /\ hello_parsed' = [hello_parsed EXCEPT ![w] = TRUE]
    /\ \/ /\ "identify" \in IdentifyOutcomes
          /\ ring' = WithIdentify(ring)
          /\ hb_elapsed' = FALSE
          /\ UNCHANGED <<phase, wsi_state>>
       \/ /\ "error" \in IdentifyOutcomes      \* the interval is new, last_hb is not
          /\ Hangup(w)
          /\ hb_elapsed' \in BOOLEAN
          /\ UNCHANGED <<phase, ring>>
       \/ /\ "crash" \in IdentifyOutcomes      \* here too
          /\ phase' = "crashed"
          /\ hb_elapsed' \in BOOLEAN
          /\ UNCHANGED <<wsi_state, ring>>
    /\ UNCHANGED <<hb_count, session>>

CountedTwice(c) == c - 2                       \* mutant: an ACK counted twice
CountedDown(c) == c - 1

ParseAck ==
    /\ hb_count' = CountedDown(hb_count)
    /\ UNCHANGED <<phase, hb_armed, hb_elapsed, ring, session, wsi_state, hello_parsed>>

\* A dispatch ends in the user's callback, READY after saving the session id.
ParseDispatch(w, p) ==
    /\ session' = (session \/ p = "READY")
    /\ MayHangup(w)
    /\ UNCHANGED <<phase, hb_armed, hb_elapsed, hb_count, ring, hello_parsed>>

ParseInvalidSession ==
    /\ session' = FALSE
    /\ UNCHANGED <<phase, hb_armed, hb_elapsed, hb_count, ring, wsi_state, hello_parsed>>

ParseBad(w) ==
    /\ Hangup(w)
    /\ UNCHANGED <<phase, hb_armed, hb_elapsed, hb_count, ring, session, hello_parsed>>

Parse(w, p) ==
    \/ p = "HELLO"               /\ ParseHello(w)
    \/ p = "ACK"                 /\ ParseAck
    \/ p \in {"READY", "DISPATCH"} /\ ParseDispatch(w, p)
    \/ p = "INVALID"             /\ ParseInvalidSession
    \/ p = "CONTROL"             /\ UNCHANGED parser_vars
    \/ p = "BAD"                 /\ ParseBad(w)

----------------------------------------------------------------------------
(***************************************************************************)
(* ld_lws_callback: LWS_CALLBACK_CLIENT_RECEIVE                             *)
(***************************************************************************)

\* What a gateway that keeps to the protocol may send on w: HELLO first and
\* once, an ACK per heartbeat, the rest after IDENTIFY.
GatewaySends(w, p) ==
    \/ /\ p = "HELLO" /\ ~greeted[w]
       /\ greeted' = [greeted EXCEPT ![w] = TRUE]
       /\ UNCHANGED unacked
    \/ /\ p = "ACK" /\ unacked[w] > 0
       /\ unacked' = [unacked EXCEPT ![w] = @ - 1]
       /\ UNCHANGED greeted
    \/ /\ p \in {"READY", "DISPATCH", "INVALID"} /\ identified[w]
       /\ UNCHANGED <<greeted, unacked>>
    \/ /\ p \in {"CONTROL", "BAD"} /\ greeted[w]
       /\ UNCHANGED <<greeted, unacked>>

Receiving(w) == phase = "service" /\ wsi_state[w] = "open"

\* A message in one fragment.  Over an empty buffer it is parsed; otherwise it is
\* taken for the first fragment of a longer one, and stored.
ReceiveWhole(w, p) ==
    /\ Receiving(w) /\ rx_message[w] = NoMessage
    /\ GatewaySends(w, p)
    /\ \/ /\ rx_buffer = NULL
          /\ Parse(w, p)
          /\ UNCHANGED rx_buffer
       \/ /\ rx_buffer # NULL
          /\ rx_buffer' = w
          /\ UNCHANGED parser_vars
    /\ UNCHANGED <<lws_wsi, pollout, rx_message, identified>>

KeepsOldPrefix(w) == IF rx_buffer = NULL THEN w ELSE Mixed   \* mutant: appended
\* A first fragment replaces what the buffer points to.
BufferAfterFirst(w) == w

ReceiveFirst(w, p) ==
    /\ Receiving(w) /\ rx_message[w] = NoMessage
    /\ GatewaySends(w, p)
    /\ rx_buffer' = BufferAfterFirst(w)
    /\ rx_message' = [rx_message EXCEPT ![w] = p]
    /\ UNCHANGED <<lws_wsi, pollout, identified, parser_vars>>

\* A middle fragment is appended to whatever is in the buffer.
ReceiveMiddle(w) ==
    /\ Receiving(w) /\ rx_message[w] # NoMessage
    /\ rx_buffer' = IF rx_buffer = w THEN w ELSE Mixed
    /\ UNCHANGED <<phase, lws_wsi, hb_armed, hb_elapsed, hb_count, ring, session, wsi_vars,
                   gateway_vars>>

\* The last fragment is parsed behind what is in the buffer, or alone if there is
\* nothing: what comes out is the message only if the rest of it was there.
ReceiveLast(w) ==
    /\ Receiving(w) /\ rx_message[w] # NoMessage
    /\ Parse(w, IF rx_buffer = w THEN rx_message[w] ELSE "BAD")
    /\ rx_buffer' = NULL
    /\ rx_message' = [rx_message EXCEPT ![w] = NoMessage]
    /\ UNCHANGED <<lws_wsi, pollout, greeted, identified, unacked>>

----------------------------------------------------------------------------
(***************************************************************************)
(* ld_lws_callback: LWS_CALLBACK_CLIENT_WRITEABLE                           *)
(***************************************************************************)

\* Heartbeats taken out of the ring reach the gateway ...
OnTheWire(w, p) ==
    /\ unacked' = IF p = "HEARTBEAT" THEN [unacked EXCEPT ![w] = @ + 1] ELSE unacked
    /\ identified' = IF p = "IDENTIFY" THEN [identified EXCEPT ![w] = TRUE] ELSE identified
    /\ UNCHANGED wsi_state

\* ... or lws_write fails or is partial: the payload is lost, the connection hung up.
WriteFails(w) == Hangup(w) /\ UNCHANGED <<unacked, identified>>

Writeable(w) ==
    /\ phase = "service" /\ wsi_state[w] = "open" /\ w \in pollout
    /\ pollout' = pollout \ {w}
    /\ \/ /\ RingWaiting(ring) = 0
          /\ UNCHANGED <<ring, wsi_state, identified, unacked>>
       \/ /\ RingWaiting(ring) # 0
          /\ ring' = RingRest(ring)
          /\ OnTheWire(w, RingOldest(ring)) \/ WriteFails(w)
    /\ UNCHANGED <<phase, lws_wsi, hb_armed, hb_elapsed, hb_count, session, rx_buffer,
                   rx_message, greeted, hello_parsed>>

----------------------------------------------------------------------------
\* The application: it calls ld_service, sometimes ld_connect, and time passes.

AppConnects    == AppMayConnect /\ \E w \in Wsis : ld_connect(ConnectStarts(w))
AppCantConnect == AppMayConnect /\ ld_connect(ConnectFails)

\* The heartbeat interval runs out.
Elapse ==
    /\ phase # "crashed"
    /\ hb_elapsed' = TRUE
    /\ UNCHANGED <<phase, lws_wsi, hb_armed, hb_count, ring, session, rx_buffer, wsi_vars,
                   gateway_vars>>

\* After a crash nothing happens.
Crashed == phase = "crashed" /\ UNCHANGED vars

Service ==
    \/ ServiceConnects \/ ServiceCantConnect
    \/ ServiceMissedAck \/ ServiceCantFitHeartbeat
    \/ ServicePolls

Callback(w) ==
    \/ ConnectionError(w) \/ Established(w) \/ Drop(w) \/ WsiDestroy(w)
    \/ \E code \in CloseCodes : PeerInitiatedClose(w, code)
    \/ \E p \in RxPayload : ReceiveWhole(w, p)
    \/ \E p \in Fragmented : ReceiveFirst(w, p)
    \/ ReceiveMiddle(w) \/ ReceiveLast(w)
    \/ Writeable(w)

Next ==
    \/ Service \/ ServiceReturns
    \/ AppConnects \/ AppCantConnect
    \/ \E w \in Wsis : Callback(w)
    \/ Elapse
    \/ Crashed

Spec == Init /\ [][Next]_vars

\* An application that calls ld_service in a loop, whatever it returns (as
\* example-ayylmao does); an lws_service that returns and, over its calls, handles
\* every descriptor that keeps being ready; and a network that does not refuse
\* every connection for ever.
ConnectionFairness(w) ==
    /\ SF_vars(ConnectionError(w) \/ Established(w))
    /\ SF_vars(WsiDestroy(w))
    /\ SF_vars(Writeable(w))

LwsFairness == \A w \in Wsis : ConnectionFairness(w)

Fairness ==
    /\ WF_vars(Service) /\ SF_vars(ServiceConnects) /\ WF_vars(ServiceReturns)
    /\ LwsFairness

FairSpec == Spec /\ Fairness

----------------------------------------------------------------------------
(***************************************************************************)
(* Safety                                                                   *)
(***************************************************************************)

\* While the application leaves connecting to ld_service, there is at most one
\* gateway connection, and it is the one the context services: nothing that
\* drops, errors or closes leaves a second one behind (ld_service's test of
\* lws_wsi against the places that clear it).
OneGatewayConnection == \A w \in Wsis : wsi_state[w] # "free" => lws_wsi = w

HeartbeatsIn(r) == {i \in DOMAIN r : r[i] = "HEARTBEAT"}

\* The heartbeats an answer to which may still be counted: queued, received by
\* the gateway, or answered by a message that is arriving in fragments.
Outstanding ==
    {<<"queued", i>> : i \in HeartbeatsIn(ring)}
        \cup {<<"sent", w>> : w \in {v \in Wsis : unacked[v] > 0}}
        \cup {<<"answered", w>> : w \in {v \in Wsis : rx_message[v] = "ACK"}}

\* hb_count never counts short: over all connections, ring and wire there is at
\* most one heartbeat that can still be acknowledged, and while there is one the
\* counter is not zero.  So HEARTBEAT_ACK never takes it below zero.
OneHeartbeatOutstanding ==
    /\ \A x, y \in Outstanding : x = y
    /\ \A w \in Wsis : unacked[w] <= 1
    /\ Outstanding # {} => hb_count >= 1

\* A connection whose HELLO has been handled has sent IDENTIFY or has it waiting
\* in the ring, although the result of the insertion is ignored: the ring is only
\* ever full of other IDENTIFYs and one heartbeat.
HelloAnswered ==
    phase # "crashed" =>
        \A w \in Wsis : wsi_state[w] = "open" /\ hello_parsed[w] =>
            identified[w] \/ \E i \in DOMAIN ring : ring[i] = "IDENTIFY"

\* Before the first HELLO of all nothing is queued, sent or counted, however
\* often the timer would have run out.
NothingBeforeFirstHello ==
    ~hb_armed => /\ ring = <<>> /\ hb_count = 0
                 /\ \A w \in Wsis : ~identified[w] /\ unacked[w] = 0

\* While a message arrives in fragments, the rx buffer holds that message and
\* nothing else, whatever earlier connections left in it.
FragmentsReassemble ==
    \A w \in Wsis : rx_message[w] # NoMessage => rx_buffer = w

\* The counter passes one only in a client that has stopped calling lws_service,
\* with the deadline still in the past: no callback ever runs with hb_count > 1.
MissedAckStopsService == hb_count > 1 => phase = "app" /\ HeartbeatDue

\* The heartbeat bookkeeping is a HeartbeatMonitor.
Monitor == INSTANCE HeartbeatMonitor WITH
    beat <- IF hb_count <= 0 THEN "idle" ELSE IF hb_count = 1 THEN "waiting" ELSE "missed",
    outstanding <- Outstanding # {}

\* Every step of the client is a step of the monitor, or none: in particular a
\* heartbeat lost with its connection is never answered, retried or forgiven.
HeartbeatsAreMonitored == Monitor!Spec

----------------------------------------------------------------------------
(***************************************************************************)
(* Liveness, under FairSpec                                                 *)
(***************************************************************************)

\* A heartbeat is due and cannot be queued: ld_service returns before lws_service.
Stalled == lws_wsi # NULL /\ HeartbeatDue /\ (MissedAck \/ RingFree(ring) = 0)

Stuck == phase = "crashed" \/ Stalled

\* A client that is not stuck never runs dry: ld_service of an open connection changes
\* something, lws_service can return, and what lws owes a connection it can deliver.
\* It is what the fairness above takes hold of.
ClientCanStep ==
    /\ phase = "app" /\ lws_wsi # NULL /\ ~Stalled => ENABLED <<Service>>_vars
    /\ phase = "service" =>
        /\ ENABLED <<ServiceReturns>>_vars
        /\ \A w \in Wsis :
            /\ wsi_state[w] = "connecting"
                  => ENABLED <<ConnectionError(w) \/ Established(w)>>_vars
            /\ wsi_state[w] = "closing" => ENABLED <<WsiDestroy(w)>>_vars
            /\ wsi_state[w] = "open" /\ w \in pollout => ENABLED <<Writeable(w)>>_vars

\* A connection in progress succeeds or fails, and one that is closing is let go
\* of, so that the next ld_service reconnects, unless the client is stuck.
Settles(w, s) == wsi_state[w] = s ~> wsi_state[w] # s \/ Stuck
ConnectionsSettle == \A w \in Wsis : Settles(w, "connecting") /\ Settles(w, "closing")

\* A handled HELLO is answered on the wire, unless the connection is lost first
\* or the client is stuck.
AnswersHello(w) ==
    wsi_state[w] = "open" /\ hello_parsed[w] ~> identified[w] \/ wsi_state[w] # "open" \/ Stuck
HelloIsAnswered == \A w \in Wsis : AnswersHello(w)

----------------------------------------------------------------------------
(***************************************************************************)
(* What the documentation says and the code does not do                     *)
(***************************************************************************)

\* CODING_NOTES.md:49, "don't send a heartbeat before HELLO".
NoHeartbeatBeforeHello ==
    [][\A w \in Wsis : unacked'[w] > unacked[w] => hello_parsed[w]]_vars

\* CODING_NOTES.md:83-84, "if there hasn't been a heartbeat response in a while /
\* disconnect with reason HEART_ATTACK".
MissedAckDisconnects ==
    phase = "app" /\ lws_wsi # NULL /\ HeartbeatDue /\ MissedAck
        ~> phase = "crashed" \/ lws_wsi = NULL

\* CODING_NOTES.md:24-25, "we were disconnected and should start a new websocket
\* connection": a close by the gateway is survived.
CloseIsSurvived == phase # "crashed"

\* libdiscord.c:723, "first fragment is also the last fragment": a HELLO in one
\* fragment is parsed on arrival.
WholeHelloIsParsed ==
    [][\A w \in Wsis : ~greeted[w] /\ greeted'[w] /\ rx_message'[w] = NoMessage
                            => hello_parsed'[w]]_vars
=============================================================================
