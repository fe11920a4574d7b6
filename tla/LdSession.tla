----------------------------- MODULE LdSession -----------------------------
(***************************************************************************)
(* One gateway connection at a time with what LdGateway abstracts from: the *)
(* clock and the unsigned arithmetic of the heartbeat timer, the sequence   *)
(* number, the session, and the payloads in the transmit ring.  Messages    *)
(* come whole, and the gateway does not close with the codes that crash the *)
(* client: both are LdGateway's subject.  Every payload that is no dispatch *)
(* carries an "s" of null.                                                  *)
(***************************************************************************)
EXTENDS LwsRing, LdJson

CONSTANTS
    Context,          \* the fields of struct ld_context that IDENTIFY is made of
    HbMax,            \* hb_count is kept exactly up to here
    Intervals,        \* the heartbeat_interval of a HELLO, in ms; 0 when it has none
    DefaultInterval,  \* 41250
    Modulus,          \* one more than the largest unsigned long
    ServiceGap,       \* most seconds from one ld_service call to the next
    UninitOutcomes,   \* what using the uninitialised identify struct may do
    MaxClock, MaxAge, \* bounds: of the clock, of the time between two settings of last_hb
    MaxSeq            \* bound: dispatches of one session

ASSUME SessionAssumption ==
    /\ UnpackIdentify(SetIdentify(Context)) # NULL     \* there is a bot token
    /\ HbMax \in Nat /\ HbMax >= 2
    /\ Intervals \subseteq Nat
    /\ DefaultInterval \in Nat \ {0}
    /\ ServiceGap \in Nat \ {0}
    /\ UninitOutcomes \subseteq {"identify", "error", "crash"}
    /\ MaxClock \in Nat /\ MaxAge \in Nat /\ MaxSeq \in Nat
    /\ Modulus \in Nat /\ Modulus > MaxClock
    /\ NULL \notin {"HEARTBEAT", "IDENTIFY", "wsi"} /\ Garbage # "wsi"

VARIABLES
    phase,               \* "app", "service", "crashed"
    wsi,                 \* lws_wsi: "free" (NULL), "connecting", "open", "closing"
    pollout,             \* a writeable callback is pending
    \* struct ld_context
    heartbeat_interval, last_hb, hb_count, ring, last_seq,
    session,             \* gateway_session_id # NULL
    \* the gateway
    greeted,             \* HELLO has been sent, and handled
    in_session,          \* IDENTIFY has been accepted, the session is valid
    identified,          \* IDENTIFY has been received
    gw_seq,              \* the sequence number of its last dispatch
    unacked,             \* heartbeats received and not acknowledged
    \* time, in seconds
    clock,               \* lws_now_secs()
    age,                 \* since last_hb was set
    idle,                \* since ld_service was called
    stepped              \* the clock was set back since last_hb was set

context_vars == <<heartbeat_interval, last_hb, hb_count, ring, last_seq, session>>
wsi_vars     == <<wsi, pollout>>
gateway_vars == <<greeted, in_session, identified, gw_seq, unacked>>
time_vars    == <<clock, age, idle, stepped>>
vars == <<phase, context_vars, wsi_vars, gateway_vars, time_vars>>

\* The two payloads the library sends: ld_gateway_queue_heartbeat's, and what HELLO is
\* answered with, from the struct as filled in or as it lay on the stack.
Heartbeat == CreatePayload("HEARTBEAT", last_seq, NULL, NULL)
Identify(d) == CreatePayload("IDENTIFY", d, NULL, NULL)

FlagsOK ==
    /\ pollout \in BOOLEAN /\ session \in BOOLEAN /\ stepped \in BOOLEAN
    /\ greeted \in BOOLEAN /\ in_session \in BOOLEAN /\ identified \in BOOLEAN

TypeOK ==
    /\ phase \in {"app", "service", "crashed"}
    /\ wsi \in {"free", "connecting", "open", "closing"}
    /\ heartbeat_interval \in Nat
    /\ last_hb \in Nat /\ clock \in 0..MaxClock /\ age \in Nat /\ idle \in 0..ServiceGap
    /\ hb_count \in 0..HbMax /\ unacked \in Nat
    /\ Len(ring) <= Capacity
    /\ \A i \in DOMAIN ring : ring[i].op = "HEARTBEAT" => ring[i].d \in 0..MaxSeq
    /\ last_seq \in 0..MaxSeq /\ gw_seq \in 0..MaxSeq
    /\ FlagsOK

Init ==
    /\ phase = "app" /\ wsi = "free" /\ pollout = FALSE
    /\ heartbeat_interval = 0 /\ hb_count = 0 /\ ring = <<>>
    /\ last_seq = 0 /\ session = FALSE
    /\ greeted = FALSE /\ in_session = FALSE /\ identified = FALSE
    /\ gw_seq = 0 /\ unacked = 0
    /\ clock = 0 /\ last_hb = clock
    /\ age = 0 /\ idle = 0 /\ stepped = FALSE

----------------------------------------------------------------------------
(***************************************************************************)
(* The heartbeat timer                                                      *)
(***************************************************************************)

\* lws_now_secs() - last_hb, of two unsigned longs
Since == IF last_hb <= clock THEN clock - last_hb ELSE clock - last_hb + Modulus

Seconds(ms) == ms \div 1000

DueInMilliseconds ==                           \* mutant: the units mixed up
    Since > heartbeat_interval /\ heartbeat_interval # 0
Due == Since > Seconds(heartbeat_interval) /\ heartbeat_interval # 0

\* last_hb = lws_now_secs()
SetsTimer == last_hb' = clock /\ age' = 0 /\ stepped' = FALSE /\ UNCHANGED <<clock, idle>>

\* The clock advances, and ld_service is called often enough.
Tick ==
    /\ phase # "crashed"
    /\ clock < MaxClock /\ age < MaxAge
    /\ clock' = clock + 1 /\ age' = age + 1
    /\ \/ wsi = "free" /\ UNCHANGED idle
       \/ wsi # "free" /\ idle < ServiceGap /\ idle' = idle + 1
    /\ UNCHANGED <<phase, context_vars, wsi_vars, gateway_vars, stepped>>

\* The clock is set back: lws_now_secs reads the wall clock.
SetBack ==
    /\ phase # "crashed"
    /\ \E earlier \in 0..clock - 1 : clock' = earlier
    /\ stepped' = TRUE
    /\ UNCHANGED <<phase, context_vars, wsi_vars, gateway_vars, age, idle>>

----------------------------------------------------------------------------
(***************************************************************************)
(* ld_service                                                               *)
(***************************************************************************)

\* ld_connect succeeds; when it fails nothing of this module changes.
Connects ==
    /\ phase = "app" /\ wsi = "free"
    /\ wsi' = "connecting" /\ idle' = 0
    /\ UNCHANGED <<phase, context_vars, pollout, gateway_vars, clock, age, stepped>>

\* hb_count++ makes it exceed one: ld_service returns before lws_service.
ServiceMissedAck ==
    /\ phase = "app" /\ wsi # "free"
    /\ Due /\ hb_count >= 1
    /\ hb_count' = IF hb_count < HbMax THEN hb_count + 1 ELSE HbMax
    /\ idle' = 0
    /\ UNCHANGED <<phase, heartbeat_interval, last_hb, ring, last_seq, session, wsi_vars,
                   gateway_vars, clock, age, stepped>>

\* ld_gateway_queue_heartbeat finds no room; neither is lws serviced.
ServiceCantFit ==
    /\ phase = "app" /\ wsi # "free"
    /\ Due /\ hb_count = 0 /\ RingFree(ring) = 0
    /\ idle' = 0
    /\ UNCHANGED <<phase, context_vars, wsi_vars, gateway_vars, clock, age, stepped>>

\* last_hb is set once the heartbeat is in the ring.
QueuesHeartbeat ==
    /\ Due /\ hb_count = 0 /\ RingFree(ring) # 0
    /\ hb_count' = 1
    /\ ring' = RingInsert(ring, Heartbeat)
    /\ last_hb' = clock /\ age' = 0 /\ idle' = 0 /\ stepped' = FALSE
    /\ UNCHANGED clock

NoHeartbeatNeeded ==
    ~Due /\ idle' = 0 /\ UNCHANGED <<hb_count, ring, last_hb, clock, age, stepped>>

\* A writeable callback is asked for when something waits; lws_service is called.
ServicePolls ==
    /\ phase = "app" /\ wsi # "free"
    /\ QueuesHeartbeat \/ NoHeartbeatNeeded
    /\ pollout' = (pollout \/ (RingWaiting(ring') # 0 /\ wsi = "open"))
    /\ phase' = "service"
    /\ UNCHANGED <<heartbeat_interval, last_seq, session, wsi, gateway_vars>>

ServiceReturns ==
    /\ phase = "service" /\ phase' = "app"
    /\ UNCHANGED <<context_vars, wsi_vars, gateway_vars, time_vars>>

----------------------------------------------------------------------------
(***************************************************************************)
(* ld_lws_callback: the connection                                          *)
(***************************************************************************)

\* The connection is destroyed; the context keeps all but the pointer to it.
Gone ==
    /\ wsi' = "free" /\ pollout' = FALSE
    /\ greeted' = FALSE /\ in_session' = FALSE /\ identified' = FALSE
    /\ gw_seq' = 0 /\ unacked' = 0
    /\ UNCHANGED <<phase, context_vars, time_vars>>

ConnectionError == phase = "service" /\ wsi = "connecting" /\ Gone

TimerRunsOn == UNCHANGED <<last_hb, time_vars>>   \* mutant: last_hb not set on connecting
\* ESTABLISHED sets last_hb, or the old timer would run out before HELLO.
EstablishedTimer == SetsTimer

CountsAfresh == hb_count' = 0                  \* mutant: a new connection, a new count
\* It leaves the count of the connection before.
EstablishedCount == UNCHANGED hb_count

\* The user's callback may hang up.
Established ==
    /\ phase = "service" /\ wsi = "connecting"
    /\ wsi' \in {"open", "closing"}
    /\ EstablishedTimer /\ EstablishedCount
    /\ UNCHANGED <<phase, heartbeat_interval, ring, last_seq, session, pollout,
                   gateway_vars>>

\* The connection breaks, or the gateway closes it with a code that is not fatal.
Drop ==
    /\ phase = "service" /\ wsi = "open"
    /\ wsi' = "closing"
    /\ UNCHANGED <<phase, context_vars, pollout, gateway_vars, time_vars>>

Destroy == phase = "service" /\ wsi = "closing" /\ Gone

----------------------------------------------------------------------------
(***************************************************************************)
(* ld_gateway_payload_parser                                                *)
(***************************************************************************)

Receiving == phase = "service" /\ wsi = "open"

\* A payload with this "s" is parsed: it is stored whatever the opcode.
ReceivesSeq(s) == last_seq' = ParsedSeq([s |-> s], last_seq)

\* heartbeat_interval of a HELLO: missing or no integer, and the default stands.
IntervalOf(i) == IF i = 0 THEN DefaultInterval ELSE i

\* Without a session the identify struct is filled in.  With one the RESUME comes to
\* nothing, and the struct is used as it lies on the stack.
IdentifyOutcomes == IF session THEN UninitOutcomes ELSE {"identify"}
IdentifyData == IF session THEN Garbage ELSE UnpackIdentify(SetIdentify(Context))

ReceiveHello ==
    /\ Receiving /\ ~greeted
    /\ ReceivesSeq(JsonNull)
    /\ \E i \in Intervals : heartbeat_interval' = IntervalOf(i)
    /\ greeted' = TRUE
    /\ \/ /\ "identify" \in IdentifyOutcomes /\ IdentifyData # NULL
          /\ ring' = RingInsert(ring, Identify(IdentifyData))
          /\ SetsTimer
          /\ UNCHANGED <<phase, wsi>>
       \/ /\ "error" \in IdentifyOutcomes \/ IdentifyData = NULL
          /\ wsi' = "closing"
          /\ UNCHANGED <<phase, ring, last_hb, time_vars>>
       \/ /\ "crash" \in IdentifyOutcomes
          /\ phase' = "crashed"
          /\ UNCHANGED <<wsi, ring, last_hb, time_vars>>
    /\ UNCHANGED <<hb_count, session, pollout, in_session, identified, gw_seq, unacked>>

CountedTwice(c) == c - 2                       \* mutant: an ACK counted twice
CountedDown(c) == c - 1

ReceiveAck ==
    /\ Receiving /\ unacked > 0
    /\ ReceivesSeq(JsonNull)
    /\ hb_count' = CountedDown(hb_count) /\ unacked' = unacked - 1
    /\ UNCHANGED <<phase, heartbeat_interval, last_hb, ring, session, wsi_vars, greeted,
                   in_session, identified, gw_seq, time_vars>>

\* A dispatch: READY is the first of a session and brings its id.  What the user's
\* callback returns may hang up.
ReceiveDispatch ==
    /\ Receiving /\ in_session /\ gw_seq < MaxSeq
    /\ gw_seq' = gw_seq + 1
    /\ ReceivesSeq(gw_seq')
    /\ session' = (session \/ gw_seq = 0)
    /\ wsi' \in {"open", "closing"}
    /\ UNCHANGED <<phase, heartbeat_interval, last_hb, hb_count, ring, pollout, greeted,
                   in_session, identified, unacked, time_vars>>

\* INVALID_SESSION, in a session or in answer to an IDENTIFY the gateway refuses, frees the
\* session id and clears last_seq.
ReceiveInvalid ==
    /\ Receiving /\ identified
    /\ last_seq' = 0
    /\ session' = FALSE
    /\ in_session' = FALSE /\ gw_seq' = 0
    /\ UNCHANGED <<phase, heartbeat_interval, last_hb, hb_count, ring, wsi_vars, greeted,
                   identified, unacked, time_vars>>

\* HEARTBEAT, RECONNECT and others are ignored, but for their "s".
ReceiveControl ==
    /\ Receiving /\ greeted
    /\ ReceivesSeq(JsonNull)
    /\ UNCHANGED <<phase, heartbeat_interval, last_hb, hb_count, ring, session, wsi_vars,
                   gateway_vars, time_vars>>

\* A payload that is refused: no JSON, an unknown opcode, a key that is none of the four,
\* before or behind "s".
ReceiveBad ==
    /\ Receiving /\ greeted
    /\ ReceivesSeq(JsonNull) \/ UNCHANGED last_seq
    /\ wsi' = "closing"
    /\ UNCHANGED <<phase, heartbeat_interval, last_hb, hb_count, ring, session, pollout,
                   gateway_vars, time_vars>>

----------------------------------------------------------------------------
(***************************************************************************)
(* LWS_CALLBACK_CLIENT_WRITEABLE                                            *)
(***************************************************************************)

\* What the gateway makes of a payload.  An IDENTIFY opens a session if there is none;
\* one made of garbage may be taken or not.
GatewayReceives(p) ==
    \/ /\ p.op = "HEARTBEAT"
       /\ unacked' = unacked + 1
       /\ UNCHANGED <<identified, in_session>>
    \/ /\ p.op = "IDENTIFY"
       /\ identified' = TRUE
       /\ in_session' \in IF p.d = Garbage THEN {in_session, TRUE} ELSE {TRUE}
       /\ UNCHANGED unacked

\* The payload is lost, and the connection hung up.
WriteFails == wsi' = "closing" /\ UNCHANGED <<identified, in_session, unacked>>

Writeable ==
    /\ phase = "service" /\ wsi = "open" /\ pollout
    /\ pollout' = FALSE
    /\ IF RingWaiting(ring) = 0
       THEN UNCHANGED <<ring, wsi, identified, in_session, unacked>>
       ELSE /\ ring' = RingRest(ring)
            /\ \/ GatewayReceives(RingOldest(ring)) /\ UNCHANGED wsi
               \/ WriteFails
    /\ UNCHANGED <<phase, heartbeat_interval, last_hb, hb_count, last_seq, session, greeted,
                   gw_seq, time_vars>>

\* After a crash nothing happens.
Crashed == phase = "crashed" /\ UNCHANGED vars

Service == Connects \/ ServiceMissedAck \/ ServiceCantFit \/ ServicePolls
Connection == ConnectionError \/ Established \/ Drop \/ Destroy
Receive ==
    \/ ReceiveHello \/ ReceiveAck \/ ReceiveDispatch
    \/ ReceiveInvalid \/ ReceiveControl \/ ReceiveBad

Next ==
    \/ Service \/ ServiceReturns
    \/ Connection \/ Receive \/ Writeable
    \/ Tick \/ SetBack
    \/ Crashed

Spec == Init /\ [][Next]_vars

----------------------------------------------------------------------------
(***************************************************************************)
(* Properties                                                               *)
(***************************************************************************)

\* last_seq never names a dispatch of another session: once HELLO is handled it is the
\* number of the gateway's last dispatch or 0.  It outlives the connection, and only
\* because a null "s" counts as 0 does the HELLO of the next one reset it.
SeqIsCurrent == greeted => last_seq \in {0, gw_seq}

\* ld_service returns before lws_service, and will until the clock is set back.
Stalled == phase = "app" /\ Due /\ (hb_count >= 2 \/ RingFree(ring) = 0)

\* A heartbeat is never later than CODING_NOTES.md:16-19 allows: in the units of the
\* timer, seconds cut off from milliseconds, it is queued, with the next call of
\* ld_service, when the interval is over, or the client has stalled.
HeartbeatsOnTime ==
    wsi = "open" /\ greeted /\ phase # "crashed" /\ ~stepped =>
        age <= Seconds(heartbeat_interval) + ServiceGap \/ Stalled

Ops(r) == [i \in DOMAIN r |-> r[i].op]

\* The abstract client: LdGateway with one connection, whole messages, and a flag for
\* the timer.
Gateway == INSTANCE LdGateway WITH
    Wsis <- {"wsi"}, Mixed <- Garbage, CloseCodes <- {4000}, Fragmented <- {},
    AppMayConnect <- FALSE,
    lws_wsi <- IF wsi = "free" THEN NULL ELSE "wsi",
    hb_armed <- heartbeat_interval # 0,
    hb_elapsed <- Since > Seconds(heartbeat_interval),
    ring <- Ops(ring),
    rx_buffer <- NULL,
    wsi_state <- [w \in {"wsi"} |-> wsi],
    pollout <- IF pollout THEN {"wsi"} ELSE {},
    rx_message <- [w \in {"wsi"} |-> "none"],
    greeted <- [w \in {"wsi"} |-> greeted],
    hello_parsed <- [w \in {"wsi"} |-> greeted],
    identified <- [w \in {"wsi"} |-> identified],
    unacked <- [w \in {"wsi"} |-> unacked]

\* Every step is one of LdGateway, or none, whatever the clock, the sequence numbers and
\* the payloads are, unless the clock, once set back, takes an expired timer back.
ImplementsGateway ==
    [][(clock' # clock /\ stepped') \/ Gateway!Next]_(Gateway!vars)

\* What LdGateway promises of every state holds with the clock set back too: one heartbeat
\* at most is out and counted, nothing comes before the first HELLO, and a HELLO that has
\* been handled has its IDENTIFY sent or waiting.
GatewayPromises ==
    Gateway!OneHeartbeatOutstanding /\ Gateway!NothingBeforeFirstHello /\ Gateway!HelloAnswered

\* lib/libdiscord.h:207, "last sequence number received in the gateway".
LastSeqIsLast == greeted /\ gw_seq # 0 => last_seq = gw_seq
=============================================================================
