------------------------------ MODULE LdClient ------------------------------
(***************************************************************************)
(* LdContext and LdGateway in one: a program that makes a context, has it   *)
(* connect, services its connections and cleans up, and then the next.      *)
(* LdContext says of the gateway client only that a connection, a session   *)
(* id and an rx buffer come and go; here they are the gateway client's own, *)
(* and the ledger enters what its callbacks allocate and free.              *)
(***************************************************************************)
EXTENDS LdContext

CONSTANTS
    Infos,   \* what the program passes to ld_init_context
    Capacity, Wsis, NULL, Mixed, HbMax, CloseCodes, Fragmented, UninitOutcomes

ASSUME ClientAssumption ==
    /\ Infos \subseteq Info
    /\ Capacity \in Nat
    /\ NULL \notin Wsis /\ Mixed \notin Wsis /\ Mixed # NULL
    /\ HbMax \in Nat /\ HbMax >= 2
    /\ Fragmented \subseteq {"HELLO", "ACK", "READY", "DISPATCH", "INVALID", "CONTROL", "BAD"}
    /\ UninitOutcomes \subseteq {"identify", "error", "crash"}

\* LdGateway's, where they are explained.
VARIABLES
    phase, lws_wsi, hb_armed, hb_elapsed, hb_count, ring, session, rx_buffer,
    wsi_state, pollout, rx_message, greeted, hello_parsed, identified, unacked

\* ld_connect is for a context that is not connected, by ld_service or the application.
Gateway == INSTANCE LdGateway WITH AppMayConnect <- FALSE

conversation_vars == <<greeted, hello_parsed, identified, unacked>>
connection_vars == <<wsi_state, pollout, rx_message, conversation_vars>>
gateway_vars ==
    <<phase, lws_wsi, hb_armed, hb_elapsed, hb_count, ring, session, rx_buffer, connection_vars>>
client_vars == <<context_vars, gateway_vars>>

ClientTypeOK == ContextTypeOK /\ Gateway!TypeOK

ClientInit == ContextInit /\ Gateway!Init

----------------------------------------------------------------------------
(***************************************************************************)
(* The fields of the context that both have                                 *)
(***************************************************************************)

SessionId == "gateway_session_id"
RxBuffer == "gateway_rx_buffer"
Shared == {SessionId, RxBuffer}

Pointers ==
    (IF session THEN {SessionId} ELSE {}) \cup (IF rx_buffer # NULL THEN {RxBuffer} ELSE {})

\* A step of the gateway client with the fields it allocates and those it frees.  Obtaining
\* stops at MaxLost, as in LdContext.
Enters(got, freed) ==
    /\ \A f \in got : obtained[f] <= MaxLost
    /\ obtained' = [f \in Fields |-> obtained[f] + (IF f \in got THEN 1 ELSE 0)
                                                 - (IF f \in freed THEN 1 ELSE 0)]
    /\ held' = (held \ Shared) \cup Pointers'
    /\ connected' = (lws_wsi' # NULL)
    /\ UNCHANGED <<rest_vars, pc, gateway_url, gateway_bot_url, shards, current_user, life,
                   contexts>>

\* What ld_dispatch_ready duplicates.
Saves(p) == IF p = "READY" THEN {SessionId} ELSE {}

FreesUnseen(p) ==                              \* mutant: freed without being there
    IF p = "INVALID" THEN {SessionId} ELSE {}
\* What INVALIDATE_SESSION frees; free of NULL frees nothing.
Frees(p) == IF p = "INVALID" /\ session THEN {SessionId} ELSE {}

BufferIfThere == IF rx_buffer # NULL THEN {RxBuffer} ELSE {}
BufferIfNot == {RxBuffer} \ BufferIfThere

----------------------------------------------------------------------------
(***************************************************************************)
(* ld_init_context and ld_cleanup_context                                   *)
(***************************************************************************)

CountSurvives == UNCHANGED hb_count            \* mutant: a field the memset leaves out
CountCleared == hb_count' = 0

\* The struct is zeroed, and last_hb is the current time.
StructZeroed ==
    /\ lws_wsi' = NULL /\ session' = FALSE /\ rx_buffer' = NULL
    /\ hb_armed' = FALSE /\ hb_elapsed' = FALSE /\ CountCleared
    /\ ring' = <<>>
    /\ UNCHANGED <<phase, connection_vars>>

NewContext == MakesContext(Infos) /\ StructZeroed

ConnectionsStay == UNCHANGED wsi_state         \* mutant: the lws context is not destroyed
ConnectionsClosed == wsi_state' = [w \in Wsis |-> "free"]

\* lws_context_destroy takes the connections with it, and the callback for WSI_DESTROY clears
\* lws_wsi.
CleansUp ==
    /\ phase = "app" /\ ld_cleanup_context
    /\ ConnectionsClosed /\ pollout' = {}
    /\ rx_message' = [w \in Wsis |-> Gateway!NoMessage]
    /\ greeted' = [w \in Wsis |-> FALSE] /\ hello_parsed' = [w \in Wsis |-> FALSE]
    /\ identified' = [w \in Wsis |-> FALSE] /\ unacked' = [w \in Wsis |-> 0]
    /\ lws_wsi' = NULL
    /\ UNCHANGED <<phase, hb_armed, hb_elapsed, hb_count, ring, session, rx_buffer>>

----------------------------------------------------------------------------
(***************************************************************************)
(* ld_connect and ld_service                                                *)
(***************************************************************************)

\* ld_connect outside lws_service, request by request, up to a connection in progress.
Bootstraps ==
    /\ phase = "app"
    /\ Connecting /\ Stores
    /\ IF connected' THEN Gateway!ServiceConnects ELSE UNCHANGED gateway_vars

\* With a connection: ld_connect is not running.
InUse == life = "made" /\ pc = "return"

Services ==
    /\ InUse
    /\ \/ Gateway!ServiceMissedAck \/ Gateway!ServiceCantFitHeartbeat
       \/ Gateway!ServicePolls \/ Gateway!ServiceReturns
    /\ Enters({}, {})

\* Callbacks that leave the session id and the rx buffer alone.
ConnectionCallback(w) ==
    /\ \/ Gateway!ConnectionError(w) \/ Gateway!Established(w)
       \/ Gateway!Drop(w) \/ Gateway!WsiDestroy(w)
       \/ \E code \in CloseCodes : Gateway!PeerInitiatedClose(w, code)
       \/ Gateway!Writeable(w)
    /\ Enters({}, {})

\* LWS_CALLBACK_CLIENT_RECEIVE, with the malloc for a first fragment, the realloc for the
\* next, and the free behind the last.
ReceivesWhole(w, p) ==
    /\ Gateway!ReceiveWhole(w, p)
    /\ IF rx_buffer = NULL THEN Enters(Saves(p), Frees(p)) ELSE Enters({RxBuffer}, {})

ReceivesLast(w) ==
    LET p == IF rx_buffer = w THEN rx_message[w] ELSE "BAD"
    IN  Gateway!ReceiveLast(w) /\ Enters(Saves(p), Frees(p) \cup BufferIfThere)

ReceivesOn(w) ==
    \/ \E p \in Gateway!RxPayload : ReceivesWhole(w, p)
    \/ \E p \in Fragmented : Gateway!ReceiveFirst(w, p) /\ Enters({RxBuffer}, {})
    \/ Gateway!ReceiveMiddle(w) /\ Enters(BufferIfNot, {})
    \/ ReceivesLast(w)

RunsCallback == InUse /\ \E w \in Wsis : ConnectionCallback(w) \/ ReceivesOn(w)

----------------------------------------------------------------------------

\* The application's own requests, from a callback or from its loop.
Requests ==
    /\ phase # "crashed"
    /\ AppSends \/ AppGetsUser
    /\ Stores
    /\ UNCHANGED gateway_vars

\* The heartbeat interval runs out, in the middle of a bootstrap too.
TimePasses == life = "made" /\ pc # "crashed" /\ Gateway!Elapse /\ UNCHANGED context_vars

\* A crash, or the last context is cleaned up.  That the program may leave before, with or
\* without cleaning up, needs no step: it takes none any more.
Ended ==
    /\ pc = "crashed" \/ phase = "crashed" \/ (life = "none" /\ contexts = MaxContexts)
    /\ UNCHANGED client_vars

ClientNext ==
    \/ NewContext \/ CleansUp
    \/ Bootstraps \/ Services \/ RunsCallback
    \/ Requests \/ TimePasses \/ Ended

ClientSpec == ClientInit /\ [][ClientNext]_client_vars

----------------------------------------------------------------------------
(***************************************************************************)
(* Properties                                                               *)
(***************************************************************************)

\* While lws has a connection there is what its callbacks dereference: the context, with
\* the user, the URL it was made for, and lws_wsi (what it got from the info, the user's
\* callback among it, it has as long as it is "made").  Neither ld_cleanup_context nor a
\* bootstrap leaves a connection behind that would call back without.
CallbacksHaveContext ==
    (\E w \in Wsis : wsi_state[w] # "free") =>
        life = "made" /\ pc = "return" /\ connected /\ gateway_bot_url /\ current_user # "NULL"

\* What LdContext assumes of the gateway client is what the gateway client does: the
\* callbacks, whatever the fragments and whichever connection is lost, obtain and free the
\* session id and the rx buffer in the steps of LdContext, and only while connected.
ImplementsContext == ContextSpec

\* And what LdGateway assumes of the rest of the library is what that does: the client of
\* every context starts in LdGateway's initial state, whatever the one before left, and
\* takes its steps.
GatewayInEveryContext ==
    [][IF life' = life THEN [Gateway!Next]_gateway_vars
       ELSE life' = "made" => (Gateway!Init)']_client_vars
=============================================================================
