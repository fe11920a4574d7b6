------------------------------ MODULE LdConnect ------------------------------
(***************************************************************************)
(* How a context gets as far as a gateway connection: ld_connect and the    *)
(* three blocking REST requests it makes (lib/libdiscord.c), called again   *)
(* by every ld_service until a connection is in progress, and again when it *)
(* was lost.  What a request brought is kept in the context, and a request  *)
(* whose result is there is not repeated.                                   *)
(***************************************************************************)
EXTENDS LdRest

CONSTANTS
    DecrefOutcomes,  \* what json_decref of a borrowed reference may do
    AppSendsEarly,   \* may the application post before it is first connected?
    AppGetsLate      \* may the application make GET requests after it has posted?

ASSUME ConnectAssumption ==
    /\ DecrefOutcomes \subseteq {"survives", "crash"}
    /\ AppSendsEarly \in BOOLEAN /\ AppGetsLate \in BOOLEAN

VARIABLES
    pc,               \* the request ld_connect makes next, "return" outside, "crashed"
    gateway_url,      \* gateway_url # NULL
    gateway_bot_url,  \* gateway_bot_url # NULL
    shards,           \* shards # 0
    current_user,     \* the user struct: "NULL", "uninitialised", "partial": filled from an
                      \* answer that lacks some fields, "loaded"
    connected         \* lws_wsi # NULL

vars == <<rest_vars, pc, gateway_url, gateway_bot_url, shards, current_user, connected>>

Stages == {"gateway", "gateway_bot", "user", "lws"}

TypeOK ==
    /\ RestTypeOK
    /\ pc \in Stages \cup {"return", "crashed"}
    /\ gateway_url \in BOOLEAN /\ gateway_bot_url \in BOOLEAN
    /\ shards \in BOOLEAN
    /\ current_user \in {"NULL", "uninitialised", "partial", "loaded"}
    /\ connected \in BOOLEAN

Init ==
    /\ RestInit
    /\ pc = "return"
    /\ gateway_url = FALSE /\ gateway_bot_url = FALSE
    /\ shards = FALSE
    /\ current_user = "NULL"
    /\ connected = FALSE

----------------------------------------------------------------------------

\* ld_service without a connection calls ld_connect.
ld_connect ==
    /\ pc = "return" /\ ~connected
    /\ pc' = "gateway"
    /\ UNCHANGED <<rest_vars, gateway_url, gateway_bot_url, shards, current_user, connected>>

FailsForGood == pc' = "failed"                 \* mutant: a state nothing leaves
\* Every error returns from ld_connect at once.
Fails == pc' = "return"

\* What is there already is not asked for again.
Skip(stage, known, next) ==
    /\ pc = stage /\ known
    /\ pc' = next
    /\ UNCHANGED <<rest_vars, gateway_url, gateway_bot_url, shards, current_user, connected>>

\* _ld_get_gateway.  The reference it drops in the end is borrowed.
GetGateway ==
    /\ pc = "gateway" /\ ~gateway_url
    /\ \E answer \in Answer :
        /\ Get(answer)
        /\ IF answer \in {"partial", "complete"}
           THEN /\ gateway_url' = TRUE
                /\ \E outcome \in DecrefOutcomes :
                      pc' = IF outcome = "crash" THEN "crashed" ELSE "gateway_bot"
           ELSE Fails /\ UNCHANGED gateway_url
    /\ UNCHANGED <<gateway_bot_url, shards, current_user, connected>>

BotErrorIgnored == pc' = "user"                \* mutant: the result is not looked at
BotError == Fails

\* _ld_get_gateway_bot.  The URL is kept before the shards are looked for; a request
\* that fails is noticed by its missing body.
GetGatewayBot ==
    /\ pc = "gateway_bot" /\ ~gateway_bot_url
    /\ \E answer \in Answer :
        /\ Get(answer)
        /\ gateway_bot_url' = (answer \in {"partial", "complete"})
        /\ shards' = (answer = "complete")
        /\ IF answer = "complete" THEN pc' = "user" ELSE BotError
    /\ UNCHANGED <<gateway_url, current_user, connected>>

UserDiscarded(answer) ==                       \* mutant: freed when it could not be filled
    IF answer = "complete" THEN "loaded" ELSE "NULL"
\* What is in the struct after the request; it is kept whatever came of that.
UserAfter(answer) ==
    CASE answer = "complete" -> "loaded"
      [] answer = "partial"  -> "partial"
      [] OTHER               -> "uninitialised"

\* ld_get_current_user into a struct allocated just before, if there is memory for it.
\* Only the status and that the body is JSON are checked.
GetCurrentUser ==
    /\ pc = "user" /\ current_user = "NULL"
    /\ \/ Fails /\ UNCHANGED <<rest_vars, current_user>>
       \/ \E answer \in Answer :
             /\ Get(answer)
             /\ current_user' = UserAfter(answer)
             /\ IF answer \in {"partial", "complete"} THEN pc' = "lws" ELSE Fails
    /\ UNCHANGED <<gateway_url, gateway_bot_url, shards, connected>>

\* ld_gateway_connect, with the URL of /gateway/bot.
GatewayConnects ==
    /\ pc = "lws"
    /\ connected' = TRUE
    /\ pc' = "return"
    /\ UNCHANGED <<rest_vars, gateway_url, gateway_bot_url, shards, current_user>>

GatewayCantConnect ==
    /\ pc = "lws"
    /\ Fails
    /\ UNCHANGED <<rest_vars, gateway_url, gateway_bot_url, shards, current_user, connected>>

----------------------------------------------------------------------------

AsksAgain ==                                   \* mutant: a reconnect starts from scratch
    gateway_url' = FALSE /\ UNCHANGED <<gateway_bot_url, shards>>
\* What /gateway and /gateway/bot said outlives the connection.
KeepsUrls == UNCHANGED <<gateway_url, gateway_bot_url, shards>>

\* The connection is lost: ld_lws_callback clears lws_wsi, and nothing else.
Disconnect ==
    /\ pc = "return" /\ connected
    /\ connected' = FALSE
    /\ KeepsUrls
    /\ UNCHANGED <<rest_vars, pc, current_user>>

\* The application posts a message: from a callback, or before it connects.
Sends(body, answer) ==
    /\ pc = "return" /\ (connected \/ AppSendsEarly)
    /\ ld_send_basic_message(body, answer)
    /\ UNCHANGED <<pc, gateway_url, gateway_bot_url, shards, current_user, connected>>

AppSends == \E body \in MessageBody, answer \in Answer : Sends(body, answer)

\* The application asks for the current user itself, into a struct of its own.
AppGetsUser ==
    /\ pc = "return" /\ (AppGetsLate \/ curl_handle.method = "GET")
    /\ \E answer \in Answer : Get(answer)
    /\ UNCHANGED <<pc, gateway_url, gateway_bot_url, shards, current_user, connected>>

Crashed == pc = "crashed" /\ UNCHANGED vars

Connecting ==
    \/ ld_connect
    \/ Skip("gateway", gateway_url, "gateway_bot") \/ GetGateway
    \/ Skip("gateway_bot", gateway_bot_url, "user") \/ GetGatewayBot
    \/ Skip("user", current_user # "NULL", "lws") \/ GetCurrentUser
    \/ GatewayConnects \/ GatewayCantConnect

Next == Connecting \/ Disconnect \/ AppSends \/ AppGetsUser \/ Crashed

Spec == Init /\ [][Next]_vars

----------------------------------------------------------------------------
(***************************************************************************)
(* Properties                                                               *)
(***************************************************************************)

\* gateway_bot_url, which ld_gateway_connect reads six bytes into without a test,
\* is there whenever it runs, whatever failed in the calls before.
ConnectHasUrl == pc = "lws" \/ connected => gateway_bot_url

\* Every request goes out with the method it was made with, and reads no freed
\* body, although nothing resets the handle: all GETs of the library come before
\* the first connection and are never repeated, so an application that posts only
\* when connected, and makes no GET of its own after that, is safe.
RequestsAsMade ==
    /\ performed.verb # "none" => performed.method = performed.verb
    /\ performed.body # "freed"

(***************************************************************************)
(* What the documentation says and the code does not do                     *)
(***************************************************************************)

\* lib/libdiscord.h:221, "current user (i.e. the bot) user info struct": once there is a
\* connection, the struct has been filled from an answer to /users/@me.
BootstrapComplete == connected => current_user \in {"partial", "loaded"}
=============================================================================
